---------------------------- MODULE MonitoringProofs ----------------------------
(* The proofs of the two programs of src/monitoring, in two parts: the metrics *)
(* collector, for any set of services and any number of ticks, requests and    *)
(* deaths; and the log aggregator, for any number of lines.                    *)
EXTENDS MetricsCollector, LogAggregator, TLAPS

------------------------------------------------------------------------------
(*                              MetricsCollector                               *)

LEMMA BoundsAreNaturals == MaxTicks \in Nat /\ MaxRequests \in Nat /\ MaxDeaths \in Nat
BY BoundsAssumption

\* What is written down was scraped from all services, in a tick with a number.
TickOK ==
    /\ InTick => ticks # 0
    /\ pc \in {"truncated", "appending"} => \A s \in Service : answer[s] # Pending

\* Counters stay within what happened to the services.
CountsBounded ==
    \A s \in Service : counts[s].requests <= requests /\ counts[s].life <= deaths
                       /\ counts[s].errors <= counts[s].requests

TypeInv == TypeOK /\ TickOK /\ CountsBounded

\* Counts c of a service may have been read before its counts d.
NotAfter(c, d) ==
    /\ c.errors <= c.requests
    /\ c.life <= d.life
    /\ c.life = d.life => c.requests <= d.requests /\ c.errors <= d.errors

LEMMA InitTypeInv == Init => TypeInv
<1> SUFFICES ASSUME Init PROVE TypeInv
  OBVIOUS
<1>1. Fresh(0) \in Count
  BY BoundsAreNaturals DEF Fresh, Count
<1>2. TypeOK
  <2>1. counts \in [Service -> Count]
    BY <1>1 DEF Init
  <2>2. answer \in [Service -> Count \union {Pending, Failed}]
    BY DEF Init
  <2>3. history \in Seq(Document) /\ current \in Document \union {NoDocument}
    BY DEF Init
  <2>4. /\ ticks \in 0..MaxTicks /\ requests \in 0..MaxRequests
        /\ deaths \in 0..MaxDeaths /\ collectorDeaths \in 0..deaths
        /\ cuts \in 0..collectorDeaths
    BY BoundsAreNaturals DEF Init
  <2>5. QED
    BY <2>1, <2>2, <2>3, <2>4 DEF Init, TypeOK
<1>3. TickOK
  BY DEF Init, TickOK, InTick
<1>4. CountsBounded
  BY DEF Init, CountsBounded, Fresh
<1>5. QED
  BY <1>2, <1>3, <1>4 DEF TypeInv

\* A document of this tick is one: all services were scraped for it.
LEMMA SnapshotIsDocument ==
    ASSUME TypeInv, pc \in {"truncated", "appending"}
    PROVE  Snapshot \in Document
<1>1. answer \in [Service -> Count \union {Failed}]
  BY DEF TypeInv, TypeOK, TickOK
<1>2. ticks \in 1..MaxTicks
  BY BoundsAreNaturals DEF TypeInv, TypeOK, TickOK, InTick
<1>3. QED
  BY <1>1, <1>2 DEF Snapshot, Document

LEMMA CountType ==
    ASSUME NEW c \in Count
    PROVE  /\ c.requests \in 0..MaxRequests /\ c.errors \in 0..MaxRequests
           /\ c.life \in 0..MaxDeaths
           /\ c.requests \in Nat /\ c.errors \in Nat /\ c.life \in Nat
BY BoundsAreNaturals DEF Count

\* MetricsState.record: one request more, and one error more for some.
LEMMA RecordedCount ==
    ASSUME NEW c \in Count, NEW is_error \in BOOLEAN, c.requests < MaxRequests,
           c.errors <= c.requests
    PROVE  /\ Recorded(c, is_error) \in Count
           /\ Recorded(c, is_error).requests = c.requests + 1
           /\ c.errors <= Recorded(c, is_error).errors
           /\ Recorded(c, is_error).errors <= c.errors + 1
           /\ Recorded(c, is_error).life = c.life
<1>1. /\ c.requests + 1 \in 0..MaxRequests /\ c.errors + 1 \in 0..MaxRequests
      /\ c.errors \in 0..MaxRequests /\ c.errors \in Nat /\ c.life \in 0..MaxDeaths
  BY CountType, BoundsAreNaturals
<1>2. CASE is_error
  <2>1. Recorded(c, is_error) = [c EXCEPT !.requests = @ + 1, !.errors = @ + 1]
    BY <1>2 DEF Recorded
  <2>2. Recorded(c, is_error) \in Count
    BY <1>1, <2>1 DEF Count
  <2>3. QED
    BY <1>1, <2>1, <2>2 DEF Count
<1>3. CASE ~is_error
  <2>1. Recorded(c, is_error) = [c EXCEPT !.requests = @ + 1, !.errors = @]
    BY <1>3 DEF Recorded
  <2>2. Recorded(c, is_error) \in Count
    BY <1>1, <2>1 DEF Count
  <2>3. QED
    BY <1>1, <2>1, <2>2 DEF Count
<1>4. QED
  BY <1>2, <1>3

\* What a service does to its counters, and to nobody else's.
LEMMA CountsStep ==
    ASSUME TypeInv, NEW s \in Service, Complete(s) \/ ServiceRestarts(s)
    PROVE  /\ counts' \in [Service -> Count]
           /\ CountsBounded'
           /\ \A r \in Service : NotAfter(counts[r], counts'[r])
           /\ requests' \in 0..MaxRequests /\ deaths' \in 0..MaxDeaths /\ deaths <= deaths'
<1>1. /\ counts \in [Service -> Count] /\ counts[s] \in Count
      /\ requests \in Nat /\ deaths \in Nat
      /\ \A r \in Service : /\ counts[r] \in Count
                            /\ counts[r].requests <= requests /\ counts[r].life <= deaths
                            /\ counts[r].errors <= counts[r].requests
  BY DEF TypeInv, TypeOK, CountsBounded
<1>2. CASE Complete(s)
  <2>1. PICK is_error \in BOOLEAN : counts' = [counts EXCEPT ![s] = Recorded(@, is_error)]
    BY <1>2 DEF Complete
  <2>2. requests < MaxRequests /\ requests' = requests + 1 /\ deaths' = deaths
    BY <1>2 DEF Complete
  <2>3. /\ counts'[s] = Recorded(counts[s], is_error)
        /\ \A r \in Service \ {s} : counts'[r] = counts[r]
    BY <1>1, <2>1
  <2>4. /\ Recorded(counts[s], is_error) \in Count
        /\ Recorded(counts[s], is_error).requests = counts[s].requests + 1
        /\ Recorded(counts[s], is_error).errors <= counts[s].errors + 1
        /\ Recorded(counts[s], is_error).life = counts[s].life
    <3>1. counts[s].requests < MaxRequests
      BY <1>1, <2>2, CountType, BoundsAreNaturals
    <3>2. QED
      BY <1>1, <3>1, RecordedCount
  <2>5. counts' \in [Service -> Count]
    BY <1>1, <2>1, <2>4
  <2>6. CountsBounded'
    <3> SUFFICES ASSUME NEW r \in Service
                 PROVE  /\ counts'[r].requests <= requests + 1 /\ counts'[r].life <= deaths
                        /\ counts'[r].errors <= counts'[r].requests
      BY <2>2 DEF CountsBounded
    <3>1. CASE r = s
      BY <1>1, <2>3, <2>4, <3>1, CountType
    <3>2. CASE r # s
      <4>1. counts[r].requests \in Nat /\ counts'[r] = counts[r]
        BY <1>1, <2>3, <3>2, CountType
      <4>2. QED
        BY <1>1, <4>1
    <3>3. QED
      BY <3>1, <3>2
  <2>7. requests' \in 0..MaxRequests /\ deaths' \in 0..MaxDeaths
    BY <1>1, <2>2, BoundsAreNaturals DEF TypeInv, TypeOK
  <2>8. NotAfter(counts[s], counts'[s])
    <3>1. /\ counts[s].requests \in Nat /\ counts[s].life \in Nat
          /\ counts[s].errors <= counts'[s].errors
      BY <1>1, <2>2, <2>3, CountType, RecordedCount, BoundsAreNaturals
    <3>2. QED
      BY <1>1, <2>3, <2>4, <3>1 DEF NotAfter
  <2>9. QED
    BY <1>1, <1>2, <2>2, <2>3, <2>5, <2>6, <2>7, <2>8, CountType DEF NotAfter
<1>3. CASE ServiceRestarts(s)
  <2>1. /\ deaths < MaxDeaths /\ deaths' = deaths + 1 /\ requests' = requests
        /\ counts' = [counts EXCEPT ![s] = Fresh(@.life + 1)]
    BY <1>3 DEF ServiceRestarts
  <2>2. /\ counts'[s] = Fresh(counts[s].life + 1)
        /\ \A r \in Service \ {s} : counts'[r] = counts[r]
    BY <1>1, <2>1
  <2>3. /\ Fresh(counts[s].life + 1) \in Count
        /\ Fresh(counts[s].life + 1).requests = 0 /\ Fresh(counts[s].life + 1).errors = 0
        /\ Fresh(counts[s].life + 1).life = counts[s].life + 1
    BY <1>1, <2>1, BoundsAreNaturals DEF Fresh, Count
  <2>4. counts' \in [Service -> Count]
    BY <1>1, <2>1, <2>3
  <2>5. CountsBounded'
    <3> SUFFICES ASSUME NEW r \in Service
                 PROVE  /\ counts'[r].requests <= requests /\ counts'[r].life <= deaths + 1
                        /\ counts'[r].errors <= counts'[r].requests
      BY <2>1 DEF CountsBounded
    <3>1. CASE r = s
      <4>1. counts[s].life \in Nat /\ counts[s].life <= deaths
        BY <1>1, CountType
      <4>2. QED
        BY <1>1, <2>2, <2>3, <3>1, <4>1
    <3>2. CASE r # s
      <4>1. counts[r].life \in Nat /\ counts'[r] = counts[r]
        BY <1>1, <2>2, <3>2, CountType
      <4>2. QED
        BY <1>1, <4>1
    <3>3. QED
      BY <3>1, <3>2
  <2>6. requests' \in 0..MaxRequests /\ deaths' \in 0..MaxDeaths
    BY <1>1, <2>1, BoundsAreNaturals DEF TypeInv, TypeOK
  <2>7. NotAfter(counts[s], counts'[s])
    BY <1>1, <2>2, <2>3, CountType DEF NotAfter
  <2>8. QED
    BY <1>1, <2>1, <2>2, <2>4, <2>5, <2>6, <2>7, CountType DEF NotAfter
<1>4. QED
  BY <1>2, <1>3

LEMMA ServiceStepTypeInv ==
    ASSUME TypeInv, NEW s \in Service, Complete(s) \/ ServiceRestarts(s)
    PROVE  TypeInv'
<1>1. UNCHANGED <<pc, one_shot, stop, answer, current, history, torn, ticks,
                  collectorDeaths, cuts>>
  BY DEF Complete, ServiceRestarts
<1>2. collectorDeaths' \in 0..deaths'
  BY <1>1, CountsStep DEF TypeInv, TypeOK
<1>3. TypeOK'
  BY <1>1, <1>2, CountsStep DEF TypeInv, TypeOK
<1>4. TickOK'
  BY <1>1 DEF TypeInv, TickOK, InTick
<1>5. QED
  BY <1>3, <1>4, CountsStep DEF TypeInv

LEMMA CollectorStepTypeInv == ASSUME TypeInv, CollectorStep PROVE TypeInv'
<1>1. UNCHANGED <<counts, requests, deaths, collectorDeaths, cuts, one_shot, stop>>
  BY DEF CollectorStep, Poll, Truncate, WriteCurrent, AppendHistory, WaitEnds, Leave, ScrapeOne
<1>2. CountsBounded'
  BY <1>1 DEF TypeInv, CountsBounded
<1>3. CASE Poll
  <2>1. ticks' \in 0..MaxTicks /\ ticks' # 0
    BY <1>3, BoundsAreNaturals DEF Poll, TypeInv, TypeOK
  <2>2. answer' \in [Service -> Count \union {Pending, Failed}]
    BY <1>3 DEF Poll
  <2>3. TypeOK' /\ TickOK'
    BY <1>1, <1>3, <2>1, <2>2 DEF Poll, TypeInv, TypeOK, TickOK, InTick
  <2>4. QED
    BY <1>2, <2>3 DEF TypeInv
<1>4. ASSUME NEW s \in Service, ScrapeOne(s)
      PROVE  TypeInv'
  <2>1. PICK a \in {counts[s], Failed} : answer' = [answer EXCEPT ![s] = a]
    BY <1>4 DEF ScrapeOne
  <2>2. answer' \in [Service -> Count \union {Pending, Failed}]
    BY <2>1 DEF TypeInv, TypeOK
  <2>3. TypeOK' /\ TickOK'
    BY <1>1, <1>4, <2>2 DEF ScrapeOne, TypeInv, TypeOK, TickOK, InTick
  <2>4. QED
    BY <1>2, <2>3 DEF TypeInv
<1>5. CASE Truncate
  BY <1>1, <1>2, <1>5 DEF Truncate, Gathered, TypeInv, TypeOK, TickOK, InTick
<1>6. CASE WriteCurrent
  <2>1. Snapshot \in Document
    BY <1>6, SnapshotIsDocument DEF WriteCurrent
  <2>2. QED
    BY <1>1, <1>2, <1>6, <2>1 DEF WriteCurrent, TypeInv, TypeOK, TickOK, InTick
<1>7. CASE AppendHistory
  <2>1. Snapshot \in Document
    BY <1>7, SnapshotIsDocument DEF AppendHistory, AppendTurn
  <2>2. history' \in Seq(Document)
    BY <1>7, <2>1 DEF AppendHistory, HistoryWith, TypeInv, TypeOK
  <2>3. pc' \in {"exited", "waiting"}
    BY <1>7 DEF AppendHistory
  <2>4. QED
    BY <1>1, <1>2, <1>7, <2>2, <2>3 DEF AppendHistory, TypeInv, TypeOK, TickOK, InTick, Ended
<1>8. CASE WaitEnds \/ Leave
  BY <1>1, <1>2, <1>8 DEF WaitEnds, Leave, TypeInv, TypeOK, TickOK, InTick, Ended
<1>9. QED
  BY <1>3, <1>4, <1>5, <1>6, <1>7, <1>8 DEF CollectorStep

LEMMA StepTypeInv == TypeInv /\ [Next]_vars => TypeInv'
<1> SUFFICES ASSUME TypeInv, [Next]_vars PROVE TypeInv'
  OBVIOUS
<1>1. CASE Signal
  BY <1>1 DEF Signal, TypeInv, TypeOK, TickOK, InTick, CountsBounded
<1>2. CASE Die \/ DieInLine
  <2>1. deaths' \in 0..MaxDeaths /\ deaths' = deaths + 1 /\ collectorDeaths' \in 0..deaths'
    BY <1>2, BoundsAreNaturals DEF Die, DieInLine, Dies, TypeInv, TypeOK
  <2>2. TypeOK' /\ TickOK'
    <3>1. torn' \in BOOLEAN
      BY <1>2 DEF Die, DieInLine, TypeInv, TypeOK
    <3>2. cuts' \in {cuts, cuts + 1} /\ collectorDeaths' = collectorDeaths + 1
      BY <1>2 DEF Die, DieInLine, Dies
    <3>3. cuts' \in 0..collectorDeaths'
      BY <3>2 DEF TypeInv, TypeOK
    <3>4. /\ pc' = "died"
          /\ UNCHANGED <<one_shot, stop, answer, current, history, counts, ticks, requests>>
      BY <1>2 DEF Die, DieInLine, Dies
    <3>5. TypeOK'
      BY <2>1, <3>1, <3>3, <3>4 DEF TypeInv, TypeOK, Ended
    <3>6. TickOK'
      BY <3>4 DEF TickOK, InTick
    <3>7. QED
      BY <3>5, <3>6
  <2>3. CountsBounded'
    <3>1. \A s \in Service : counts[s].life \in Nat
      BY CountType DEF TypeInv, TypeOK
    <3>2. QED
      BY <1>2, <2>1, <3>1 DEF Die, DieInLine, Dies, TypeInv, TypeOK, CountsBounded
  <2>4. QED
    BY <2>2, <2>3 DEF TypeInv
<1>3. CASE RunAgain
  BY <1>3 DEF RunAgain, TypeInv, TypeOK, TickOK, InTick, CountsBounded
<1>4. CASE UNCHANGED vars
  BY <1>4 DEF vars, TypeInv, TypeOK, TickOK, InTick, CountsBounded
<1>5. QED
  BY <1>1, <1>2, <1>3, <1>4, CollectorStepTypeInv, ServiceStepTypeInv DEF Next

(* Type correctness of the collector: every line of its files is a document    *)
(* of a numbered tick in which all services were asked.                        *)
THEOREM TypeCorrect == Spec => []TypeOK
<1>1. TypeInv => TypeOK
  BY DEF TypeInv
<1>2. QED
  BY <1>1, InitTypeInv, StepTypeInv, PTL DEF Spec

------------------------------------------------------------------------------
(* The files: the newest document, and what a death costs the history.         *)

\* The lines of the history are numbered by their ticks, and the tick in hand,
\* or the one a death cut off, has a number of its own.  A torn line is a debt:
\* it will cost the next line, and only a death in a line leaves one.
TicksOK ==
    /\ \A n \in DOMAIN history : history[n].at <= ticks /\ (InTick => history[n].at < ticks)
    /\ \A m, n \in DOMAIN history : m < n => history[m].at < history[n].at
    /\ ticks - Len(history) + (IF torn THEN 1 ELSE 0)
         <= collectorDeaths + cuts + (IF InTick THEN 1 ELSE 0)
    /\ torn => cuts # 0

\* The current file is ahead of the history by the tick being written, at most.
FilesOK ==
    /\ pc = "truncated" => current = NoDocument
    /\ pc = "appending" => current = Snapshot
    /\ CurrentIsNewest

FilesInv == TicksOK /\ FilesOK

LEMMA InitFilesInv == Init => FilesInv
BY DEF Init, FilesInv, TicksOK, FilesOK, InTick, CurrentIsNewest,
       NoDocument, Nothing, Ended

\* The number of the last line, which CurrentIsNewest calls newest.
Newest == IF history = <<>> THEN Nothing ELSE Last(history).at

\* CurrentIsNewest, with a name for its newest.
LEMMA CurrentAndNewest ==
    CurrentIsNewest <=>
      /\ current.at = Nothing \/ current.at >= Newest
      /\ Written /\ collectorDeaths = 0 => current.at = Newest
      /\ pc = "waiting" /\ cuts = 0 => current = Last(history)
BY DEF CurrentIsNewest, Newest

LEMMA LineType ==
    ASSUME TypeOK, NEW n \in DOMAIN history
    PROVE  /\ n \in Nat /\ n >= 1 /\ n <= Len(history)
           /\ history[n] \in Document /\ history[n].at \in Nat /\ history[n].at >= 1
           /\ history[n].services \in [Service -> Count \union {Failed}]
<1>1. history \in Seq(Document)
  BY DEF TypeOK
<1>2. n \in 1..Len(history) /\ history[n] \in Document
  BY <1>1
<1>3. QED
  BY <1>2 DEF Document

\* The newest number is that of a tick, or Nothing.
LEMMA NewestType ==
    ASSUME TypeOK, TicksOK
    PROVE  Newest \in Nat /\ Newest <= ticks
<1>1. history \in Seq(Document) /\ ticks \in Nat
  BY DEF TypeOK
<1>2. CASE history = <<>>
  BY <1>1, <1>2 DEF Newest, Nothing
<1>3. CASE history # <<>>
  <2>1. Len(history) \in DOMAIN history
    BY <1>1, <1>3
  <2>2. Newest = history[Len(history)].at
    BY <1>3 DEF Newest, Last
  <2>3. Newest \in Nat
    BY <2>1, <2>2, LineType
  <2>4. QED
    BY <1>1, <2>1, <2>2, <2>3 DEF TicksOK
<1>4. QED
  BY <1>2, <1>3

\* What AppendHistory does to the history.
LEMMA AppendedLine ==
    ASSUME TypeOK, NEW d \in Document, history' = Append(history, d)
    PROVE  /\ history \in Seq(Document) /\ Len(history) \in Nat
           /\ Len(history') = Len(history) + 1
           /\ DOMAIN history' = 1..(Len(history) + 1)
           /\ DOMAIN history = 1..Len(history)
           /\ history'[Len(history) + 1] = d
           /\ \A n \in DOMAIN history : history'[n] = history[n]
           /\ Last(history') = d
           /\ history' # <<>>
<1>1. history \in Seq(Document)
  BY DEF TypeOK
<1>2. /\ Len(history') = Len(history) + 1 /\ history'[Len(history) + 1] = d
      /\ \A n \in DOMAIN history : history'[n] = history[n]
      /\ DOMAIN history' = 1..(Len(history) + 1) /\ DOMAIN history = 1..Len(history)
      /\ Len(history) \in Nat
  BY <1>1
<1>3. Last(history') = d
  BY <1>2 DEF Last
<1>4. history' # <<>>
  BY <1>2
<1>5. QED
  BY <1>1, <1>2, <1>3, <1>4

\* The step that writes a line: one that joins a torn line is lost with it...
LEMMA JoinedLineFilesInv ==
    ASSUME TypeInv, FilesInv, AppendHistory, torn
    PROVE  FilesInv'
<1>1. /\ pc = "appending" /\ pc' \in {"exited", "waiting"} /\ torn' = FALSE
      /\ UNCHANGED <<history, answer, current, ticks, collectorDeaths, cuts>>
  BY DEF AppendHistory, AppendTurn, HistoryWith
<1>2. /\ ticks \in Nat /\ Len(history) \in Nat
      /\ collectorDeaths \in Nat /\ collectorDeaths # 0 /\ cuts \in Nat /\ cuts # 0
  BY DEF TypeInv, TypeOK, FilesInv, TicksOK
<1>3. TicksOK'
  BY <1>1, <1>2, LineType DEF TypeInv, FilesInv, TicksOK, InTick
<1>4. current' = Snapshot /\ current'.at = ticks
  BY <1>1 DEF FilesInv, FilesOK, Snapshot
<1>5. Newest' \in Nat /\ Newest' <= ticks
  BY <1>1, NewestType DEF TypeInv, FilesInv, Newest
<1>6. CurrentIsNewest'
  BY <1>1, <1>2, <1>4, <1>5 DEF CurrentIsNewest, Newest
<1>7. QED
  BY <1>1, <1>3, <1>6 DEF FilesInv, FilesOK

\* ... and one that does not is the last line of the history.
LEMMA AppendFilesInv ==
    ASSUME TypeInv, FilesInv, AppendHistory, ~torn
    PROVE  FilesInv'
<1>1. /\ pc = "appending" /\ pc' \in {"exited", "waiting"} /\ torn' = FALSE
      /\ history' = Append(history, Snapshot)
      /\ UNCHANGED <<answer, current, ticks, deaths, collectorDeaths, cuts>>
  BY DEF AppendHistory, AppendTurn, HistoryWith
<1>2. TypeOK /\ Snapshot \in Document /\ Snapshot.at = ticks
  BY <1>1, SnapshotIsDocument DEF TypeInv, Snapshot
<1>3. /\ Len(history) \in Nat /\ Len(history') = Len(history) + 1
      /\ DOMAIN history' = 1..(Len(history) + 1) /\ DOMAIN history = 1..Len(history)
      /\ history'[Len(history) + 1] = Snapshot
      /\ \A n \in DOMAIN history : history'[n] = history[n]
      /\ Last(history') = Snapshot /\ history' # <<>>
  BY <1>1, <1>2, AppendedLine
<1>4. ticks \in Nat /\ collectorDeaths \in Nat /\ cuts \in Nat /\ ~InTick'
  BY <1>1 DEF TypeInv, TypeOK, InTick
<1>5. /\ \A n \in DOMAIN history : history[n].at < ticks /\ history[n].at \in Nat
      /\ \A m, n \in DOMAIN history : m < n => history[m].at < history[n].at
  BY <1>1, <1>2, LineType DEF FilesInv, TicksOK, InTick
<1>6. ticks - Len(history) <= collectorDeaths + cuts + 1
  BY <1>1, <1>3, <1>4 DEF FilesInv, TicksOK, InTick
<1>7. ASSUME NEW n \in DOMAIN history'
      PROVE  history'[n].at <= ticks
  <2>1. CASE n = Len(history) + 1
    BY <1>2, <1>3, <1>4, <2>1
  <2>2. CASE n \in DOMAIN history
    BY <1>3, <1>4, <1>5, <2>2
  <2>3. QED
    BY <1>3, <2>1, <2>2
<1>8. ASSUME NEW m \in DOMAIN history', NEW n \in DOMAIN history', m < n
      PROVE  history'[m].at < history'[n].at
  <2>1. m \in DOMAIN history
    BY <1>3, <1>8
  <2>2. CASE n = Len(history) + 1
    BY <1>2, <1>3, <1>5, <2>1, <2>2
  <2>3. CASE n \in DOMAIN history
    BY <1>3, <1>5, <1>8, <2>1, <2>3
  <2>4. QED
    BY <1>3, <2>2, <2>3
<1>9. TicksOK'
  BY <1>1, <1>3, <1>4, <1>5, <1>6, <1>7, <1>8 DEF TicksOK
<1>10. FilesOK'
  <2>1. current' = Snapshot /\ current'.at = ticks
    BY <1>1, <1>2 DEF FilesInv, FilesOK
  <2>2. Newest' = ticks
    BY <1>2, <1>3 DEF Newest
  <2>3. CurrentIsNewest'
    BY <1>3, <1>4, <2>1, <2>2 DEF CurrentIsNewest, Newest
  <2>4. QED
    BY <1>1, <2>3 DEF FilesOK
<1>11. QED
  BY <1>9, <1>10 DEF FilesInv

\* The other steps of the collector: a tick begins, and the current file is written.
LEMMA TickFilesInv ==
    ASSUME TypeInv, FilesInv, Poll \/ Truncate \/ WriteCurrent
    PROVE  FilesInv'
<1>1. UNCHANGED <<history, torn, deaths, collectorDeaths, cuts>>
  BY DEF Poll, Truncate, WriteCurrent
<1>2. /\ ticks \in Nat /\ collectorDeaths \in Nat /\ cuts \in Nat /\ Len(history) \in Nat
      /\ \A n \in DOMAIN history : history[n].at \in Nat
  BY LineType DEF TypeInv, TypeOK
<1>3. Newest \in Nat /\ Newest <= ticks /\ UNCHANGED Newest
  BY <1>1, NewestType DEF TypeInv, FilesInv, Newest
<1>4. CASE Poll
  <2>1. ticks' = ticks + 1 /\ pc = "loop" /\ pc' = "scraping" /\ UNCHANGED current
    BY <1>4 DEF Poll
  <2>2. TicksOK'
    BY <1>1, <1>2, <2>1 DEF FilesInv, TicksOK, InTick, Ended
  <2>3. CurrentIsNewest'
    BY <1>1, <2>1 DEF FilesInv, FilesOK, CurrentIsNewest, Written
  <2>4. QED
    BY <2>1, <2>2, <2>3 DEF FilesInv, FilesOK
<1>5. CASE Truncate \/ WriteCurrent
  <2>1. /\ pc \in {"scraping", "truncated"} /\ pc' \in {"truncated", "appending"}
        /\ UNCHANGED <<ticks, answer>>
        /\ \/ pc' = "truncated" /\ current' = NoDocument
           \/ pc' = "appending" /\ current' = Snapshot
    BY <1>5 DEF Truncate, WriteCurrent
  <2>2. TicksOK'
    BY <1>1, <1>2, <2>1 DEF FilesInv, TicksOK, InTick, Ended
  <2>3. CurrentIsNewest'
    BY <1>1, <1>2, <1>3, <2>1, CurrentAndNewest
    DEF CurrentIsNewest, Newest, Written, Snapshot, NoDocument, Nothing
  <2>4. QED
    BY <2>1, <2>2, <2>3 DEF FilesInv, FilesOK, Snapshot
<1>6. QED
  BY <1>4, <1>5

\* What leaves the files and the ticks alone, a death included.
LEMMA OtherFilesInv ==
    ASSUME TypeInv, FilesInv, UNCHANGED <<current, history, ticks>>,
           \/ /\ UNCHANGED <<pc, torn, collectorDeaths, cuts>>
              /\ pc = "appending" => UNCHANGED answer
           \/ /\ pc \in {"loop", "waiting"} \union Ended
              /\ pc' \in {"loop"} \union Ended
              /\ UNCHANGED <<torn, collectorDeaths, cuts>>
           \/ /\ pc \notin Ended /\ pc' = "died"
              /\ collectorDeaths' = collectorDeaths + 1
              /\ \/ UNCHANGED <<torn, cuts>>
                 \/ pc = "appending" /\ torn' = TRUE /\ cuts' = cuts + 1
    PROVE  FilesInv'
<1>1. /\ ticks \in Nat /\ collectorDeaths \in Nat /\ cuts \in Nat
      /\ Len(history) \in Nat
  BY DEF TypeInv, TypeOK
<1>2. TicksOK'
  BY <1>1 DEF FilesInv, TicksOK, InTick, Ended
<1>3. CurrentIsNewest'
  BY <1>1 DEF FilesInv, FilesOK, CurrentIsNewest, Written, Ended
<1>4. QED
  BY <1>2, <1>3 DEF FilesInv, FilesOK, Snapshot, Ended

LEMMA StepFilesInv == TypeInv /\ FilesInv /\ [Next]_vars => FilesInv'
<1> SUFFICES ASSUME TypeInv, FilesInv, [Next]_vars PROVE FilesInv'
  OBVIOUS
<1>1. CASE \E s \in Service : Complete(s) \/ ServiceRestarts(s)
  BY <1>1, OtherFilesInv DEF Complete, ServiceRestarts
<1>2. CASE \E s \in Service : ScrapeOne(s)
  BY <1>2, OtherFilesInv DEF ScrapeOne
<1>3. CASE WaitEnds \/ Leave
  BY <1>3, OtherFilesInv DEF WaitEnds, Leave, Ended
<1>4. CASE Signal
  BY <1>4, OtherFilesInv DEF Signal
<1>5. CASE Die \/ DieInLine
  BY <1>5, OtherFilesInv DEF Die, DieInLine, Dies
<1>6. CASE RunAgain
  BY <1>6, OtherFilesInv DEF RunAgain
<1>7. CASE UNCHANGED vars
  BY <1>7, OtherFilesInv DEF vars
<1>8. QED
  BY <1>1, <1>2, <1>3, <1>4, <1>5, <1>6, <1>7, AppendFilesInv, JoinedLineFilesInv,
     TickFilesInv
  DEF Next, CollectorStep

(* The inductive invariant of the two files: while a tick is under way its     *)
(* number is newer than every line, and the current file holds its document or *)
(* nothing as the step before left it.                                         *)
THEOREM FilesInvariant == Spec => []FilesInv
BY InitTypeInv, StepTypeInv, InitFilesInv, StepFilesInv, PTL DEF Spec

(* The current file is the newest document or, while it is written or after a  *)
(* death, empty or one document ahead; it is never behind the history.         *)
THEOREM CurrentFileIsNewest == Spec => []CurrentIsNewest
<1>1. FilesInv => CurrentIsNewest
  BY DEF FilesInv, FilesOK
<1>2. QED
  BY <1>1, FilesInvariant, PTL

(* However often the collector dies and is run again, its history is in order  *)
(* and lacks the tick under way, one per death and one more per torn line.     *)
THEOREM HistoryLossIsBounded == Spec => []LossIsBounded
<1>1. TypeInv /\ FilesInv => LossIsBounded
  <2> SUFFICES ASSUME TypeInv, FilesInv PROVE LossIsBounded
    OBVIOUS
  <2>1. ticks \in Nat /\ collectorDeaths \in Nat /\ cuts \in Nat /\ Len(history) \in Nat
    BY DEF TypeInv, TypeOK
  <2>2. QED
    BY <2>1 DEF FilesInv, TicksOK, LossIsBounded
<1>2. QED
  BY <1>1, InitTypeInv, StepTypeInv, InitFilesInv, StepFilesInv, PTL DEF Spec

------------------------------------------------------------------------------
(* The counters: what the history says of a service is true.                   *)

\* What a service answered came before what it would answer now, and after all
\* that the history says of it.
CountsOK ==
    \A s \in Service :
      /\ answer[s] \notin {Pending, Failed} => NotAfter(answer[s], counts[s])
      /\ \A n \in DOMAIN history : history[n].services[s] # Failed =>
           /\ NotAfter(history[n].services[s], counts[s])
           /\ answer[s] \notin {Pending, Failed} => NotAfter(history[n].services[s], answer[s])
      /\ \A m, n \in DOMAIN history :
           m <= n /\ Failed \notin {history[m].services[s], history[n].services[s]} =>
             NotAfter(history[m].services[s], history[n].services[s])

LEMMA NotAfterItself ==
    ASSUME NEW c \in Count, c.errors <= c.requests
    PROVE  NotAfter(c, c)
BY CountType DEF NotAfter

LEMMA NotAfterTransitive ==
    ASSUME NEW c \in Count, NEW d \in Count, NEW e \in Count, NotAfter(c, d), NotAfter(d, e)
    PROVE  NotAfter(c, e)
BY CountType DEF NotAfter

LEMMA InitCountsOK == Init => CountsOK
BY DEF Init, CountsOK

\* What was read of a service stays true when it goes on counting or restarts.
LEMMA ServiceCountsOK ==
    ASSUME TypeInv, CountsOK, NEW s \in Service, Complete(s) \/ ServiceRestarts(s)
    PROVE  CountsOK'
<1>1. UNCHANGED <<answer, history>>
  BY DEF Complete, ServiceRestarts
<1>2. /\ counts \in [Service -> Count] /\ counts' \in [Service -> Count]
      /\ \A r \in Service : NotAfter(counts[r], counts'[r])
  BY CountsStep DEF TypeInv, TypeOK
<1>3. ASSUME NEW r \in Service, NEW c \in Count, NotAfter(c, counts[r])
      PROVE  NotAfter(c, counts'[r])
  BY <1>2, <1>3, NotAfterTransitive
<1>4. \A r \in Service : answer[r] \notin {Pending, Failed} => answer[r] \in Count
  BY DEF TypeInv, TypeOK
<1>5. \A r \in Service, n \in DOMAIN history :
        history[n].services[r] # Failed => history[n].services[r] \in Count
  BY LineType DEF TypeInv
<1>6. QED
  BY <1>1, <1>3, <1>4, <1>5 DEF CountsOK

\* A scrape asks for the counts there are, after all that was written before.
LEMMA ScrapeCountsOK ==
    ASSUME TypeInv, CountsOK, NEW s \in Service, ScrapeOne(s)
    PROVE  CountsOK'
<1>1. UNCHANGED <<counts, history>>
  BY DEF ScrapeOne
<1>2. /\ answer'[s] \in {counts[s], Failed}
      /\ \A r \in Service \ {s} : answer'[r] = answer[r]
  BY DEF ScrapeOne, TypeInv, TypeOK
<1>3. NotAfter(counts[s], counts[s])
  BY NotAfterItself DEF TypeInv, TypeOK, CountsBounded
<1>4. QED
  BY <1>1, <1>2, <1>3 DEF CountsOK

\* The line of a tick says what was answered in it.
LEMMA AppendCountsOK ==
    ASSUME TypeInv, CountsOK, AppendHistory, ~torn
    PROVE  CountsOK'
<1>1. /\ pc = "appending" /\ history' = Append(history, Snapshot)
      /\ UNCHANGED <<answer, counts>>
  BY DEF AppendHistory, AppendTurn, HistoryWith
<1>2. TypeOK /\ Snapshot \in Document /\ Snapshot.services = answer
  BY <1>1, SnapshotIsDocument DEF TypeInv, Snapshot
<1>3. /\ Len(history) \in Nat
      /\ DOMAIN history' = 1..(Len(history) + 1) /\ DOMAIN history = 1..Len(history)
      /\ history'[Len(history) + 1] = Snapshot
      /\ \A n \in DOMAIN history : history'[n] = history[n]
  BY <1>1, <1>2, AppendedLine
<1> SUFFICES ASSUME NEW s \in Service
             PROVE
      /\ answer[s] \notin {Pending, Failed} => NotAfter(answer[s], counts[s])
      /\ \A n \in DOMAIN history' : history'[n].services[s] # Failed =>
           /\ NotAfter(history'[n].services[s], counts[s])
           /\ answer[s] \notin {Pending, Failed} => NotAfter(history'[n].services[s], answer[s])
      /\ \A m, n \in DOMAIN history' :
           m <= n /\ Failed \notin {history'[m].services[s], history'[n].services[s]} =>
             NotAfter(history'[m].services[s], history'[n].services[s])
  BY <1>1 DEF CountsOK
<1>4. answer[s] # Pending
  BY <1>1 DEF TypeInv, TickOK
<1>5. answer[s] # Failed => /\ NotAfter(answer[s], counts[s])
                            /\ NotAfter(answer[s], answer[s])
  <2> SUFFICES ASSUME answer[s] # Failed
               PROVE  NotAfter(answer[s], counts[s]) /\ NotAfter(answer[s], answer[s])
    OBVIOUS
  <2>1. NotAfter(answer[s], counts[s]) /\ answer[s] \in Count
    BY <1>4 DEF CountsOK, TypeInv, TypeOK
  <2>2. answer[s].errors <= answer[s].requests
    BY <2>1 DEF NotAfter
  <2>3. QED
    BY <2>1, <2>2, NotAfterItself
<1>6. ASSUME NEW n \in DOMAIN history, history[n].services[s] # Failed
      PROVE  /\ NotAfter(history[n].services[s], counts[s])
             /\ answer[s] # Failed => NotAfter(history[n].services[s], answer[s])
  BY <1>4, <1>6 DEF CountsOK
<1>7. \A m, n \in DOMAIN history :
        m <= n /\ Failed \notin {history[m].services[s], history[n].services[s]} =>
          NotAfter(history[m].services[s], history[n].services[s])
  BY DEF CountsOK
<1>8. ASSUME NEW n \in DOMAIN history', history'[n].services[s] # Failed
      PROVE  /\ NotAfter(history'[n].services[s], counts[s])
             /\ answer[s] # Failed => NotAfter(history'[n].services[s], answer[s])
  <2>1. CASE n = Len(history) + 1
    BY <1>2, <1>3, <1>5, <1>8, <2>1
  <2>2. CASE n \in DOMAIN history
    BY <1>3, <1>6, <1>8, <2>2
  <2>3. QED
    BY <1>3, <2>1, <2>2
<1>9. ASSUME NEW m \in DOMAIN history', NEW n \in DOMAIN history', m <= n,
             Failed \notin {history'[m].services[s], history'[n].services[s]}
      PROVE  NotAfter(history'[m].services[s], history'[n].services[s])
  <2>1. CASE n = Len(history) + 1
    BY <1>2, <1>3, <1>8, <1>9, <2>1
  <2>2. CASE n \in DOMAIN history
    <3>1. m \in DOMAIN history
      BY <1>3, <1>9, <2>2
    <3>2. QED
      BY <1>3, <1>7, <1>9, <2>2, <3>1
  <2>3. QED
    BY <1>3, <2>1, <2>2
<1>10. QED
  BY <1>5, <1>8, <1>9

LEMMA StepCountsOK == TypeInv /\ CountsOK /\ [Next]_vars => CountsOK'
<1> SUFFICES ASSUME TypeInv, CountsOK, [Next]_vars PROVE CountsOK'
  OBVIOUS
<1>1. CASE UNCHANGED <<answer, history, counts>>
  BY <1>1 DEF CountsOK
<1>2. CASE Poll
  BY <1>2 DEF Poll, CountsOK
<1>3. CASE AppendHistory /\ ~torn
  BY <1>3, AppendCountsOK
<1>4. CASE \E s \in Service : Complete(s) \/ ServiceRestarts(s)
  BY <1>4, ServiceCountsOK
<1>5. CASE \E s \in Service : ScrapeOne(s)
  BY <1>5, ScrapeCountsOK
<1>6. QED
  BY <1>1, <1>2, <1>3, <1>4, <1>5
  DEF Next, CollectorStep, Truncate, WriteCurrent, AppendHistory, HistoryWith, WaitEnds,
      Leave, Signal, Die, DieInLine, Dies, RunAgain, vars

(* What the history says of a Python service is true: errors are requests too, *)
(* and counts never shrink unless its uptime says that it restarted, over any  *)
(* number of ticks, requests, restarts and deaths of the collector.            *)
THEOREM HistoryCountsAreTrue == Spec => []CountsAreTrue
<1>1. CountsOK => CountsAreTrue
  <2> SUFFICES ASSUME CountsOK, NEW m \in DOMAIN history, NEW n \in DOMAIN history, m <= n,
                      NEW s \in Service,
                      Failed \notin {history[m].services[s], history[n].services[s]}
               PROVE  LET c == history[m].services[s]  d == history[n].services[s]
                      IN  /\ c.errors <= c.requests
                          /\ c.life = d.life => c.requests <= d.requests /\ c.errors <= d.errors
    BY DEF CountsAreTrue
  <2>1. NotAfter(history[m].services[s], history[n].services[s])
    BY DEF CountsOK
  <2>2. QED
    BY <2>1 DEF NotAfter
<1>2. QED
  BY <1>1, InitTypeInv, StepTypeInv, InitCountsOK, StepCountsOK, PTL DEF Spec

------------------------------------------------------------------------------
(*                               LogAggregator                                 *)

AggregatorTypeOK ==
    /\ child \in {"running", "closed", "exited"}
    /\ lines \in Seq(Kind)
    /\ loop \in {"reading", "finally", "terminating", "killing", "returned"}
    /\ read \in Nat /\ read <= Len(lines)
    /\ emitted \in Seq(Nat)
    /\ stop_event \in BOOLEAN /\ failed \in BOOLEAN

\* All that was read was re-emitted, but for a line that woke a loop asked to stop.
EmittedOK ==
    /\ \A m, n \in DOMAIN emitted : m < n => emitted[m] < emitted[n]
    /\ Texts(read - 1) \subseteq Emitted
    /\ Emitted \subseteq Texts(read)
    /\ loop = "reading" => Emitted = Texts(read)

\* A loop that left without a signal and a failure had read to the end of the
\* output, and a child that closed its output writes no more.
EndReached ==
    loop # "reading" /\ ~stop_event /\ ~failed =>
      child # "running" /\ read = Len(lines) /\ Emitted = Texts(read)

AggregatorInv ==
    /\ AggregatorTypeOK
    /\ EmittedOK
    /\ EndReached
    /\ NoChildLeftBehind

LEMMA InitAggregatorInv == AggregatorInit => AggregatorInv
<1> SUFFICES ASSUME AggregatorInit PROVE AggregatorInv
  OBVIOUS
<1>1. AggregatorTypeOK
  <2>1. lines \in Seq(Kind) /\ emitted \in Seq(Nat)
    BY DEF AggregatorInit
  <2>2. read \in Nat /\ read <= Len(lines)
    BY DEF AggregatorInit
  <2>3. /\ child \in {"running", "closed", "exited"}
        /\ loop \in {"reading", "finally", "terminating", "killing", "returned"}
        /\ stop_event \in BOOLEAN /\ failed \in BOOLEAN
    BY DEF AggregatorInit
  <2>4. QED
    BY <2>1, <2>2, <2>3 DEF AggregatorTypeOK
<1>2. Emitted = {} /\ Texts(read) = {} /\ Texts(read - 1) = {}
  BY DEF AggregatorInit, Emitted, Texts
<1>3. EmittedOK
  BY <1>2 DEF AggregatorInit, EmittedOK
<1>4. EndReached /\ NoChildLeftBehind
  BY DEF AggregatorInit, EndReached, NoChildLeftBehind
<1>5. QED
  BY <1>1, <1>3, <1>4 DEF AggregatorInv

\* Lines that come later change nothing in what was read.
LEMMA TextsKept ==
    ASSUME AggregatorTypeOK, NEW kind \in Kind, lines' = Append(lines, kind),
           UNCHANGED read
    PROVE  /\ Texts(read)' = Texts(read)
           /\ Texts(read - 1)' = Texts(read - 1)
           /\ lines' \in Seq(Kind) /\ read <= Len(lines')
<1>1. lines \in Seq(Kind) /\ read \in Nat /\ read <= Len(lines)
  BY DEF AggregatorTypeOK
<1>2. /\ lines' \in Seq(Kind) /\ Len(lines') = Len(lines) + 1
      /\ \A k \in 1..Len(lines) : lines'[k] = lines[k]
  BY <1>1
<1>3. \A k \in 1..read : lines'[k] = lines[k]
  BY <1>1, <1>2
<1>4. Texts(read)' = Texts(read)
  BY <1>3 DEF Texts
<1>5. Texts(read - 1)' = Texts(read - 1)
  BY <1>1, <1>3 DEF Texts
<1>6. QED
  BY <1>1, <1>2, <1>4, <1>5

\* A line more adds itself to the texts, if it is one.
LEMMA TextsGrow ==
    ASSUME AggregatorTypeOK, read' = read + 1, UNCHANGED lines, read < Len(lines)
    PROVE  /\ Texts(read - 1)' = Texts(read)
           /\ lines[read + 1] = "text"
                => Texts(read)' = Texts(read) \cup {read + 1}
           /\ lines[read + 1] # "text" => Texts(read)' = Texts(read)
<1>1. read \in Nat /\ read' - 1 = read
  BY DEF AggregatorTypeOK
<1>2. 1..(read + 1) = (1..read) \cup {read + 1}
  BY <1>1
<1>3. QED
  BY <1>1, <1>2 DEF Texts

LEMMA EmittedGrows ==
    ASSUME AggregatorTypeOK, NEW k \in Nat, emitted' = Append(emitted, k),
           \A j \in Emitted : j < k,
           \A m, n \in DOMAIN emitted : m < n => emitted[m] < emitted[n]
    PROVE  /\ Emitted' = Emitted \cup {k}
           /\ \A m, n \in DOMAIN emitted' : m < n => emitted'[m] < emitted'[n]
           /\ emitted' \in Seq(Nat)
<1>1. emitted \in Seq(Nat) /\ Len(emitted) \in Nat /\ DOMAIN emitted = 1..Len(emitted)
  BY DEF AggregatorTypeOK
<1>2. /\ emitted' \in Seq(Nat) /\ DOMAIN emitted' = 1..(Len(emitted) + 1)
      /\ emitted'[Len(emitted) + 1] = k
      /\ \A n \in DOMAIN emitted : emitted'[n] = emitted[n]
  BY <1>1
<1>3. DOMAIN emitted' = DOMAIN emitted \cup {Len(emitted) + 1}
  BY <1>1, <1>2
<1>4. Emitted' = Emitted \cup {k}
  BY <1>2, <1>3 DEF Emitted
<1>5. ASSUME NEW m \in DOMAIN emitted', NEW n \in DOMAIN emitted', m < n
      PROVE  emitted'[m] < emitted'[n]
  <2>1. m \in DOMAIN emitted
    BY <1>1, <1>2, <1>5
  <2>2. CASE n = Len(emitted) + 1
    BY <1>2, <2>1, <2>2 DEF Emitted
  <2>3. CASE n \in DOMAIN emitted
    BY <1>2, <1>5, <2>1, <2>3
  <2>4. QED
    BY <1>3, <2>2, <2>3
<1>6. QED
  BY <1>2, <1>4, <1>5

LEMMA ReadLineInv == ASSUME AggregatorInv, ReadLine PROVE AggregatorInv'
<1>1. /\ AggregatorTypeOK /\ loop = "reading"
      /\ read < Len(lines) /\ read' = read + 1
      /\ UNCHANGED <<child, lines, stop_event, failed>>
      /\ Emitted = Texts(read)
      /\ \A m, n \in DOMAIN emitted : m < n => emitted[m] < emitted[n]
  BY DEF AggregatorInv, EmittedOK, ReadLine
<1>2. read \in Nat /\ read' \in Nat /\ read' <= Len(lines') /\ Len(lines) \in Nat
  BY <1>1 DEF AggregatorTypeOK
<1>3. CASE stop_event
  <2>1. loop' = "finally" /\ UNCHANGED emitted
    BY <1>3 DEF ReadLine, HeedsStop
  <2>2. Emitted' = Emitted
    BY <2>1 DEF Emitted
  <2>3. AggregatorTypeOK'
    BY <1>1, <1>2, <2>1 DEF AggregatorTypeOK
  <2>4. EmittedOK'
    BY <1>1, <2>1, <2>2, TextsGrow DEF EmittedOK
  <2>5. QED
    BY <1>1, <1>3, <2>1, <2>3, <2>4
    DEF AggregatorInv, EndReached, NoChildLeftBehind
<1>4. CASE ~stop_event /\ lines[read + 1] = "text"
  <2>1. loop' = "reading" /\ emitted' = Append(emitted, read + 1)
    BY <1>1, <1>4 DEF ReadLine, HeedsStop
  <2>2. \A j \in Emitted : j < read + 1
    BY <1>1, <1>2 DEF Texts
  <2>3. /\ Emitted' = Emitted \cup {read + 1}
        /\ \A m, n \in DOMAIN emitted' : m < n => emitted'[m] < emitted'[n]
        /\ emitted' \in Seq(Nat)
    BY <1>1, <1>2, <2>1, <2>2, EmittedGrows
  <2>4. AggregatorTypeOK'
    BY <1>1, <1>2, <2>1, <2>3 DEF AggregatorTypeOK
  <2>5. EmittedOK'
    BY <1>1, <1>4, <2>1, <2>3, TextsGrow DEF EmittedOK
  <2>6. QED
    BY <2>1, <2>4, <2>5 DEF AggregatorInv, EndReached, NoChildLeftBehind
<1>5. CASE ~stop_event /\ lines[read + 1] # "text"
  <2>1. loop' = "reading" /\ UNCHANGED emitted
    BY <1>1, <1>5 DEF ReadLine, HeedsStop
  <2>2. Emitted' = Emitted
    BY <2>1 DEF Emitted
  <2>3. AggregatorTypeOK'
    BY <1>1, <1>2, <2>1 DEF AggregatorTypeOK
  <2>4. EmittedOK'
    BY <1>1, <1>5, <2>1, <2>2, TextsGrow DEF EmittedOK
  <2>5. QED
    BY <2>1, <2>3, <2>4 DEF AggregatorInv, EndReached, NoChildLeftBehind
<1>6. QED
  BY <1>3, <1>4, <1>5

LEMMA ReadTooLongInv == ASSUME AggregatorInv, ReadTooLong PROVE AggregatorInv'
<1>1. /\ AggregatorTypeOK /\ loop = "reading" /\ lines[read + 1] = "long"
      /\ read < Len(lines) /\ read' = read + 1 /\ loop' = "finally" /\ failed'
      /\ UNCHANGED <<child, lines, emitted, stop_event>>
  BY DEF AggregatorInv, ReadTooLong
<1>2. AggregatorTypeOK'
  BY <1>1 DEF AggregatorTypeOK, ReadTooLong
<1>3. Emitted' = Emitted
  BY <1>1 DEF Emitted
<1>4. EmittedOK'
  BY <1>1, <1>3, TextsGrow DEF AggregatorInv, EmittedOK
<1>5. QED
  BY <1>1, <1>2, <1>4 DEF AggregatorInv, EndReached, NoChildLeftBehind

\* Only docker's own steps and the end of the output concern what was not read yet.
LEMMA WriteInv == ASSUME AggregatorInv, Write PROVE AggregatorInv'
<1>1. /\ child = "running" /\ UNCHANGED <<child, loop, read, emitted, stop_event, failed>>
      /\ AggregatorTypeOK
  BY DEF Write, AggregatorInv
<1>2. PICK kind \in Kind : lines' = Append(lines, kind)
  BY DEF Write
<1>3. /\ Texts(read)' = Texts(read)
      /\ Texts(read - 1)' = Texts(read - 1)
      /\ lines' \in Seq(Kind) /\ read <= Len(lines')
  BY <1>1, <1>2, TextsKept
<1>4. Emitted' = Emitted
  BY <1>1 DEF Emitted
<1>5. AggregatorTypeOK'
  BY <1>1, <1>3 DEF AggregatorTypeOK
<1>6. EmittedOK'
  BY <1>1, <1>3, <1>4 DEF AggregatorInv, EmittedOK
<1>7. QED
  BY <1>1, <1>5, <1>6 DEF AggregatorInv, EndReached, NoChildLeftBehind

\* The child, the signal and the finally clause: nothing is read or written any more.
LEMMA OtherAggregatorInv ==
    ASSUME AggregatorInv, UNCHANGED <<lines, read, emitted, failed>>,
           AggregatorTypeOK',
           child # "running" => child' # "running",
           stop_event => stop_event',
           loop' = "reading" => loop = "reading",
           loop = "reading" /\ loop' # "reading" => OutputEnds,
           loop' = "returned" => child' = "exited"
    PROVE  AggregatorInv'
<1>1. /\ Emitted' = Emitted
      /\ Texts(read)' = Texts(read)
      /\ Texts(read - 1)' = Texts(read - 1)
  BY DEF Emitted, Texts
<1>2. EmittedOK'
  BY <1>1 DEF AggregatorInv, EmittedOK
<1>3. EndReached'
  BY <1>1 DEF AggregatorInv, AggregatorTypeOK, EmittedOK, EndReached, OutputEnds
<1>4. QED
  BY <1>2, <1>3 DEF AggregatorInv, NoChildLeftBehind

LEMMA StepAggregatorInv ==
    AggregatorInv /\ [AggregatorNext]_(aggregatorVars) => AggregatorInv'
<1> SUFFICES ASSUME AggregatorInv, [AggregatorNext]_(aggregatorVars) PROVE AggregatorInv'
  OBVIOUS
<1>1. CASE ReadEnd
  BY <1>1, OtherAggregatorInv DEF ReadEnd, AggregatorInv, AggregatorTypeOK
<1>2. CASE NothingToStop \/ WaitReturns
  BY <1>2, OtherAggregatorInv
  DEF NothingToStop, WaitReturns, AggregatorInv, AggregatorTypeOK
<1>3. CASE Terminate \/ WaitTimesOut
  BY <1>3, OtherAggregatorInv
  DEF Terminate, WaitTimesOut, AfterTimeout, AggregatorInv,
      AggregatorTypeOK
<1>4. CASE AggregatorSignal
  BY <1>4, OtherAggregatorInv
  DEF AggregatorSignal, AggregatorInv, AggregatorTypeOK, NoChildLeftBehind
<1>5. CASE Close \/ Exit \/ SignalTakesEffect
  BY <1>5, OtherAggregatorInv
  DEF Close, Exit, SignalTakesEffect, AggregatorInv,
      AggregatorTypeOK, NoChildLeftBehind
<1>6. CASE UNCHANGED aggregatorVars
  BY <1>6, OtherAggregatorInv
  DEF aggregatorVars, AggregatorInv, AggregatorTypeOK, NoChildLeftBehind
<1>7. QED
  BY <1>1, <1>2, <1>3, <1>4, <1>5, <1>6, ReadLineInv, ReadTooLongInv, WriteInv
  DEF AggregatorNext, AggregatorStep

(* The inductive invariant of the aggregator: all that was read was re-emitted,*)
(* and a loop that left for no other reason had read to the end.               *)
THEOREM AggregatorInvariant == AggregatorSpec => []AggregatorInv
BY InitAggregatorInv, StepAggregatorInv, PTL DEF AggregatorSpec

(* However the loop ends, no compose process is left behind.                   *)
THEOREM NoChildIsLeftBehind == AggregatorSpec => []NoChildLeftBehind
<1>1. AggregatorInv => NoChildLeftBehind
  BY DEF AggregatorInv
<1>2. QED
  BY <1>1, AggregatorInvariant, PTL

(* For any number of lines: what is re-emitted comes once and in order; what is*)
(* not is a tail of the lines docker wrote, from the one the loop ended at on, *)
(* and only when a signal or a line too long ended it.                         *)
THEOREM OnlyTailsAreDropped == AggregatorSpec => []OnlyTheTailIsDropped
<1>1. AggregatorInv => OnlyTheTailIsDropped
  <2> SUFFICES ASSUME AggregatorInv PROVE OnlyTheTailIsDropped
    OBVIOUS
  <2>1. lines \in Seq(Kind) /\ read \in Nat /\ Len(lines) \in Nat /\ read <= Len(lines)
    BY DEF AggregatorInv, AggregatorTypeOK
  <2>2. Emitted \subseteq Texts(Len(lines))
    BY <2>1 DEF AggregatorInv, EmittedOK, Texts
  <2>3. ASSUME loop = "reading", NEW j \in Dropped
        PROVE  j > read
    BY <2>1, <2>3 DEF AggregatorInv, EmittedOK, Dropped, Texts
  <2>4. ASSUME loop # "reading", NEW j \in Dropped
        PROVE  (stop_event \/ failed) /\ j >= read
    <3>1. j >= read
      BY <2>1 DEF AggregatorInv, EmittedOK, Dropped, Texts
    <3>2. stop_event \/ failed
      BY <2>1, <2>4 DEF AggregatorInv, EndReached, Dropped
    <3>3. QED
      BY <3>1, <3>2
  <2>5. QED
    BY <2>2, <2>3, <2>4 DEF AggregatorInv, EmittedOK, OnlyTheTailIsDropped
<1>2. QED
  BY <1>1, AggregatorInvariant, PTL
==============================================================================
