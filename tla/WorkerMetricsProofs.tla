-------------------------- MODULE WorkerMetricsProofs --------------------------
(* For any number of handler threads and of requests: no addition of a Record  *)
(* is lost or made twice, and a scrape counts completed requests only.         *)
EXTENDS WorkerMetrics, FiniteSetTheorems, TLAPS

USE HandlerAssumption, MaxRequestsAssumption

\* What a scrape has read so far was true when it was read.
ScrapesOK ==
    \A h \in Handler : snapshot[h].requests <= ended /\ snapshot[h].latency <= ended

\* A request that was accepted has left its handler, or is still in it.
UnderWay == {h \in Handler : pc[h] \in {"handling", "scraping"}}
UnderWayOK == ended + Cardinality(UnderWay) = accepted

PInv == IInv /\ ScrapesOK /\ UnderWayOK

LEMMA PendingFinite ==
    ASSUME NEW c PROVE IsFiniteSet(Pending(c)) /\ Cardinality(Pending(c)) \in Nat
<1>1. Pending(c) \in SUBSET Handler
  BY DEF Pending
<1>2. QED
  BY <1>1, FS_Subset, FS_CardinalityType

LEMMA BusyFinite ==
    /\ IsFiniteSet(Unadded) /\ Cardinality(Unadded) \in Nat
    /\ IsFiniteSet(UnderWay) /\ Cardinality(UnderWay) \in Nat
<1>1. Unadded \in SUBSET Handler /\ UnderWay \in SUBSET Handler
  BY DEF Unadded, UnderWay
<1>2. QED
  BY <1>1, FS_Subset, FS_CardinalityType

LEMMA MetricsStart == Init => PInv
<1> SUFFICES ASSUME Init PROVE PInv
  OBVIOUS
<1>1. Pending("count") = {} /\ Pending("error") = {} /\ Unadded = {} /\ UnderWay = {}
  BY DEF Init, Pending, Unadded, UnderWay
<1>2. CountsOK /\ UnderWayOK
  BY <1>1, FS_EmptySet DEF Init, CountsOK, UnderWayOK
<1>3. TypeOK /\ MutexOK /\ ScrapesOK
  BY DEF Init, TypeOK, MutexOK, ScrapesOK, NothingRead, Unread
<1>4. QED
  BY <1>2, <1>3 DEF PInv, IInv

\* Nothing moves between the counters and what is still to be added.
LEMMA CountsKept ==
    ASSUME CountsOK, TypeOK, UNCHANGED <<request_count, error_count, total_latency, ended, endedInError>>,
           Pending("count")' = Pending("count"), Pending("error")' = Pending("error"),
           Unadded' = Unadded
    PROVE  CountsOK'
BY DEF CountsOK

LEMMA AcceptInv == ASSUME PInv, NEW h \in Handler, Accept(h) PROVE PInv'
<1> USE DEF PInv, IInv, TypeOK
<1>1. Pending("count")' = Pending("count") /\ Pending("error")' = Pending("error")
  BY DEF Accept, Pending
<1>2. Unadded' = Unadded
  BY DEF Accept, Unadded
<1>3. UNCHANGED <<request_count, error_count, total_latency, ended, endedInError>>
  BY DEF Accept, CountAtStart
<1>4. CountsOK'
  BY <1>1, <1>2, <1>3, CountsKept
<1>5. TypeOK'
  BY <1>3 DEF Accept, NothingRead, Unread
<1>6. MutexOK'
  BY DEF Accept, MutexOK
<1>7. ScrapesOK'
  BY DEF Accept, ScrapesOK, NothingRead, Unread
<1>8. UnderWayOK'
  <2>1. UnderWay' = UnderWay \cup {h} /\ h \notin UnderWay
    BY DEF Accept, UnderWay
  <2>2. Cardinality(UnderWay') = Cardinality(UnderWay) + 1
    BY <2>1, BusyFinite, FS_AddElement
  <2>3. QED
    BY <2>2, BusyFinite DEF Accept, UnderWayOK
<1>9. QED
  BY <1>4, <1>5, <1>6, <1>7, <1>8

\* A request that ends is, from then on, one still to be added to each counter.
LEMMA LeaveCounts ==
    ASSUME PInv, NEW h \in Handler, NEW error \in BOOLEAN, Leave(h, error),
           pc[h] \in {"handling", "scraping"}, UNCHANGED <<request_count, error_count, total_latency>>
    PROVE  CountsOK'
<1> USE DEF PInv, IInv, TypeOK
<1>1. todo[h] = {}
  BY DEF MutexOK
<1>2. Pending("count")' = Pending("count") \cup {h} /\ h \notin Pending("count")
  BY <1>1 DEF Leave, Pending, Counts
<1>3. /\ Pending("error")' = Pending("error") \cup (IF error THEN {h} ELSE {})
      /\ h \notin Pending("error")
  BY <1>1 DEF Leave, Pending, Counts
<1>4. Unadded' = Unadded \cup {h} /\ h \notin Unadded
  BY DEF Leave, Unadded
<1>5. /\ Cardinality(Pending("count")') = Cardinality(Pending("count")) + 1
      /\ Cardinality(Unadded') = Cardinality(Unadded) + 1
  BY <1>2, <1>4, PendingFinite, BusyFinite, FS_AddElement
<1>6. Cardinality(Pending("error")') = Cardinality(Pending("error")) + (IF error THEN 1 ELSE 0)
  <2>1. CASE error
    <3>1. Pending("error")' = Pending("error") \cup {h}
      BY <1>3, <2>1
    <3>2. Cardinality(Pending("error")') = Cardinality(Pending("error")) + 1
      BY <1>3, <3>1, PendingFinite, FS_AddElement
    <3>3. QED
      BY <2>1, <3>2
  <2>2. CASE ~error
    <3>1. Pending("error")' = Pending("error")
      BY <1>3, <2>2
    <3>2. QED
      BY <2>2, <3>1, PendingFinite
  <2>3. QED
    BY <2>1, <2>2
<1>7. QED
  BY <1>5, <1>6, PendingFinite, BusyFinite DEF Leave, CountsOK

LEMMA LeaveUnderWay ==
    ASSUME PInv, NEW h \in Handler, NEW error \in BOOLEAN, Leave(h, error),
           pc[h] \in {"handling", "scraping"}, UNCHANGED accepted
    PROVE  UnderWayOK' /\ ended < accepted
<1>1. UnderWay' = UnderWay \ {h} /\ h \in UnderWay
  BY DEF PInv, IInv, TypeOK, Leave, UnderWay
<1>2. /\ Cardinality(UnderWay') = Cardinality(UnderWay) - 1
      /\ Cardinality(UnderWay) \in Nat /\ Cardinality(UnderWay') \in Nat
  BY <1>1, BusyFinite, FS_RemoveElement, FS_CardinalityType
<1>3. ended + Cardinality(UnderWay) = accepted /\ ended \in Nat /\ ended' = ended + 1
  BY DEF PInv, IInv, TypeOK, UnderWayOK, Leave
<1>4. QED
  BY <1>2, <1>3 DEF UnderWayOK

LEMMA LeaveInv ==
    ASSUME PInv, NEW h \in Handler, NEW error \in BOOLEAN, Leave(h, error),
           pc[h] \in {"handling", "scraping"}, UNCHANGED <<sum, snapshot, counterVars, accepted>>
    PROVE  PInv'
<1> USE DEF PInv, IInv, TypeOK, counterVars
<1>1. CountsOK'
  BY LeaveCounts
<1>2. UnderWayOK' /\ ended < accepted
  BY LeaveUnderWay
<1>3. TypeOK'
  BY <1>2 DEF Leave, Counts
<1>4. MutexOK'
  BY DEF Leave, MutexOK
<1>5. ScrapesOK'
  BY <1>2 DEF Leave, ScrapesOK, Unread
<1>6. QED
  BY <1>1, <1>2, <1>3, <1>4, <1>5

\* The two atomics of a Record.
LEMMA AddCountInv == ASSUME PInv, NEW h \in Handler, AddCount(h) PROVE PInv'
<1> USE DEF PInv, IInv, TypeOK
<1>1. Pending("count")' = Pending("count") \ {h} /\ h \in Pending("count")
  BY DEF AddCount, Pending
<1>2. /\ Pending("error")' = Pending("error") /\ Unadded' = Unadded /\ UnderWay' = UnderWay
  BY DEF AddCount, Pending, Unadded, UnderWay
<1>3. /\ Cardinality(Pending("count")') = Cardinality(Pending("count")) - 1
      /\ Cardinality(Pending("count")') \in Nat
  BY <1>1, PendingFinite, FS_RemoveElement, FS_CardinalityType
<1>4. /\ request_count' + Cardinality(Pending("count")') = ended
      /\ request_count' \in 0..ended
  <2>1. request_count \in Nat /\ ended \in Nat
    OBVIOUS
  <2>2. request_count + Cardinality(Pending("count")) = ended
    BY DEF CountsOK
  <2>3. request_count' = request_count + 1 /\ UNCHANGED ended
    BY DEF AddCount
  <2>4. QED
    BY <1>3, <2>1, <2>2, <2>3, PendingFinite
<1>5. CountsOK'
  BY <1>2, <1>4 DEF AddCount, CountsOK
<1>6. TypeOK'
  BY <1>4 DEF AddCount
<1>7. MutexOK' /\ ScrapesOK'
  BY DEF AddCount, MutexOK, ScrapesOK
<1>8. QED
  BY <1>2, <1>5, <1>6, <1>7 DEF UnderWayOK, AddCount

LEMMA AddErrorInv == ASSUME PInv, NEW h \in Handler, AddError(h) PROVE PInv'
<1> USE DEF PInv, IInv, TypeOK
<1>1. Pending("error")' = Pending("error") \ {h} /\ h \in Pending("error")
  BY DEF AddError, Pending
<1>2. /\ Pending("count")' = Pending("count") /\ Unadded' = Unadded /\ UnderWay' = UnderWay
  BY DEF AddError, Pending, Unadded, UnderWay
<1>3. /\ Cardinality(Pending("error")') = Cardinality(Pending("error")) - 1
      /\ Cardinality(Pending("error")') \in Nat
  BY <1>1, PendingFinite, FS_RemoveElement, FS_CardinalityType
<1>4. /\ error_count' + Cardinality(Pending("error")') = endedInError
      /\ error_count' \in 0..ended
  <2>1. error_count \in Nat /\ endedInError \in 0..ended /\ ended \in Nat
    OBVIOUS
  <2>2. error_count + Cardinality(Pending("error")) = endedInError
    BY DEF CountsOK
  <2>3. error_count' = error_count + 1 /\ UNCHANGED <<ended, endedInError>>
    BY DEF AddError
  <2>4. QED
    BY <1>3, <2>1, <2>2, <2>3, PendingFinite
<1>5. CountsOK'
  BY <1>2, <1>4 DEF AddError, CountsOK
<1>6. TypeOK'
  BY <1>4 DEF AddError
<1>7. MutexOK' /\ ScrapesOK'
  BY DEF AddError, MutexOK, ScrapesOK
<1>8. QED
  BY <1>2, <1>5, <1>6, <1>7 DEF UnderWayOK, AddError

\* The latency: while a thread adds, nobody else holds the mutex or has stored.
LEMMA LockInv == ASSUME PInv, NEW h \in Handler, Lock(h) PROVE PInv'
<1> USE DEF PInv, IInv, TypeOK
<1>1. /\ Pending("count")' = Pending("count") /\ Pending("error")' = Pending("error")
      /\ Unadded' = Unadded /\ UnderWay' = UnderWay
  BY DEF Lock, Pending, Unadded, UnderWay
<1>2. CountsOK'
  BY <1>1, CountsKept DEF Lock
<1>3. TypeOK'
  BY DEF Lock
<1>4. MutexOK'
  BY DEF Lock, MutexOK, MayLock
<1>5. ScrapesOK'
  BY DEF Lock, ScrapesOK
<1>6. QED
  BY <1>1, <1>2, <1>3, <1>4, <1>5 DEF UnderWayOK, Lock

LEMMA StoreInv == ASSUME PInv, NEW h \in Handler, StoreAndUnlock(h) PROVE PInv'
<1> USE DEF PInv, IInv, TypeOK
<1>1. Unadded' = Unadded \ {h} /\ h \in Unadded
  BY DEF StoreAndUnlock, Unadded
<1>2. /\ Pending("count")' = Pending("count") /\ Pending("error")' = Pending("error")
      /\ UnderWay' = UnderWay
  BY DEF StoreAndUnlock, Pending, UnderWay
<1>3. /\ Cardinality(Unadded') = Cardinality(Unadded) - 1 /\ Cardinality(Unadded') \in Nat
  BY <1>1, BusyFinite, FS_RemoveElement, FS_CardinalityType
<1>4. total_latency' = total_latency + 1
  BY DEF StoreAndUnlock, MutexOK
<1>5. total_latency' + Cardinality(Unadded') = ended /\ total_latency' \in 0..ended
  <2>1. total_latency \in Nat /\ ended \in Nat
    OBVIOUS
  <2>2. total_latency + Cardinality(Unadded) = ended
    BY DEF CountsOK
  <2>3. QED
    BY <1>3, <1>4, <2>1, <2>2, BusyFinite
<1>6. CountsOK'
  BY <1>2, <1>5 DEF StoreAndUnlock, CountsOK
<1>7. TypeOK'
  BY <1>5 DEF StoreAndUnlock
<1>8. MutexOK'
  BY DEF StoreAndUnlock, MutexOK
<1>9. ScrapesOK'
  BY DEF StoreAndUnlock, ScrapesOK
<1>10. QED
  BY <1>2, <1>6, <1>7, <1>8, <1>9 DEF UnderWayOK, StoreAndUnlock

\* A scrape writes down what it reads and nothing else.
LEMMA ReadInv ==
    ASSUME PInv, NEW h \in Handler, ReadCount(h) \/ ReadErrors(h) \/ ReadLatency(h)
    PROVE  PInv'
<1> USE DEF PInv, IInv, TypeOK, counterVars
<1> DEFINE Snapshots == [Handler -> [requests : Nat \union {Unread},
                                     errors : Nat \union {Unread},
                                     latency : Nat \union {Unread}]]
<1>1. UNCHANGED <<pc, is_error, todo, sum, latency_mutex, request_count, error_count,
                  total_latency, accepted, ended, endedInError>>
  BY DEF ReadCount, ReadErrors, ReadLatency, Read
<1>2. {request_count, error_count, total_latency} \subseteq 0..ended /\ ended \in Nat
  OBVIOUS
<1>3. /\ snapshot' \in Snapshots
      /\ \A g \in Handler :
           /\ snapshot'[g].requests \in {snapshot[g].requests, request_count}
           /\ snapshot'[g].latency \in {snapshot[g].latency, total_latency}
  <2>1. CASE ReadCount(h)
    BY <1>2, <2>1 DEF ReadCount, Read
  <2>2. CASE ReadErrors(h)
    BY <1>2, <2>2 DEF ReadErrors, Read
  <2>3. CASE ReadLatency(h)
    BY <1>2, <2>3 DEF ReadLatency, Read
  <2>4. QED
    BY <2>1, <2>2, <2>3
<1>4. TypeOK'
  BY <1>1, <1>3
<1>5. CountsOK' /\ MutexOK' /\ UnderWayOK'
  <2>1. /\ Pending("count")' = Pending("count") /\ Pending("error")' = Pending("error")
        /\ Unadded' = Unadded /\ UnderWay' = UnderWay
    BY <1>1 DEF Pending, Unadded, UnderWay
  <2>2. QED
    BY <1>1, <2>1 DEF CountsOK, MutexOK, UnderWayOK
<1>6. ScrapesOK'
  BY <1>1, <1>2, <1>3 DEF ScrapesOK
<1>7. QED
  BY <1>4, <1>5, <1>6

LEMMA MetricsStep == PInv /\ [Next]_vars => PInv'
<1> SUFFICES ASSUME PInv, [Next]_vars PROVE PInv'
  OBVIOUS
<1>1. CASE UNCHANGED vars
  BY <1>1 DEF vars, PInv, IInv, TypeOK, CountsOK, MutexOK, ScrapesOK, UnderWayOK, UnderWay,
              Pending, Unadded
<1>2. ASSUME NEW h \in Handler, Accept(h) PROVE PInv'
  BY <1>2, AcceptInv
<1>3. ASSUME NEW h \in Handler, HandlerEnds(h) PROVE PInv'
  BY <1>3, LeaveInv DEF HandlerEnds
<1>4. ASSUME NEW h \in Handler, Record(h) PROVE PInv'
  BY <1>4, AddCountInv, AddErrorInv, LockInv, StoreInv DEF Record
<1>5. ASSUME NEW h \in Handler, Snapshot(h) PROVE PInv'
  <2>1. CASE SnapshotReturns(h)
    BY <2>1, LeaveInv DEF SnapshotReturns
  <2>2. QED
    BY <1>5, <2>1, ReadInv DEF Snapshot
<1>6. QED
  BY <1>1, <1>2, <1>3, <1>4, <1>5 DEF Next

(* The inductive invariant: what a counter lacks is still to be added to it,   *)
(* and nobody adds to the latency but the owner of the mutex.                  *)
THEOREM CountersInvariant == Spec => []PInv
BY MetricsStart, MetricsStep, PTL DEF Spec

(* No addition of main.cpp's Metrics::Record is lost, whatever the threads do. *)
THEOREM CountersAreExact == Spec => []ExactWhenIdle
<1>1. PInv => ExactWhenIdle
  <2> SUFFICES ASSUME PInv, \A h \in Handler : pc[h] = "idle"
               PROVE  /\ request_count = ended /\ ended = accepted
                      /\ error_count = endedInError /\ total_latency = ended
    BY DEF ExactWhenIdle
  <2>1. Pending("count") = {} /\ Pending("error") = {} /\ Unadded = {} /\ UnderWay = {}
    BY DEF PInv, IInv, MutexOK, Pending, Unadded, UnderWay
  <2>2. /\ Cardinality(Pending("count")) = 0 /\ Cardinality(Pending("error")) = 0
        /\ Cardinality(Unadded) = 0 /\ Cardinality(UnderWay) = 0
    BY <2>1, FS_EmptySet
  <2>3. {request_count, error_count, total_latency, endedInError} \subseteq Nat /\ ended \in Nat
    BY DEF PInv, IInv, TypeOK
  <2>4. QED
    BY <2>2, <2>3 DEF PInv, IInv, CountsOK, UnderWayOK
<1>2. QED
  BY <1>1, CountersInvariant, PTL

(* Metrics::Snapshot reports no request that has not left its handler.         *)
THEOREM ScrapesCountCompleted == Spec => []ScrapeCountsCompleted
<1>1. PInv => ScrapeCountsCompleted
  BY DEF PInv, ScrapesOK, ScrapeCountsCompleted
<1>2. QED
  BY <1>1, CountersInvariant, PTL
==============================================================================
