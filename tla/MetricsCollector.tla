---------------------------- MODULE MetricsCollector ----------------------------
(* monitoring/metrics_collector.py: the scrape loop and its two files, and the *)
(* counters it scrapes from the Python services, MetricsState in               *)
(* shared/utils.py behind the middleware of shared/fastapi_app.py.             *)
(*                                                                             *)
(* A tick asks all services at once.  Its document replaces the current file,  *)
(* which is truncated and then written, and only then becomes a line of the    *)
(* history.  The collector may die anywhere in between, even in the middle of a*)
(* line, and be started again on the same files.                               *)
EXTENDS Integers, Sequences, SequencesExt

(* Of default_targets, the Python services: the coroutines of their one event  *)
(* loop read and write the counters whole.  The fourth, cpp-worker, has        *)
(* threads, and documents that may be torn: they are in WorkerMetrics.         *)
CONSTANTS Service,
          MaxTicks,     \* bound: ticks, over all runs of the collector
          MaxRequests,  \* bound: requests the services complete
          MaxDeaths     \* bound: deaths, of the collector and of services

ASSUME BoundsAssumption == {MaxTicks, MaxRequests, MaxDeaths} \subseteq Nat

VARIABLES
    pc,       \* where _amain is
    one_shot, \* --once
    stop,     \* the asyncio.Event the signals set
    answer,   \* answer[s]: what _scrape_one of service s returned
    current,  \* the content of output_path
    history,  \* the lines of history_path that can be read
    torn,     \* whether history_path ends in a line without its end
    counts,   \* counts[s]: the MetricsState of service s; its life tells uptimes apart
    ticks, requests, deaths, collectorDeaths,  \* how many there were
    cuts      \* how many of the collector's deaths were in the middle of a line

vars == <<pc, one_shot, stop, answer, current, history, torn, counts,
          ticks, requests, deaths, collectorDeaths, cuts>>

Pending == [pending |-> TRUE]
Failed == [error |-> TRUE]  \* {"service": ..., "error": ...}
Nothing == 0               \* the time of a file with no whole document in it

Ended == {"exited", "died"}

Count == [requests : 0..MaxRequests, errors : 0..MaxRequests, life : 0..MaxDeaths]
Document == [at : 1..MaxTicks, services : [Service -> Count \union {Failed}]]
NoDocument == [at |-> Nothing]

TypeOK ==
    /\ pc \in {"loop", "scraping", "truncated", "appending", "waiting"} \union Ended
    /\ one_shot \in BOOLEAN /\ stop \in BOOLEAN
    /\ answer \in [Service -> Count \union {Pending, Failed}]
    /\ current \in Document \union {NoDocument}
    /\ history \in Seq(Document) /\ torn \in BOOLEAN
    /\ counts \in [Service -> Count]
    /\ ticks \in 0..MaxTicks /\ requests \in 0..MaxRequests
    /\ deaths \in 0..MaxDeaths /\ collectorDeaths \in 0..deaths
    /\ cuts \in 0..collectorDeaths

Fresh(life) == [requests |-> 0, errors |-> 0, life |-> life]

Init ==
    /\ pc = "loop" /\ one_shot \in BOOLEAN /\ stop = FALSE
    /\ answer = [s \in Service |-> Pending]
    /\ current = NoDocument /\ history = <<>> /\ torn = FALSE
    /\ counts = [s \in Service |-> Fresh(0)]
    /\ ticks = 0 /\ requests = 0 /\ deaths = 0 /\ collectorDeaths = 0 /\ cuts = 0

------------------------------------------------------------------------------
(* Mutants of the decisions below, for the runs to refute: a history opened    *)
(* with "w"; a history line written first; a gather that returns with its      *)
(* first result; an exception counted as an error only; a loop that forgets to *)
(* look at the event.                                                          *)
HistoryRewritten(line) == <<line>>
AppendTurnEarly == pc \in {"truncated", "appending"}
GatheredFirst == \E s \in Service : answer[s] # Pending
RecordedErrorOnly(c, is_error) ==
    IF is_error THEN [c EXCEPT !.errors = @ + 1] ELSE [c EXCEPT !.requests = @ + 1]
KeepScrapingForever == TRUE

\* history_path.open("a"): a line put behind a torn one is one with it.
HistoryWith(line) == IF torn THEN history ELSE Append(history, line)

AppendTurn == pc = "appending"

Gathered == \A s \in Service : answer[s] # Pending

\* MetricsState.record
Recorded(c, is_error) ==
    [c EXCEPT !.requests = @ + 1, !.errors = IF is_error THEN @ + 1 ELSE @]

KeepScraping == ~stop

\* ---- the services

(* A request of service s is through: the middleware records it, a response    *)
(* below 500 as well as a 5xx or an exception.  No coroutine runs in between.  *)
Complete(s) ==
    /\ requests < MaxRequests /\ requests' = requests + 1
    /\ \E is_error \in BOOLEAN : counts' = [counts EXCEPT ![s] = Recorded(@, is_error)]
    /\ UNCHANGED <<pc, one_shot, stop, answer, current, history, torn, ticks,
                   deaths, collectorDeaths, cuts>>

ServiceRestarts(s) ==
    /\ deaths < MaxDeaths /\ deaths' = deaths + 1
    /\ counts' = [counts EXCEPT ![s] = Fresh(@.life + 1)]
    /\ UNCHANGED <<pc, one_shot, stop, answer, current, history, torn, ticks,
                   requests, collectorDeaths, cuts>>

\* ---- the collector

Poll ==
    /\ pc = "loop" /\ KeepScraping /\ ticks < MaxTicks
    /\ ticks' = ticks + 1
    /\ pc' = "scraping"
    /\ answer' = [s \in Service |-> Pending]
    /\ UNCHANGED <<one_shot, stop, current, history, torn, counts, requests,
                   deaths, collectorDeaths, cuts>>

\* GET /metrics answers MetricsState.snapshot, or fails within its timeout.
ScrapeOne(s) ==
    /\ pc = "scraping" /\ answer[s] = Pending
    /\ \E a \in {counts[s], Failed} : answer' = [answer EXCEPT ![s] = a]
    /\ UNCHANGED <<pc, one_shot, stop, current, history, torn, counts, ticks,
                   requests, deaths, collectorDeaths, cuts>>

Snapshot == [at |-> ticks, services |-> answer]

\* write_text opens the file with "w"...
Truncate ==
    /\ pc = "scraping" /\ Gathered
    /\ pc' = "truncated"
    /\ current' = NoDocument
    /\ UNCHANGED <<one_shot, stop, answer, history, torn, counts, ticks, requests,
                   deaths, collectorDeaths, cuts>>

\* ... and writes the document.
WriteCurrent ==
    /\ pc = "truncated"
    /\ current' = Snapshot
    /\ pc' = "appending"
    /\ UNCHANGED <<one_shot, stop, answer, history, torn, counts, ticks, requests,
                   deaths, collectorDeaths, cuts>>

AppendHistory ==
    /\ AppendTurn
    /\ history' = HistoryWith(Snapshot) /\ torn' = FALSE
    /\ pc' = IF one_shot THEN "exited" ELSE "waiting"
    /\ UNCHANGED <<one_shot, stop, answer, current, counts, ticks, requests,
                   deaths, collectorDeaths, cuts>>

\* The interval is over, or the event is set.
WaitEnds ==
    /\ pc = "waiting"
    /\ pc' = "loop"
    /\ UNCHANGED <<one_shot, stop, answer, current, history, torn, counts, ticks,
                   requests, deaths, collectorDeaths, cuts>>

Leave ==
    /\ pc = "loop" /\ ~KeepScraping
    /\ pc' = "exited"
    /\ UNCHANGED <<one_shot, stop, answer, current, history, torn, counts, ticks,
                   requests, deaths, collectorDeaths, cuts>>

Signal ==
    /\ pc \notin Ended /\ ~stop
    /\ stop' = TRUE
    /\ UNCHANGED <<pc, one_shot, answer, current, history, torn, counts, ticks,
                   requests, deaths, collectorDeaths, cuts>>

(* A kill, an OSError of a file, or a body that is no JSON, whose ValueError   *)
(* _scrape_one does not catch.  What was written so far stays: of the current  *)
(* file nothing or a part, which are the same to a reader...                   *)
Dies ==
    /\ pc \notin Ended
    /\ deaths < MaxDeaths /\ deaths' = deaths + 1
    /\ collectorDeaths' = collectorDeaths + 1
    /\ pc' = "died"
    /\ UNCHANGED <<one_shot, stop, answer, current, history, counts, ticks,
                   requests>>

Die == Dies /\ UNCHANGED <<torn, cuts>>

\* ... and of a line of the history a part, for the next line to join.
DieInLine ==
    /\ pc = "appending" /\ Dies
    /\ torn' = TRUE /\ cuts' = cuts + 1

\* Somebody runs it again, with the same files.
RunAgain ==
    /\ pc \in Ended
    /\ pc' = "loop" /\ stop' = FALSE /\ one_shot' \in BOOLEAN
    /\ UNCHANGED <<answer, current, history, torn, counts, ticks, requests, deaths,
                   collectorDeaths, cuts>>

CollectorStep ==
    \/ Poll \/ Truncate \/ WriteCurrent \/ AppendHistory \/ WaitEnds \/ Leave
    \/ \E s \in Service : ScrapeOne(s)

Next ==
    \/ CollectorStep \/ Signal \/ Die \/ DieInLine \/ RunAgain
    \/ \E s \in Service : Complete(s) \/ ServiceRestarts(s)

\* Timeouts end the scrapes and the waits; nobody has to run the collector again.
Spec == Init /\ [][Next]_vars /\ WF_vars(CollectorStep)

------------------------------------------------------------------------------
Written == pc \notin {"truncated", "appending"}

(* metrics_collector.py:13 "the file is always small": a reader of the current *)
(* file finds the newest document, which is the last line of the history too;  *)
(* an empty file, or one ahead of the history, is what a write that is under   *)
(* way or was cut off by a death leaves; it is never behind.                   *)
CurrentIsNewest ==
    LET newest == IF history = <<>> THEN Nothing ELSE Last(history).at
    IN  /\ current.at = Nothing \/ current.at >= newest
        /\ Written /\ collectorDeaths = 0 => current.at = newest
        /\ pc = "waiting" /\ cuts = 0 => current = Last(history)

\* A tick is under way from the request to its services to its line in the history.
InTick == pc \in {"scraping", "truncated", "appending"}

(* _write_outputs "append-only history file": every tick's document is a line  *)
(* of the history, in order, but for the one under way, one per death, and one *)
(* more per death in the middle of a line: the line that was joined to it.     *)
LossIsBounded ==
    /\ \A m, n \in DOMAIN history : m < n => history[m].at < history[n].at
    /\ ticks - Len(history) <= collectorDeaths + cuts + (IF InTick THEN 1 ELSE 0)

(* What the history says of a Python service is true: errors are requests too, *)
(* and its counts never shrink unless its uptime says that it restarted.       *)
CountsAreTrue ==
    \A m, n \in DOMAIN history : m <= n =>
      \A s \in Service :
        LET c == history[m].services[s]  d == history[n].services[s]
        IN  Failed \notin {c, d} =>
              /\ c.errors <= c.requests
              /\ c.life = d.life => c.requests <= d.requests /\ c.errors <= d.errors

(* _amain "Run the scrape loop until SIGINT/SIGTERM": a signal ends the loop,  *)
(* wherever it is, without cutting off the tick in hand.                       *)
SignalEndsLoop == stop ~> pc \in Ended
==============================================================================
