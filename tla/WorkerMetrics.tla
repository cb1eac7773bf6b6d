----------------------------- MODULE WorkerMetrics -----------------------------
(* The request counters of cpp-worker, services/cpp-worker/src/main.cpp:       *)
(* InstrumentHandler around every handler, Metrics::Record after it, and       *)
(* Metrics::Snapshot inside the handler of GET /metrics.                       *)
(*                                                                             *)
(* The counters are relaxed atomics: an addition is never lost, but the two of *)
(* one Record, and the two loads of one Snapshot, take effect in either order. *)
(* The latency is a plain double under latency_mutex, so adding to it is a     *)
(* load and a store.  Every request takes one unit of time.                    *)
EXTENDS Integers, FiniteSets

CONSTANTS Handler,     \* the threads of the HTTP server
          Nobody,      \* the owner of a free mutex
          MaxRequests  \* bound: requests accepted

ASSUME HandlerAssumption == IsFiniteSet(Handler) /\ Nobody \notin Handler
ASSUME MaxRequestsAssumption == MaxRequests \in Nat

VARIABLES
    pc,             \* pc[h]: what handler thread h is doing
    is_error,       \* is_error[h]: its request ends as an error
    todo,           \* todo[h]: the atomics its Record has yet to add to
    sum,            \* sum[h]: the latency it loaded under the mutex
    snapshot,       \* snapshot[h]: the numbers its Snapshot has read
    latency_mutex,  \* who holds it
    request_count, error_count, total_latency,
    accepted,       \* how many requests began, at most MaxRequests
    ended,          \* how many requests left their handler
    endedInError    \* how many of those with an error

threadVars == <<pc, is_error, todo, sum, snapshot>>
counterVars == <<latency_mutex, request_count, error_count, total_latency>>
vars == <<pc, is_error, todo, sum, snapshot, latency_mutex, request_count,
          error_count, total_latency, accepted, ended, endedInError>>

Unread == -1

TypeOK ==
    /\ pc \in [Handler -> {"idle", "handling", "scraping", "recording", "adding"}]
    /\ is_error \in [Handler -> BOOLEAN]
    /\ todo \in [Handler -> SUBSET {"count", "error"}]
    /\ sum \in [Handler -> Nat]
    /\ snapshot \in [Handler -> [requests : Nat \union {Unread},
                                 errors : Nat \union {Unread},
                                 latency : Nat \union {Unread}]]
    /\ latency_mutex \in Handler \union {Nobody}
    /\ {request_count, error_count, total_latency, endedInError} \subseteq 0..ended
    /\ accepted \in 0..MaxRequests /\ ended \in 0..accepted

NothingRead == [requests |-> Unread, errors |-> Unread, latency |-> Unread]

Init ==
    /\ pc = [h \in Handler |-> "idle"]
    /\ is_error = [h \in Handler |-> FALSE]
    /\ todo = [h \in Handler |-> {}]
    /\ sum = [h \in Handler |-> 0]
    /\ snapshot = [h \in Handler |-> NothingRead]
    /\ latency_mutex = Nobody
    /\ request_count = 0 /\ error_count = 0 /\ total_latency = 0
    /\ accepted = 0 /\ ended = 0 /\ endedInError = 0

------------------------------------------------------------------------------
(* Mutants of the decisions below, for the runs to refute: a latency that is   *)
(* added without the mutex; requests that are counted when they begin; errors  *)
(* thrown by a handler that are not counted as requests.                       *)
MayLockAnyway == TRUE
CountWhenItBegins == 1
CountsErrorOnly(error) == IF error THEN {"error"} ELSE {"count"}

\* std::lock_guard
MayLock == latency_mutex = Nobody

\* What accepting a request adds to request_count.
CountAtStart == 0

\* The atomics Record(duration_ms, is_error) adds one to.
Counts(error) == {"count"} \union (IF error THEN {"error"} ELSE {})

\* A request arrives: GET /metrics, or any other.
Accept(h) ==
    /\ pc[h] = "idle" /\ accepted < MaxRequests
    /\ accepted' = accepted + 1
    /\ request_count' = request_count + CountAtStart
    /\ \E route \in {"handling", "scraping"} : pc' = [pc EXCEPT ![h] = route]
    /\ snapshot' = [snapshot EXCEPT ![h] = NothingRead]
    /\ UNCHANGED <<is_error, todo, sum, latency_mutex, error_count, total_latency,
                   ended, endedInError>>

\* The handler is through, with a status or an exception; Record is called.
Leave(h, error) ==
    /\ pc' = [pc EXCEPT ![h] = "recording"]
    /\ is_error' = [is_error EXCEPT ![h] = error]
    /\ todo' = [todo EXCEPT ![h] = Counts(error)]
    /\ ended' = ended + 1
    /\ endedInError' = endedInError + (IF error THEN 1 ELSE 0)

HandlerEnds(h) ==
    /\ pc[h] = "handling"
    /\ \E error \in BOOLEAN : Leave(h, error)
    /\ UNCHANGED <<sum, snapshot, counterVars, accepted>>

\* ---- Metrics::Record

AddCount(h) ==
    /\ "count" \in todo[h]
    /\ request_count' = request_count + 1
    /\ todo' = [todo EXCEPT ![h] = @ \ {"count"}]
    /\ UNCHANGED <<pc, is_error, sum, snapshot, latency_mutex, error_count,
                   total_latency, accepted, ended, endedInError>>

AddError(h) ==
    /\ "error" \in todo[h]
    /\ error_count' = error_count + 1
    /\ todo' = [todo EXCEPT ![h] = @ \ {"error"}]
    /\ UNCHANGED <<pc, is_error, sum, snapshot, latency_mutex, request_count,
                   total_latency, accepted, ended, endedInError>>

Lock(h) ==
    /\ pc[h] = "recording" /\ todo[h] = {}
    /\ MayLock
    /\ latency_mutex' = h
    /\ sum' = [sum EXCEPT ![h] = total_latency]
    /\ pc' = [pc EXCEPT ![h] = "adding"]
    /\ UNCHANGED <<is_error, todo, snapshot, request_count, error_count,
                   total_latency, accepted, ended, endedInError>>

StoreAndUnlock(h) ==
    /\ pc[h] = "adding"
    /\ total_latency' = sum[h] + 1
    /\ latency_mutex' = Nobody
    /\ pc' = [pc EXCEPT ![h] = "idle"]
    /\ UNCHANGED <<is_error, todo, sum, snapshot, request_count, error_count,
                   accepted, ended, endedInError>>

\* ---- Metrics::Snapshot

Read(h, field, value) ==
    /\ pc[h] = "scraping" /\ snapshot[h][field] = Unread
    /\ snapshot' = [snapshot EXCEPT ![h][field] = value]
    /\ UNCHANGED <<pc, is_error, todo, sum, counterVars, accepted, ended, endedInError>>

ReadCount(h) == Read(h, "requests", request_count)
ReadErrors(h) == Read(h, "errors", error_count)
ReadLatency(h) ==
    /\ Unread \notin {snapshot[h].requests, snapshot[h].errors}
    /\ MayLock
    /\ Read(h, "latency", total_latency)

\* The document is complete: the scrape's own request ends, and is recorded.
SnapshotReturns(h) ==
    /\ pc[h] = "scraping" /\ snapshot[h].latency # Unread
    /\ Leave(h, FALSE)
    /\ UNCHANGED <<sum, snapshot, counterVars, accepted>>

Record(h) == AddCount(h) \/ AddError(h) \/ Lock(h) \/ StoreAndUnlock(h)
Snapshot(h) == ReadCount(h) \/ ReadErrors(h) \/ ReadLatency(h) \/ SnapshotReturns(h)

Next == \E h \in Handler : Accept(h) \/ HandlerEnds(h) \/ Record(h) \/ Snapshot(h)

\* Handlers end, and no thread keeps latency_mutex.
Fairness == \A h \in Handler : WF_vars(HandlerEnds(h) \/ Record(h) \/ Snapshot(h))

Spec == Init /\ [][Next]_vars /\ Fairness

------------------------------------------------------------------------------
Pending(counter) == {h \in Handler : counter \in todo[h]}
Unadded == {h \in Handler : pc[h] \in {"recording", "adding"}}

\* The invariant behind the properties: what is missing is still to be added.
CountsOK ==
    /\ request_count + Cardinality(Pending("count")) = ended
    /\ error_count + Cardinality(Pending("error")) = endedInError
    /\ total_latency + Cardinality(Unadded) = ended

MutexOK ==
    /\ \A h \in Handler : pc[h] = "adding" <=> latency_mutex = h
    /\ \A h \in Handler : pc[h] = "adding" => sum[h] = total_latency
    /\ \A h \in Handler : todo[h] # {} => pc[h] = "recording"

IInv == TypeOK /\ CountsOK /\ MutexOK

(* main.cpp:57 "Record a single completed request": when no request is under   *)
(* way the counters tell exactly what the server did, however many threads     *)
(* recorded at once; an error is a request too.                                *)
ExactWhenIdle ==
    (\A h \in Handler : pc[h] = "idle") =>
        /\ request_count = ended /\ ended = accepted
        /\ error_count = endedInError
        /\ total_latency = ended

(* A scrape reports completed requests only: not itself, not one that is still *)
(* being handled.                                                              *)
ScrapeCountsCompleted ==
    \A h \in Handler : snapshot[h].requests <= ended /\ snapshot[h].latency <= ended

(* Every request that arrives is recorded in the end.                          *)
AllRecorded == []<>(request_count = accepted /\ total_latency = accepted)
==============================================================================
