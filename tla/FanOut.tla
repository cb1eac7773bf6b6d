-------------------------------- MODULE FanOut --------------------------------
(* One POST /process of service-a: process in services/service-a/app/main.py,  *)
(* fan_out_to_service_b in worker.py and retry_async in shared/utils.py.       *)
(*                                                                             *)
(* Every attempt creates one task per item and a semaphore of its own.  gather *)
(* raises at the first failure and cancels nobody: the siblings of a failed    *)
(* call stay in flight during the backoff, the attempts that follow, and after *)
(* the response.  Numbers are left out; what is kept is which calls a response *)
(* rests on.                                                                   *)
EXTENDS Integers, FiniteSets

CONSTANTS NumItems,     \* len(req.items): ProcessRequest has at least one
          Attempts,     \* retry_async's attempts
          Concurrency   \* Settings.fanout_concurrency: any integer

ASSUME NumItemsAssumption == NumItems \in Nat \ {0}
ASSUME AttemptsAssumption == Attempts \in Nat \ {0}
ASSUME ConcurrencyAssumption == Concurrency \in Int

Item == 1..NumItems
Attempt == 1..Attempts
Operation == {"sum", "square_sum", "unsupported"}  \* "mean" behaves as "sum"

VARIABLES
    pc,         \* where the handler is
    operation,  \* req.operation
    attempt,    \* retry_async's attempt
    task,       \* task[a][i]: the task of item i that attempt a created
    raised,     \* raised[a]: the first exception in attempt a, gather's
    cpp,        \* cpp_result: a number or None
    status      \* the HTTP status of the response, 0 before it

vars == <<pc, operation, attempt, task, raised, cpp, status>>

TypeOK ==
    /\ pc \in {"gathering", "backoff", "cpp", "aggregating", "replied"}
    /\ operation \in Operation
    /\ attempt \in Attempt
    /\ task \in [Attempt -> [Item -> {"none", "queued", "sent", "ok", "failed", "broken"}]]
    /\ raised \in [Attempt -> {"nothing", "failed", "broken"}]
    /\ cpp \in {"none", "number"}
    /\ status \in {0, 200, 400, 500, 502}

\* fan_out_to_service_b creates the tasks of attempt a, all of them at once.
Created(tasks, a) == [tasks EXCEPT ![a] = [i \in Item |-> "queued"]]

Init ==
    /\ pc = "gathering"
    /\ operation \in Operation
    /\ attempt = 1
    /\ task = Created([a \in Attempt |-> [i \in Item |-> "none"]], 1)
    /\ raised = [a \in Attempt |-> "nothing"]
    /\ cpp = "none"
    /\ status = 0

InFlight(a) == {i \in Item : task[a][i] = "sent"}

------------------------------------------------------------------------------
(* Mutants of the decisions below, for the runs to refute: a permit given back *)
(* before the call or kept when it fails; a gather that returns at its first   *)
(* result.                                                                     *)
HoldingNothing(a) == {}
HoldingAfterFailure(a) == {i \in Item : task[a][i] \in {"sent", "failed", "broken"}}
AnyDone(a) == \E i \in Item : task[a][i] = "ok"

\* asyncio.Semaphore(max(1, concurrency))
Permits == IF Concurrency < 1 THEN 1 ELSE Concurrency

\* The permits attempt a's tasks hold: `async with` releases on every way out.
Holding(a) == InFlight(a)

AllDone(a) == \A i \in Item : task[a][i] = "ok"

LastAttempt(a) == a = Attempts

Reply(code) == pc' = "replied" /\ status' = code

(* A task gets a permit and posts to /squared.  The tasks start in the order   *)
(* they were created in and the semaphore is fair, so permits go in item order.*)
Send(a, i) ==
    /\ task[a][i] = "queued"
    /\ \A j \in 1..(i - 1) : task[a][j] # "queued"
    /\ Cardinality(Holding(a)) < Permits
    /\ task' = [task EXCEPT ![a][i] = "sent"]
    /\ UNCHANGED <<pc, operation, attempt, raised, cpp, status>>

CallSucceeds(a, i) ==
    /\ task[a][i] = "sent"
    /\ task' = [task EXCEPT ![a][i] = "ok"]
    /\ UNCHANGED <<pc, operation, attempt, raised, cpp, status>>

(* "failed": an httpx.HTTPError, by raise_for_status, the network or the 5 s   *)
(* timeout; "broken": any other exception, from a body that is not as expected.*)
CallRaises(a, i) ==
    /\ task[a][i] = "sent"
    /\ \E error \in {"failed", "broken"} :
         /\ task' = [task EXCEPT ![a][i] = error]
         /\ raised' = [raised EXCEPT ![a] = IF @ = "nothing" THEN error ELSE @]
    /\ UNCHANGED <<pc, operation, attempt, cpp, status>>

\* gather returns the results of the attempt the handler waits for.
GatherReturns ==
    /\ pc = "gathering" /\ AllDone(attempt)
    /\ pc' = IF operation = "square_sum" THEN "cpp" ELSE "aggregating"
    /\ UNCHANGED <<operation, attempt, task, raised, cpp, status>>

\* gather raises the first failure; retry_async sleeps before another attempt.
Backoff ==
    /\ pc = "gathering" /\ raised[attempt] = "failed" /\ ~LastAttempt(attempt)
    /\ pc' = "backoff"
    /\ UNCHANGED <<operation, attempt, task, raised, cpp, status>>

Retry ==
    /\ pc = "backoff"
    /\ attempt' = attempt + 1
    /\ task' = Created(task, attempt + 1)
    /\ pc' = "gathering"
    /\ UNCHANGED <<operation, raised, cpp, status>>

GiveUp ==
    /\ pc = "gathering" /\ raised[attempt] = "failed" /\ LastAttempt(attempt)
    /\ Reply(502)
    /\ UNCHANGED <<operation, attempt, task, raised, cpp>>

\* What is not an HTTPError is not retried; the middleware answers 500.
Unhandled ==
    /\ pc = "gathering" /\ raised[attempt] = "broken"
    /\ Reply(500)
    /\ UNCHANGED <<operation, attempt, task, raised, cpp>>

\* cpp-worker answers a number, or cannot be reached and cpp_result stays None.
CppCall ==
    /\ pc = "cpp"
    /\ cpp' \in {"number", "none"}
    /\ pc' = "aggregating"
    /\ UNCHANGED <<operation, attempt, task, raised, status>>

\* Its "result" is null when the sum overflows: float(None) is not caught.
CppBroken ==
    /\ pc = "cpp"
    /\ Reply(500)
    /\ UNCHANGED <<operation, attempt, task, raised, cpp>>

(* _aggregate looks at the operation only now, after all the calls.  A sum that*)
(* overflows is infinite, which JSON cannot say: a ValueError, a 500.          *)
Aggregate ==
    /\ pc = "aggregating"
    /\ \E code \in IF operation = "unsupported" THEN {400} ELSE {200, 500} : Reply(code)
    /\ UNCHANGED <<operation, attempt, task, raised, cpp>>

TaskStep(a, i) == Send(a, i) \/ CallSucceeds(a, i) \/ CallRaises(a, i)

HandlerStep ==
    \/ GatherReturns \/ Backoff \/ Retry \/ GiveUp \/ Unhandled
    \/ CppCall \/ CppBroken \/ Aggregate

Next == HandlerStep \/ \E a \in Attempt, i \in Item : TaskStep(a, i)

(* The event loop runs whatever can run, and a 5 s timeout ends every call; in *)
(* particular no task is cancelled.                                            *)
Fairness ==
    /\ WF_vars(HandlerStep)
    /\ \A a \in Attempt, i \in Item : WF_vars(TaskStep(a, i))

Spec == Init /\ [][Next]_vars /\ Fairness

------------------------------------------------------------------------------
Outstanding == {x \in Attempt \X Item : task[x[1]][x[2]] = "sent"}
Settled(a, i) == task[a][i] \in {"ok", "failed", "broken"}

(* A semaphore is per attempt and nothing cancels the calls of a failed one:   *)
(* what the handler can have in flight at service-b is Permits per attempt it  *)
(* began, no more.                                                             *)
InFlightBounded == Cardinality(Outstanding) <= attempt * Permits

(* process "502 if a downstream service repeatedly fails": the status tells    *)
(* what happened.  A 200 or 400 rests on one attempt all of whose calls        *)
(* succeeded, after attempts that failed, never on calls of several attempts;  *)
(* a 502 on a failure in every attempt.                                        *)
StatusIsTrue ==
    /\ status \in {200, 400} => \A i \in Item : task[attempt][i] = "ok"
    /\ status = 502 => attempt = Attempts
    /\ status = 502 =>
         \A a \in Attempt : \E i \in Item : task[a][i] = "failed"
    /\ \A a \in Attempt : a < attempt => \E i \in Item : task[a][i] = "failed"

(* worker.py:44 "Maximum number of concurrent in-flight requests" and :8 "so   *)
(* the worker doesn't open unbounded sockets": `concurrency` bounds what the   *)
(* request has in flight.                                                      *)
ConcurrencyIsTheMaximum == Cardinality(Outstanding) <= Permits
==============================================================================
