------------------------------ MODULE ParallelMap ------------------------------
(* What queue_pipeline in services/service-a/app/worker.py promises its caller, *)
(* with no queue, task or counter in it: the work function is applied to every *)
(* item exactly once, to at most Capacity of them at a time, and the call ends *)
(* when nothing is left to do, with all the results or with a failure.         *)
EXTENDS Integers, FiniteSets

CONSTANTS Item, Capacity

VARIABLES running,    \* the items the work function is at
          succeeded,  \* those it returned for
          failed,     \* those it raised for
          answer      \* "none" before the call ends

vars == <<running, succeeded, failed, answer>>

Init ==
    /\ running = {} /\ succeeded = {} /\ failed = {}
    /\ answer = "none"

Start(i) ==
    /\ i \notin running \union succeeded \union failed
    /\ Cardinality(running) < Capacity
    /\ running' = running \union {i}
    /\ UNCHANGED <<succeeded, failed, answer>>

Succeed(i) ==
    /\ i \in running
    /\ running' = running \ {i}
    /\ succeeded' = succeeded \union {i}
    /\ UNCHANGED <<failed, answer>>

Fail(i) ==
    /\ i \in running
    /\ running' = running \ {i}
    /\ failed' = failed \union {i}
    /\ UNCHANGED <<succeeded, answer>>

Return ==
    /\ answer = "none"
    /\ running = {} /\ succeeded \union failed = Item
    /\ answer' = IF failed = {} THEN "results" ELSE "raised"
    /\ UNCHANGED <<running, succeeded, failed>>

Next == Return \/ \E i \in Item : Start(i) \/ Succeed(i) \/ Fail(i)

Safety == Init /\ [][Next]_vars

Progress == <>(answer # "none")

Spec == Safety /\ Progress
==============================================================================
