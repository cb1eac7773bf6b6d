------------------------------- MODULE TaskPool -------------------------------
(* What services/cpp-worker/src/thread_pool.hpp promises the code that submits *)
(* to it, without its threads, queue, mutex or condition variable: a task is   *)
(* refused or accepted, an accepted task runs exactly once, and the destructor *)
(* refuses what comes after it and returns when nothing accepted is left.      *)
CONSTANT Task  \* one call of Submit each

VARIABLES accepted,  \* the tasks Submit took
          finished,  \* the tasks that have run: their futures are ready
          closed,    \* the destructor has begun
          destroyed  \* the destructor has returned

vars == <<accepted, finished, closed, destroyed>>

Init ==
    /\ accepted = {} /\ finished = {}
    /\ closed = FALSE /\ destroyed = FALSE

Accept(t) ==
    /\ ~closed /\ t \notin accepted
    /\ accepted' = accepted \union {t}
    /\ UNCHANGED <<finished, closed, destroyed>>

Finish(t) ==
    /\ t \in accepted \ finished
    /\ ~destroyed
    /\ finished' = finished \union {t}
    /\ UNCHANGED <<accepted, closed, destroyed>>

Close ==
    /\ ~closed
    /\ closed' = TRUE
    /\ UNCHANGED <<accepted, finished, destroyed>>

Destroy ==
    /\ closed /\ ~destroyed
    /\ accepted = finished
    /\ destroyed' = TRUE
    /\ UNCHANGED <<accepted, finished, closed>>

Next ==
    \/ \E t \in Task : Accept(t) \/ Finish(t)
    \/ Close \/ Destroy

Safety == Init /\ [][Next]_vars

\* Every future becomes ready, and the destructor returns.
Progress ==
    /\ \A t \in Task : t \in accepted ~> t \in finished
    /\ closed ~> destroyed

Spec == Safety /\ Progress
==============================================================================
