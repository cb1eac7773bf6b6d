------------------------------ MODULE ThreadPool ------------------------------
(* services/cpp-worker/src/thread_pool.hpp: a fixed set of threads that take   *)
(* tasks from a queue guarded by a mutex and a condition variable.             *)
(*                                                                             *)
(* What a thread does while it holds mutex_ is one action: every other access  *)
(* to the guarded state waits for the mutex.  cv_.wait releases the mutex and  *)
(* blocks in one step, and a woken thread locks and tests again: it is back at *)
(* "loop".  Both notify calls come after the unlock and are steps of their own.*)
EXTENDS Integers, Sequences, FiniteSets

CONSTANTS Worker,  \* workers_
          Task,    \* one call of Submit each, by whatever thread
         NoTask   \* a thread's empty `job`

ASSUME WorkerAssumption == IsFiniteSet(Worker) /\ Worker # {}
ASSUME TaskAssumption == IsFiniteSet(Task)
ASSUME NoTaskAssumption == NoTask \notin Task

VARIABLES
    tasks,  \* tasks_, the queue
    stop,   \* stop_
    wpc,    \* wpc[w]: where Loop() of thread w is
    job,    \* job[w]: the task thread w took from the queue
    call,   \* call[t]: where the call Submit(t) is
    runs,   \* runs[t]: how often t was executed
    dpc     \* where ~ThreadPool() is

vars == <<tasks, stop, wpc, job, call, runs, dpc>>

At(state) == {w \in Worker : wpc[w] = state}
Calls(state) == {t \in Task : call[t] = state}

TypeOK ==
    /\ tasks \in Seq(Task)
    /\ stop \in BOOLEAN
    /\ wpc \in [Worker -> {"loop", "waiting", "running", "exited"}]
    /\ job \in [Worker -> Task \union {NoTask}]
    /\ call \in [Task -> {"idle", "notifying", "returned", "thrown"}]
    /\ runs \in [Task -> {0, 1}]
    /\ dpc \in {"alive", "notifying", "joining", "destroyed"}

Init ==
    /\ tasks = <<>>
    /\ stop = FALSE
    /\ wpc = [w \in Worker |-> "loop"]
    /\ job = [w \in Worker |-> NoTask]
    /\ call = [t \in Task |-> "idle"]
    /\ runs = [t \in Task |-> 0]
    /\ dpc = "alive"

------------------------------------------------------------------------------
(* Mutants of what follows, for the runs to refute: a thread that exits with   *)
(* tasks queued, a Submit that notifies only when the queue was empty.         *)
MayExitUndrained == stop
NotifyOnlyFirst == IF tasks = <<>> THEN "notifying" ELSE "returned"

\* The predicate of cv_.wait is false: nothing is queued and nothing stopped.
MustWait == ~stop /\ tasks = <<>>

MayExit == stop /\ tasks = <<>>

Open == ~stop

\* Submit goes on to notify_one, whatever was in the queue before.
AfterPush == "notifying"

QueueAfterTake == Tail(tasks)

\* The iteration of Loop() that finds nothing to do blocks on the variable.
Wait(w) ==
    /\ wpc[w] = "loop" /\ MustWait
    /\ wpc' = [wpc EXCEPT ![w] = "waiting"]
    /\ UNCHANGED <<tasks, stop, job, call, runs, dpc>>

\* The standard lets cv_.wait return for no reason; it tests again.
SpuriousWakeup(w) ==
    /\ wpc[w] = "waiting"
    /\ wpc' = [wpc EXCEPT ![w] = "loop"]
    /\ UNCHANGED <<tasks, stop, job, call, runs, dpc>>

Take(w) ==
    /\ wpc[w] = "loop" /\ tasks # <<>>
    /\ job' = [job EXCEPT ![w] = Head(tasks)]
    /\ tasks' = QueueAfterTake
    /\ wpc' = [wpc EXCEPT ![w] = "running"]
    /\ UNCHANGED <<stop, call, runs, dpc>>

ExitLoop(w) ==
    /\ wpc[w] = "loop" /\ MayExit
    /\ wpc' = [wpc EXCEPT ![w] = "exited"]
    /\ UNCHANGED <<tasks, stop, job, call, runs, dpc>>

\* job(), outside the mutex; the packaged_task keeps what it throws.
Run(w) ==
    /\ wpc[w] = "running"
    /\ runs' = [runs EXCEPT ![job[w]] = @ + 1]
    /\ job' = [job EXCEPT ![w] = NoTask]
    /\ wpc' = [wpc EXCEPT ![w] = "loop"]
    /\ UNCHANGED <<tasks, stop, call, dpc>>

\* Submit up to its unlock.
SubmitPush(t) ==
    /\ call[t] = "idle" /\ dpc # "destroyed" /\ Open
    /\ tasks' = Append(tasks, t)
    /\ call' = [call EXCEPT ![t] = AfterPush]
    /\ UNCHANGED <<stop, wpc, job, runs, dpc>>

SubmitThrow(t) ==
    /\ call[t] = "idle" /\ dpc # "destroyed" /\ ~Open
    /\ call' = [call EXCEPT ![t] = "thrown"]
    /\ UNCHANGED <<tasks, stop, wpc, job, runs, dpc>>

\* cv_.notify_one and the return: it wakes some waiting thread, or nobody.
NotifyOne(t) ==
    /\ call[t] = "notifying"
    /\ call' = [call EXCEPT ![t] = "returned"]
    /\ \/ At("waiting") = {} /\ UNCHANGED wpc
       \/ \E w \in At("waiting") : wpc' = [wpc EXCEPT ![w] = "loop"]
    /\ UNCHANGED <<tasks, stop, job, runs, dpc>>

\* ~ThreadPool() up to its unlock.
DestructorStop ==
    /\ dpc = "alive"
    /\ stop' = TRUE
    /\ dpc' = "notifying"
    /\ UNCHANGED <<tasks, wpc, job, call, runs>>

NotifyAll ==
    /\ dpc = "notifying"
    /\ wpc' = [w \in Worker |-> IF wpc[w] = "waiting" THEN "loop" ELSE wpc[w]]
    /\ dpc' = "joining"
    /\ UNCHANGED <<tasks, stop, job, call, runs>>

(* Every join returned and the members are gone.  The client must not destroy  *)
(* a pool while a call that pushed a task has yet to notify its variable.      *)
JoinAll ==
    /\ dpc = "joining"
    /\ At("exited") = Worker
    /\ Calls("notifying") = {}
    /\ dpc' = "destroyed"
    /\ UNCHANGED <<tasks, stop, wpc, job, call, runs>>

LoopStep(w) == Wait(w) \/ Take(w) \/ ExitLoop(w) \/ Run(w)
Destructor == DestructorStop \/ NotifyAll \/ JoinAll

Next ==
    \/ \E w \in Worker : LoopStep(w) \/ SpuriousWakeup(w)
    \/ \E t \in Task : SubmitPush(t) \/ SubmitThrow(t) \/ NotifyOne(t)
    \/ Destructor

(* The scheduler runs every thread that is not blocked, and tasks terminate.   *)
(* Nobody has to submit, to destroy the pool, or to wake up spuriously.        *)
Fairness ==
    /\ \A w \in Worker : WF_vars(LoopStep(w))
    /\ \A t \in Task : WF_vars(NotifyOne(t))
    /\ WF_vars(NotifyAll) /\ WF_vars(JoinAll)

Spec == Init /\ [][Next]_vars /\ Fairness

------------------------------------------------------------------------------
(* Submit notifies after its unlock, so a wakeup could get lost between a test *)
(* and a wait: as long as a thread sleeps, no task waits in the queue for      *)
(* which no thread is on its way to the queue and no notify is still to come.  *)
NoLostWakeup ==
    At("waiting") # {} =>
        Len(tasks) <= Cardinality(At("loop")) + Cardinality(Calls("notifying"))

(* ~ThreadPool joins every thread: none sleeps once notify_all has run.        *)
NobodySleepsThroughStop ==
    stop /\ At("waiting") # {} => dpc = "notifying"

(* A thread leaves Loop() only when nothing is queued and nothing can be.      *)
ExitsDrained ==
    At("exited") # {} => stop /\ tasks = <<>>

(* The pool implements the contract its clients rely on.                       *)
Pool == INSTANCE TaskPool WITH
    accepted <- Calls("notifying") \union Calls("returned"),
    finished <- {t \in Task : runs[t] > 0},
    closed <- stop,
    destroyed <- dpc = "destroyed"

ImplementsTaskPool == Pool!Spec

(* Every accepted task is in exactly one place: once in the queue, with one    *)
(* thread, or executed once; and a task that was not accepted is in none.      *)
Accepted(t) == call[t] \in {"notifying", "returned"}
Queued(t) == \E i \in 1..Len(tasks) : tasks[i] = t
RunBy(t) == {w \in Worker : wpc[w] = "running" /\ job[w] = t}

OnePlace ==
    /\ \A i, j \in 1..Len(tasks) : tasks[i] = tasks[j] => i = j
    /\ \A v, w \in At("running") : job[v] = job[w] => v = w
    /\ \A t \in Task :
         /\ Queued(t) => Accepted(t) /\ runs[t] = 0 /\ RunBy(t) = {}
         /\ RunBy(t) # {} => Accepted(t) /\ runs[t] = 0
         /\ runs[t] = 1 => Accepted(t)
         /\ Accepted(t) => Queued(t) \/ RunBy(t) # {} \/ runs[t] = 1

(* The destructor's progress agrees with stop_, and a thread that runs a task  *)
(* holds one.                                                                  *)
Shape ==
    /\ stop <=> dpc # "alive"
    /\ dpc = "destroyed" => At("exited") = Worker /\ Calls("notifying") = {}
    /\ \A w \in At("running") : job[w] \in Task

IInv == /\ TypeOK /\ Shape /\ NoLostWakeup /\ NobodySleepsThroughStop
        /\ ExitsDrained /\ OnePlace
==============================================================================
