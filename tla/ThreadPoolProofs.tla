--------------------------- MODULE ThreadPoolProofs ---------------------------
(* For any number of threads and tasks: the pool loses no wakeup, drains its   *)
(* queue before it is destroyed, and implements TaskPool's safety.             *)
EXTENDS ThreadPool, FiniteSetTheorems, TLAPS

USE WorkerAssumption, TaskAssumption, NoTaskAssumption

\* The sets the wakeup count is about are finite.
LEMMA CountsAreNat ==
    /\ \A state : IsFiniteSet(At(state)) /\ Cardinality(At(state)) \in Nat
    /\ \A state : IsFiniteSet(Calls(state)) /\ Cardinality(Calls(state)) \in Nat
<1>1. \A state : At(state) \subseteq Worker /\ Calls(state) \subseteq Task
  BY DEF At, Calls
<1>2. QED
  BY <1>1, FS_Subset, FS_CardinalityType

\* A thread that goes from anywhere else to "loop" is one more on its way.
LEMMA OneMoreOnItsWay ==
    ASSUME TypeOK, NEW w \in Worker, wpc[w] # "loop",
           wpc' = [wpc EXCEPT ![w] = "loop"]
    PROVE  Cardinality(At("loop"))' = Cardinality(At("loop")) + 1
<1>1. At("loop")' = At("loop") \union {w} /\ w \notin At("loop")
  BY DEF At, TypeOK
<1>2. QED
  BY <1>1, CountsAreNat, FS_AddElement

\* A thread that leaves "loop" is one less.
LEMMA OneLessOnItsWay ==
    ASSUME TypeOK, NEW w \in Worker, wpc[w] = "loop", NEW state, state # "loop",
           wpc' = [wpc EXCEPT ![w] = state]
    PROVE  Cardinality(At("loop"))' = Cardinality(At("loop")) - 1
<1>1. At("loop")' = At("loop") \ {w} /\ w \in At("loop")
  BY DEF At, TypeOK
<1>2. QED
  BY <1>1, CountsAreNat, FS_RemoveElement

\* The constructor starts the threads with an empty queue.
LEMMA InitIInv == Init => IInv
<1> SUFFICES ASSUME Init PROVE IInv
  OBVIOUS
<1>1. TypeOK
  <2>1. tasks \in Seq(Task)
    BY DEF Init
  <2>7. stop \in BOOLEAN /\ dpc = "alive"
    BY DEF Init
  <2>2. wpc \in [Worker -> {"loop", "waiting", "running", "exited"}]
    BY DEF Init
  <2>3. job \in [Worker -> Task \union {NoTask}]
    BY DEF Init
  <2>4. call \in [Task -> {"idle", "notifying", "returned", "thrown"}]
    BY DEF Init
  <2>5. runs \in [Task -> {0, 1}]
    BY DEF Init
  <2>6. QED
    BY <2>1, <2>2, <2>3, <2>4, <2>5, <2>7 DEF TypeOK
<1>2. Shape /\ NobodySleepsThroughStop /\ ExitsDrained /\ OnePlace
  BY DEF Init, Shape, NobodySleepsThroughStop, ExitsDrained, OnePlace, At, Calls,
         Accepted, Queued, RunBy
<1>3. NoLostWakeup
  BY DEF Init, NoLostWakeup, At
<1>4. QED
  BY <1>1, <1>2, <1>3 DEF IInv

\* Every step keeps the types, a running thread's task included.
LEMMA StepTypeOK == ASSUME IInv, [Next]_vars PROVE TypeOK'
<1> USE DEF TypeOK
<1>1. ASSUME NEW w \in Worker, LoopStep(w) \/ SpuriousWakeup(w) PROVE TypeOK'
  <2>1. CASE Take(w)
    BY <2>1 DEF IInv, Take, QueueAfterTake
  <2>2. CASE Run(w)
    <3>1. job[w] \in Task
      BY <2>2 DEF IInv, Shape, At, Run
    <3>2. runs[job[w]] = 0
      BY <2>2, <3>1 DEF IInv, OnePlace, RunBy, Run
    <3>3. QED
      BY <2>2, <3>1, <3>2 DEF IInv, Run
  <2>3. CASE Wait(w) \/ ExitLoop(w) \/ SpuriousWakeup(w)
    BY <2>3 DEF IInv, Wait, ExitLoop, SpuriousWakeup
  <2>4. QED
    BY <1>1, <2>1, <2>2, <2>3 DEF LoopStep
<1>2. ASSUME NEW t \in Task, SubmitPush(t) \/ SubmitThrow(t) \/ NotifyOne(t) PROVE TypeOK'
  <2>1. CASE SubmitPush(t)
    BY <2>1 DEF IInv, SubmitPush, AfterPush
  <2>2. CASE SubmitThrow(t)
    BY <2>2 DEF IInv, SubmitThrow
  <2>3. CASE NotifyOne(t)
    BY <2>3 DEF IInv, NotifyOne, At
  <2>4. QED
    BY <1>2, <2>1, <2>2, <2>3
<1>3. CASE Destructor
  BY <1>3 DEF IInv, Destructor, DestructorStop, NotifyAll, JoinAll
<1>4. CASE UNCHANGED vars
  BY <1>4 DEF IInv, vars
<1>5. QED
  BY <1>1, <1>2, <1>3, <1>4 DEF Next

\* Every step keeps the count that rules lost wakeups out.
LEMMA StepNoLostWakeup == ASSUME IInv, [Next]_vars PROVE NoLostWakeup'
<1> USE CountsAreNat DEF NoLostWakeup
<1>0. TypeOK /\ NoLostWakeup /\ Len(tasks) \in Nat
  BY DEF IInv, TypeOK
<1>1. ASSUME NEW w \in Worker, Wait(w) \/ ExitLoop(w) PROVE NoLostWakeup'
  <2>1. Len(tasks)' = 0
    BY <1>1 DEF Wait, ExitLoop, MustWait, MayExit
  <2>2. Cardinality(At("loop"))' \in Nat /\ Cardinality(Calls("notifying"))' \in Nat
    <3>1. At("loop")' \subseteq Worker /\ Calls("notifying")' \subseteq Task
      BY DEF At, Calls
    <3>2. QED
      BY <3>1, FS_Subset, FS_CardinalityType
  <2>3. QED
    BY <2>1, <2>2
<1>2. ASSUME NEW w \in Worker, Take(w) PROVE NoLostWakeup'
  <2>1. Cardinality(At("loop"))' = Cardinality(At("loop")) - 1
    BY <1>0, <1>2, OneLessOnItsWay DEF Take
  <2>2. Len(tasks)' = Len(tasks) - 1
    BY <1>0, <1>2 DEF Take, QueueAfterTake, TypeOK
  <2>3. Calls("notifying")' = Calls("notifying") /\ At("waiting")' = At("waiting")
    BY <1>0, <1>2 DEF Take, Calls, At, TypeOK
  <2>4. QED
    BY <1>0, <2>1, <2>2, <2>3
<1>3. ASSUME NEW w \in Worker, Run(w) \/ SpuriousWakeup(w) PROVE NoLostWakeup'
  <2>1. Cardinality(At("loop"))' = Cardinality(At("loop")) + 1
    BY <1>0, <1>3, OneMoreOnItsWay DEF Run, SpuriousWakeup
  <2>2. At("waiting")' \subseteq At("waiting")
    BY <1>0, <1>3 DEF Run, SpuriousWakeup, At, TypeOK
  <2>3. Calls("notifying")' = Calls("notifying") /\ Len(tasks)' = Len(tasks)
    BY <1>3 DEF Run, SpuriousWakeup, Calls
  <2>4. QED
    BY <1>0, <2>1, <2>2, <2>3
<1>4. ASSUME NEW t \in Task, SubmitPush(t) PROVE NoLostWakeup'
  <2>1. Calls("notifying")' = Calls("notifying") \union {t} /\ t \notin Calls("notifying")
    BY <1>0, <1>4 DEF SubmitPush, AfterPush, Calls, TypeOK
  <2>2. Cardinality(Calls("notifying"))' = Cardinality(Calls("notifying")) + 1
    BY <2>1, FS_AddElement
  <2>3. Len(tasks)' = Len(tasks) + 1
    BY <1>0, <1>4 DEF SubmitPush, TypeOK
  <2>4. At("loop")' = At("loop") /\ At("waiting")' = At("waiting")
    BY <1>4 DEF SubmitPush, At
  <2>5. QED
    BY <1>0, <2>2, <2>3, <2>4
<1>5. ASSUME NEW t \in Task, SubmitThrow(t) PROVE NoLostWakeup'
  <2>1. Calls("notifying")' = Calls("notifying")
    BY <1>0, <1>5 DEF SubmitThrow, Calls, TypeOK
  <2>2. QED
    BY <1>0, <1>5, <2>1 DEF SubmitThrow, At
<1>6. ASSUME NEW t \in Task, NotifyOne(t) PROVE NoLostWakeup'
  <2>1. CASE At("waiting") = {} /\ UNCHANGED wpc
    BY <2>1 DEF At
  <2>2. CASE \E w \in At("waiting") : wpc' = [wpc EXCEPT ![w] = "loop"]
    <3>1. PICK w \in At("waiting") : wpc' = [wpc EXCEPT ![w] = "loop"]
      BY <2>2
    <3>2. Cardinality(At("loop"))' = Cardinality(At("loop")) + 1 /\ At("waiting") # {}
      BY <1>0, <3>1, OneMoreOnItsWay DEF At
    <3>3. Calls("notifying")' = Calls("notifying") \ {t} /\ t \in Calls("notifying")
      BY <1>0, <1>6 DEF NotifyOne, Calls, TypeOK
    <3>4. Cardinality(Calls("notifying"))' = Cardinality(Calls("notifying")) - 1
      BY <3>3, FS_RemoveElement
    <3>5. Len(tasks)' = Len(tasks)
      BY <1>6 DEF NotifyOne
    <3>6. QED
      BY <1>0, <3>2, <3>4, <3>5
  <2>3. QED
    BY <1>6, <2>1, <2>2 DEF NotifyOne
<1>7. CASE NotifyAll
  <2>1. At("waiting")' = {}
    BY <1>0, <1>7 DEF NotifyAll, At, TypeOK
  <2>2. QED
    BY <2>1
<1>8. CASE DestructorStop \/ JoinAll \/ UNCHANGED vars
  BY <1>0, <1>8 DEF DestructorStop, JoinAll, vars, At, Calls
<1>9. QED
  BY <1>1, <1>2, <1>3, <1>4, <1>5, <1>6, <1>7, <1>8
  DEF Next, LoopStep, Destructor

\* Every step keeps the facts about the destructor and the exits.
LEMMA StepShape ==
    ASSUME IInv, [Next]_vars
    PROVE  Shape' /\ NobodySleepsThroughStop' /\ ExitsDrained'
<1> USE DEF IInv, TypeOK, Shape, NobodySleepsThroughStop, ExitsDrained, At, Calls
<1>1. ASSUME NEW w \in Worker, Wait(w) \/ SpuriousWakeup(w) \/ ExitLoop(w)
      PROVE  Shape' /\ NobodySleepsThroughStop' /\ ExitsDrained'
  BY <1>1 DEF Wait, SpuriousWakeup, ExitLoop, MustWait, MayExit
<1>2. ASSUME NEW w \in Worker, Take(w)
      PROVE  Shape' /\ NobodySleepsThroughStop' /\ ExitsDrained'
  <2>1. tasks # <<>> /\ Head(tasks) \in Task
    BY <1>2 DEF Take
  <2>2. QED
    BY <1>2, <2>1 DEF Take
<1>3. ASSUME NEW w \in Worker, Run(w)
      PROVE  Shape' /\ NobodySleepsThroughStop' /\ ExitsDrained'
  BY <1>3 DEF Run
<1>4. ASSUME NEW t \in Task, SubmitPush(t) \/ SubmitThrow(t)
      PROVE  Shape' /\ NobodySleepsThroughStop' /\ ExitsDrained'
  BY <1>4 DEF SubmitPush, SubmitThrow, Open, AfterPush
<1>5. ASSUME NEW t \in Task, NotifyOne(t)
      PROVE  Shape' /\ NobodySleepsThroughStop' /\ ExitsDrained'
  BY <1>5 DEF NotifyOne
<1>6. CASE Destructor
  BY <1>6 DEF Destructor, DestructorStop, NotifyAll, JoinAll
<1>7. CASE UNCHANGED vars
  BY <1>7 DEF vars
<1>8. QED
  BY <1>1, <1>2, <1>3, <1>4, <1>5, <1>6, <1>7 DEF Next, LoopStep

\* Every step keeps every accepted task in exactly one place.
LEMMA StepOnePlace == ASSUME IInv, [Next]_vars PROVE OnePlace'
<1> USE DEF OnePlace, Accepted, Queued, RunBy, At
<1>0. TypeOK /\ OnePlace /\ Shape
  BY DEF IInv
<1>1. ASSUME NEW w \in Worker, Wait(w) \/ SpuriousWakeup(w) \/ ExitLoop(w) PROVE OnePlace'
  BY <1>0, <1>1 DEF Wait, SpuriousWakeup, ExitLoop, TypeOK
<1>2. ASSUME NEW w \in Worker, Take(w) PROVE OnePlace'
  <2>0. PICK h \in Task : h = tasks[1]
    BY <1>0, <1>2 DEF Take, TypeOK
  <2>1. /\ tasks \in Seq(Task) /\ Len(tasks) >= 1
        /\ Len(tasks') = Len(tasks) - 1
        /\ \A i \in 1..Len(tasks') : tasks'[i] = tasks[i + 1]
        /\ tasks[1] = h /\ job' = [job EXCEPT ![w] = h]
        /\ wpc' = [wpc EXCEPT ![w] = "running"]
        /\ UNCHANGED <<call, runs>>
    BY <1>0, <1>2, <2>0 DEF Take, QueueAfterTake, TypeOK
  <2>2. \A t \in Task : (Queued(t)' => Queued(t) /\ t # h)
    BY <1>0, <2>1
  <2>3. \A t \in Task : (Queued(t) /\ t # h) => Queued(t)'
    <3> SUFFICES ASSUME NEW t \in Task, NEW i \in 1..Len(tasks), tasks[i] = t, t # h
                 PROVE  Queued(t)'
      OBVIOUS
    <3>1. i - 1 \in 1..Len(tasks') /\ tasks'[i - 1] = t
      BY <2>1
    <3>2. QED
      BY <3>1
  <2>4. Queued(h) /\ RunBy(h) = {} /\ RunBy(h)' = {w}
    <3>1. Queued(h)
      <4>1. 1 \in 1..Len(tasks)
        BY <2>1
      <4>2. QED
        BY <2>1, <4>1
    <3>2. \A v \in Worker : ~(wpc[v] = "running" /\ job[v] = h)
      BY <1>0, <3>1
    <3>3. \A v \in Worker : wpc'[v] = "running" /\ job'[v] = h <=> v = w
      BY <1>0, <2>1, <3>2 DEF TypeOK
    <3>4. QED
      BY <3>1, <3>2, <3>3
  <2>5. \A t \in Task : t # h => RunBy(t)' = RunBy(t)
    BY <1>0, <1>2, <2>1 DEF TypeOK, Take
  <2>6. \A i, j \in 1..Len(tasks') : tasks'[i] = tasks'[j] => i = j
    <3> SUFFICES ASSUME NEW i \in 1..Len(tasks'), NEW j \in 1..Len(tasks'),
                        tasks'[i] = tasks'[j]
                 PROVE  i = j
      OBVIOUS
    <3>1. tasks[i + 1] = tasks[j + 1] /\ i + 1 \in 1..Len(tasks) /\ j + 1 \in 1..Len(tasks)
      BY <2>1
    <3>2. i + 1 = j + 1
      BY <1>0, <3>1
    <3>3. QED
      BY <3>2
  <2>7. \A v, u \in At("running")' : job'[v] = job'[u] => v = u
    BY <1>0, <1>2, <2>1, <2>4 DEF TypeOK, Take
  <2> HIDE DEF Queued, RunBy
  <2>8. \A t \in Task :
         /\ Queued(t)' => Accepted(t)' /\ runs'[t] = 0 /\ RunBy(t)' = {}
         /\ RunBy(t)' # {} => Accepted(t)' /\ runs'[t] = 0
         /\ runs'[t] = 1 => Accepted(t)'
         /\ Accepted(t)' => Queued(t)' \/ RunBy(t)' # {} \/ runs'[t] = 1
    <3> SUFFICES ASSUME NEW t \in Task
                 PROVE  /\ Queued(t)' => Accepted(t)' /\ runs'[t] = 0 /\ RunBy(t)' = {}
                        /\ RunBy(t)' # {} => Accepted(t)' /\ runs'[t] = 0
                        /\ runs'[t] = 1 => Accepted(t)'
                        /\ Accepted(t)' => Queued(t)' \/ RunBy(t)' # {} \/ runs'[t] = 1
      OBVIOUS
    <3>1. Accepted(t)' = Accepted(t) /\ runs'[t] = runs[t]
      BY <2>1
    <3>2. /\ Queued(t) => Accepted(t) /\ runs[t] = 0 /\ RunBy(t) = {}
          /\ RunBy(t) # {} => Accepted(t) /\ runs[t] = 0
          /\ runs[t] = 1 => Accepted(t)
          /\ Accepted(t) => Queued(t) \/ RunBy(t) # {} \/ runs[t] = 1
      BY <1>0
    <3> HIDE DEF Accepted
    <3>3. CASE t = h
      BY <2>2, <2>4, <3>1, <3>2, <3>3
    <3>4. CASE t # h
      BY <2>2, <2>3, <2>5, <3>1, <3>2, <3>4
    <3>5. QED
      BY <3>3, <3>4
  <2>9. QED
    BY <2>6, <2>7, <2>8
<1>3. ASSUME NEW w \in Worker, Run(w) PROVE OnePlace'
  BY <1>0, <1>3 DEF Run, TypeOK, Shape
<1>4. ASSUME NEW t \in Task, SubmitPush(t) PROVE OnePlace'
  BY <1>0, <1>4 DEF SubmitPush, AfterPush, TypeOK
<1>5. ASSUME NEW t \in Task, SubmitThrow(t) \/ NotifyOne(t) PROVE OnePlace'
  BY <1>0, <1>5 DEF SubmitThrow, NotifyOne, TypeOK
<1>6. CASE Destructor
  BY <1>0, <1>6 DEF Destructor, DestructorStop, NotifyAll, JoinAll, TypeOK
<1>7. CASE UNCHANGED vars
  BY <1>0, <1>7 DEF vars
<1>8. QED
  BY <1>1, <1>2, <1>3, <1>4, <1>5, <1>6, <1>7 DEF Next, LoopStep

(* The inductive invariant of the pool.                                        *)
THEOREM PoolInvariant == Spec => []IInv
<1>1. IInv /\ [Next]_vars => IInv'
  BY StepTypeOK, StepShape, StepNoLostWakeup, StepOnePlace DEF IInv
<1>2. QED
  BY <1>1, InitIInv, PTL DEF Spec

(* No thread sleeps while a task is queued that nobody is coming for.          *)
THEOREM NoWakeupIsLost == Spec => []NoLostWakeup
<1>1. IInv => NoLostWakeup
  BY DEF IInv
<1>2. QED
  BY <1>1, PoolInvariant, PTL

(* An accepted task is queued once, or with one thread, or was executed once.  *)
THEOREM TasksAreInOnePlace == Spec => []OnePlace
<1>1. IInv => OnePlace
  BY DEF IInv
<1>2. QED
  BY <1>1, PoolInvariant, PTL

(* A thread leaves Loop() only when nothing is queued and nothing can be.      *)
THEOREM ExitsAreDrained == Spec => []ExitsDrained
<1>1. IInv => ExitsDrained
  BY DEF IInv
<1>2. QED
  BY <1>1, PoolInvariant, PTL

\* When every thread has left its loop, every accepted task was executed.
LEMMA AllExitedAllRun ==
    ASSUME IInv, At("exited") = Worker
    PROVE  \A t \in Task : Accepted(t) <=> runs[t] = 1
<1>1. tasks = <<>>
  BY DEF IInv, ExitsDrained
<1>2. \A t \in Task : RunBy(t) = {}
  BY DEF RunBy, At
<1>3. \A t \in Task : ~Queued(t)
  BY <1>1 DEF Queued
<1>4. QED
  BY <1>2, <1>3 DEF IInv, OnePlace

(* The pool implements what TaskPool promises: it takes tasks only while open, *)
(* executes each exactly once, and is destroyed only when none is left.        *)
THEOREM PoolImplementsTaskPool == Spec => Pool!Safety
<1>1. Init => Pool!Init
  BY DEF Init, Pool!Init, Calls
<1>2. IInv /\ [Next]_vars => [Pool!Next]_(Pool!vars)
  <2> SUFFICES ASSUME IInv, [Next]_vars PROVE [Pool!Next]_(Pool!vars)
    OBVIOUS
  <2> USE DEF Calls, Pool!Next, Pool!vars
  <2>0. TypeOK /\ Shape /\ OnePlace
    BY DEF IInv
  <2>1. ASSUME NEW w \in Worker, Run(w) PROVE \E t \in Task : Pool!Finish(t)
    <3>1. job[w] \in Task /\ runs[job[w]] = 0 /\ Accepted(job[w])
      BY <2>0, <2>1 DEF Run, Shape, OnePlace, RunBy, At
    <3>2. runs' = [runs EXCEPT ![job[w]] = 1]
      BY <2>1, <3>1 DEF Run
    <3>3. dpc # "destroyed"
      BY <2>0, <2>1 DEF Shape, At, Run
    <3>4. {t \in Task : runs'[t] > 0} = {t \in Task : runs[t] > 0} \union {job[w]}
      BY <2>0, <3>1, <3>2 DEF TypeOK
    <3>5. Pool!Finish(job[w])
      BY <2>1, <3>1, <3>3, <3>4 DEF Run, Accepted, Pool!Finish
    <3>6. QED
      BY <3>1, <3>5 DEF Pool!Finish
  <2>2. ASSUME NEW t \in Task, SubmitPush(t) PROVE Pool!Accept(t)
    BY <2>0, <2>2 DEF TypeOK, SubmitPush, AfterPush, Open, Pool!Accept
  <2>3. CASE JoinAll
    <3>1. \A t \in Task : Accepted(t) <=> runs[t] = 1
      BY <2>3, AllExitedAllRun DEF JoinAll
    <3>2. (Calls("notifying") \union Calls("returned")) = {t \in Task : runs[t] > 0}
      BY <2>0, <3>1 DEF Accepted, TypeOK
    <3>3. Pool!Destroy
      BY <2>0, <2>3, <3>2 DEF JoinAll, Shape, Pool!Destroy
    <3>4. QED
      BY <3>3
  <2>4. CASE DestructorStop
    BY <2>0, <2>4 DEF DestructorStop, Shape, Pool!Close
  <2>5. CASE NotifyAll \/ UNCHANGED vars
    BY <2>5 DEF NotifyAll, vars
  <2>6. ASSUME NEW w \in Worker, Wait(w) \/ Take(w) \/ ExitLoop(w) \/ SpuriousWakeup(w)
        PROVE  UNCHANGED Pool!vars
    BY <2>6 DEF Wait, Take, ExitLoop, SpuriousWakeup
  <2>7. ASSUME NEW t \in Task, SubmitThrow(t) \/ NotifyOne(t)
        PROVE  UNCHANGED Pool!vars
    BY <2>0, <2>7 DEF SubmitThrow, NotifyOne, TypeOK
  <2>8. QED
    BY <2>1, <2>2, <2>3, <2>4, <2>5, <2>6, <2>7 DEF Next, LoopStep, Destructor
<1>3. QED
  BY <1>1, <1>2, PoolInvariant, PTL DEF Spec, Pool!Safety
==============================================================================
