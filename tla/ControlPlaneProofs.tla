--------------------------- MODULE ControlPlaneProofs ---------------------------
(* The proofs of the control plane, in three parts: the recovery watcher, for  *)
(* any number of targets, threshold and number of faults; the fault injector,  *)
(* for any set of calls, allow-list and number of threads; and their           *)
(* composition, which keeps what its parts promise: the injector is to the     *)
(* watcher a part of its environment, and the watcher to the injector.         *)
EXTENDS ControlPlane, TLAPS

USE NumTargetsAssumption, MaxFaultsAssumption, FailureThresholdAssumption

------------------------------------------------------------------------------
(*                              RecoveryWatcher                                *)

\* The threshold the loop really applies is at least one.
LEMMA LimitIsPositive == Limit \in Nat \ {0}
BY DEF Limit

\* Comparing with failure_threshold or with Limit is the same for a positive count.
LEMMA ThresholdIsLimit ==
    ASSUME NEW n \in Nat \ {0}
    PROVE  ReachesThreshold(n) <=> n >= Limit
BY DEF ReachesThreshold, Limit

\* A probe is answered or it is not: its result is never pending.
LEMMA AnswersType ==
    ASSUME NEW t \in Target
    PROVE  Answers(t) \subseteq {"ok", "fail"}
BY DEF Answers

\* The watcher starts with every count at zero and no result to handle.
LEMMA InitIInv == Init => IInv
<1> SUFFICES ASSUME Init PROVE IInv
  OBVIOUS
<1>1. 0 \in 0..Limit /\ 0 < Limit
  BY LimitIsPositive
<1>2. DaemonTypeOK
  BY DEF Init, DaemonInit, DaemonTypeOK, ContainerState
<1>3. consecutive_failures \in [Target -> 0..Limit] /\ missed \in [Target -> 0..Limit]
  BY <1>1 DEF Init
<1>4. TypeOK
  <2>1. next \in 1..(NumTargets + 1)
    BY DEF Init
  <2>2. results \in [Target -> {"pending", "ok", "fail"}]
    BY DEF Init
  <2>3. last_event \in [Target -> {"none", "success", "failure"}]
    BY DEF Init
  <2>4. QED
    BY <1>2, <1>3, <2>1, <2>2, <2>3 DEF Init, TypeOK
<1>5. CycleShape
  BY DEF Init, CycleShape
<1>6. CountLink
  BY <1>1 DEF Init, CountLink, Recovering, Unhandled
<1>7. QED
  BY <1>4, <1>5, <1>6 DEF IInv

\* What the containers do leaves the loop's invariant alone.
LEMMA DaemonStepIInv ==
    ASSUME IInv, NEW t \in Target, DaemonStep(t), UNCHANGED watcherVars
    PROVE  IInv'
<1>1. DaemonTypeOK'
  BY DEF IInv, TypeOK, DaemonTypeOK, DaemonStep, Boot, Exit, Relaunch, Crash, Wedge,
         Unwedge, StopRequest, OperatorStart, Become, Fault, ContainerState
<1>2. QED
  BY <1>1
  DEF IInv, TypeOK, CycleShape, CountLink, Recovering, Unhandled, RecoveringLink,
      UnhandledLink, Gathered, ReachesThreshold, watcherVars

LEMMA PollIInv == ASSUME IInv, Poll PROVE IInv'
BY DEF IInv, TypeOK, DaemonTypeOK, CycleShape, CountLink, Recovering, Unhandled,
       RecoveringLink, UnhandledLink, Gathered, Poll, Target

LEMMA ProbeAnswerIInv == ASSUME IInv, NEW t \in Target, ProbeAnswer(t) PROVE IInv'
<1>1. PICK answer \in {"ok", "fail"} :
        /\ results' = [results EXCEPT ![t] = answer]
        /\ missed' = [missed EXCEPT ![t] = IF answer = "ok" THEN 0 ELSE @ + 1]
  BY AnswersType DEF ProbeAnswer
<1>2. /\ next = 1 /\ pc = "tick"
      /\ missed[t] = consecutive_failures[t] /\ consecutive_failures[t] < Limit
  BY DEF IInv, TypeOK, CycleShape, CountLink, Recovering, Unhandled, UnhandledLink,
         Gathered, ProbeAnswer, Target
<1>3. TypeOK'
  BY <1>1, <1>2, LimitIsPositive DEF IInv, TypeOK, DaemonTypeOK, ProbeAnswer
<1>4. CycleShape'
  BY <1>1, <1>2 DEF IInv, TypeOK, ProbeAnswer, CycleShape
<1>5. CountLink'
  BY <1>1, <1>2 DEF IInv, TypeOK, CountLink, Recovering, Unhandled, RecoveringLink,
                    UnhandledLink, ProbeAnswer, Target
<1>6. QED
  BY <1>3, <1>4, <1>5 DEF IInv

LEMMA HandleOkIInv == ASSUME IInv, NEW t \in Target, HandleOk(t) PROVE IInv'
BY LimitIsPositive
   DEF IInv, TypeOK, DaemonTypeOK, CycleShape, CountLink, Recovering, Unhandled,
       RecoveringLink, UnhandledLink, Gathered, HandleOk, Handling, Target

LEMMA HandleFailureIInv == ASSUME IInv, NEW t \in Target, HandleFailure(t) PROVE IInv'
BY LimitIsPositive, ThresholdIsLimit
   DEF IInv, TypeOK, DaemonTypeOK, CycleShape, CountLink, Recovering, Unhandled,
       RecoveringLink, UnhandledLink, Gathered, HandleFailure, Handling, Target

LEMMA EscalateIInv == ASSUME IInv, NEW t \in Target, Escalate(t) PROVE IInv'
BY LimitIsPositive, ThresholdIsLimit
   DEF IInv, TypeOK, DaemonTypeOK, CycleShape, CountLink, Recovering, Unhandled,
       RecoveringLink, UnhandledLink, Gathered, Escalate, Handling, Target

LEMMA DockerStartIInv == ASSUME IInv, NEW t \in Target, DockerStart(t) PROVE IInv'
<1>1. pc = "starting" /\ next \in Target /\ t = next
  BY DEF IInv, TypeOK, DockerStart, Target
<1>2. /\ missed' = [missed EXCEPT ![t] = 0] /\ pc' = "recording"
      /\ UNCHANGED <<results, next, consecutive_failures, last_event, stop>>
  BY DEF DockerStart
<1>3. DaemonTypeOK' /\ returncode' \in {0, 1}
  <2>1. CASE returncode' = 0 /\ StartEffect(t) /\ UNCHANGED faults
    BY <2>1 DEF IInv, TypeOK, DaemonTypeOK, StartEffect, Become, ContainerState
  <2>2. CASE returncode' = 1 /\ Fault /\ UNCHANGED container
    BY <2>2 DEF IInv, TypeOK, DaemonTypeOK, Fault
  <2>3. QED
    BY <2>1, <2>2 DEF DockerStart
<1>4. missed' \in [Target -> 0..Limit]
  BY <1>2, LimitIsPositive DEF IInv, TypeOK
<1>5. TypeOK'
  BY <1>2, <1>3, <1>4 DEF IInv, TypeOK
<1>6. CycleShape'
  BY <1>1, <1>2 DEF IInv, CycleShape, Gathered
<1>7. CountLink'
  <2> SUFFICES ASSUME NEW s \in Target
               PROVE  IF Recovering(s)' THEN RecoveringLink(s)'
                      ELSE /\ consecutive_failures'[s] < Limit
                           /\ IF Unhandled(s)' THEN UnhandledLink(s)'
                                               ELSE missed'[s] = consecutive_failures'[s]
    BY DEF CountLink
  <2>1. IF Recovering(s) THEN RecoveringLink(s)
        ELSE /\ consecutive_failures[s] < Limit
             /\ IF Unhandled(s) THEN UnhandledLink(s)
                                ELSE missed[s] = consecutive_failures[s]
    BY DEF IInv, CountLink
  <2>2. CASE s = t
    BY <1>1, <1>2, <2>1, <2>2
    DEF IInv, TypeOK, Recovering, RecoveringLink
  <2>3. CASE s # t
    <3>1. missed'[s] = missed[s]
      BY <1>2, <2>3 DEF IInv, TypeOK
    <3>2. QED
      BY <1>1, <1>2, <2>1, <2>3, <3>1 DEF Recovering, Unhandled, UnhandledLink
  <2>4. QED
    BY <2>2, <2>3
<1>8. QED
  BY <1>5, <1>6, <1>7 DEF IInv

LEMMA RecordEventIInv == ASSUME IInv, NEW t \in Target, RecordEvent(t) PROVE IInv'
BY LimitIsPositive
   DEF IInv, TypeOK, DaemonTypeOK, CycleShape, CountLink, Recovering, Unhandled,
       RecoveringLink, UnhandledLink, Gathered, RecordEvent, CountAfterRecovery,
       Target

\* The steps that only move the loop on.
LEMMA ControlIInv ==
    ASSUME IInv, DockerMissing \/ BackoffEnds \/ EndTick \/ Leave \/ RequestStop
    PROVE  IInv'
<1> USE DEF IInv, TypeOK, DaemonTypeOK, CycleShape, CountLink, Recovering, Unhandled,
            RecoveringLink, UnhandledLink, Gathered, Target, ReachesThreshold
<1>1. CASE DockerMissing
  BY <1>1 DEF DockerMissing, Fault
<1>2. CASE BackoffEnds
  BY <1>2 DEF BackoffEnds
<1>3. CASE EndTick
  BY <1>3 DEF EndTick
<1>4. CASE Leave
  BY <1>4 DEF Leave
<1>5. CASE RequestStop
  BY <1>5 DEF RequestStop
<1>6. QED
  BY <1>1, <1>2, <1>3, <1>4, <1>5

\* One case per action.
LEMMA StepIInv == IInv /\ [Next]_vars => IInv'
<1> SUFFICES ASSUME IInv, [Next]_vars PROVE IInv'
  OBVIOUS
<1>1. CASE \E t \in Target : DaemonStep(t) /\ UNCHANGED watcherVars
  BY <1>1, DaemonStepIInv
<1>2. CASE Poll
  BY <1>2, PollIInv
<1>3. CASE \E t \in Target : ProbeAnswer(t)
  BY <1>3, ProbeAnswerIInv
<1>4. CASE \E t \in Target : HandleOk(t)
  BY <1>4, HandleOkIInv
<1>5. CASE \E t \in Target : HandleFailure(t)
  BY <1>5, HandleFailureIInv
<1>6. CASE \E t \in Target : Escalate(t)
  BY <1>6, EscalateIInv
<1>7. CASE \E t \in Target : DockerStart(t)
  BY <1>7, DockerStartIInv
<1>8. CASE \E t \in Target : RecordEvent(t)
  BY <1>8, RecordEventIInv
<1>9. CASE DockerMissing \/ BackoffEnds \/ EndTick \/ Leave \/ RequestStop
  BY <1>9, ControlIInv
<1>10. CASE UNCHANGED vars
  BY <1>10
  DEF vars, IInv, TypeOK, DaemonTypeOK, CycleShape, CountLink, Recovering, Unhandled,
      RecoveringLink, UnhandledLink, Gathered, ReachesThreshold
<1>11. QED
  BY <1>1, <1>2, <1>3, <1>4, <1>5, <1>6, <1>7, <1>8, <1>9, <1>10
  DEF Next, WatcherStep, Environment

(* The inductive invariant: the counter kept per service is the number of      *)
(* probes it missed, up to the result in hand.                                 *)
THEOREM CountsMissedProbes == Spec => []IInv
<1>1. Init => IInv
  BY InitIInv
<1>2. IInv /\ [Next]_vars => IInv'
  BY StepIInv
<1>3. QED
  BY <1>1, <1>2, PTL DEF Spec

(* Type correctness of the watcher and the containers.                         *)
THEOREM TypeCorrect == Spec => []TypeOK
<1>1. IInv => TypeOK
  BY DEF IInv
<1>2. QED
  BY <1>1, CountsMissedProbes, PTL

(* A recovery begins only for a target that missed exactly Limit probes in a   *)
(* row since its last answer and its last restart.                             *)
THEOREM EscalationSound == Spec => []EscalatesOnlyAfterThreshold
<1>1. IInv => EscalatesOnlyAfterThreshold
  BY DEF IInv, CountLink, Recovering, RecoveringLink, EscalatesOnlyAfterThreshold
<1>2. QED
  BY <1>1, CountsMissedProbes, PTL

(* No poll cycle ends with a target that missed Limit probes and was left      *)
(* alone.                                                                      *)
THEOREM DetectionComplete == Spec => []DetectsWithinThreshold
<1>1. IInv => DetectsWithinThreshold
  BY DEF IInv, TypeOK, CountLink, Recovering, Unhandled, DetectsWithinThreshold
<1>2. QED
  BY <1>1, CountsMissedProbes, PTL

\* Of the steps of the watcher, those that count probes are steps of the contract.
LEMMA WatcherRefines ==
    ASSUME IInv, WatcherStep
    PROVE  [Contract!Next]_(Contract!vars)
<1> USE DEF Contract!Next, Contract!vars
<1>0. CASE DockerMissing
  BY <1>0 DEF DockerMissing, Contract!StopWatching
<1>1. CASE Poll \/ BackoffEnds \/ EndTick \/ Leave
  BY <1>1 DEF Poll, BackoffEnds, EndTick, Leave
<1>2. ASSUME NEW t \in Target, HandleOk(t) \/ HandleFailure(t) \/ Escalate(t) \/ RecordEvent(t)
      PROVE  [Contract!Next]_(Contract!vars)
  BY <1>2 DEF HandleOk, HandleFailure, Handling, Escalate, RecordEvent
<1>3. ASSUME NEW t \in Target, ProbeAnswer(t)
      PROVE  Contract!Answer(t) \/ Contract!Miss(t)
  <2>1. missed[t] = consecutive_failures[t] /\ consecutive_failures[t] < Limit
    BY <1>3 DEF IInv, TypeOK, CycleShape, CountLink, Recovering, Unhandled, UnhandledLink,
                Gathered, ProbeAnswer, Target
  <2>2. QED
    BY <1>3, <2>1 DEF ProbeAnswer, Contract!Answer, Contract!Miss
<1>4. ASSUME NEW t \in Target, DockerStart(t)
      PROVE  Contract!Restart(t)
  <2>1. missed[t] = Limit
    BY <1>4 DEF IInv, CountLink, Recovering, RecoveringLink, DockerStart
  <2>2. container \in [Target -> ContainerState]
    BY DEF IInv, TypeOK, DaemonTypeOK
  <2>3. QED
    BY <1>4, <2>1, <2>2 DEF DockerStart, StartEffect, Become, Contract!Restart
<1>5. QED
  BY <1>0, <1>1, <1>2, <1>3, <1>4 DEF WatcherStep

\* What happens to a container is the contract's target going down or coming back.
LEMMA DaemonRefines ==
    ASSUME IInv, NEW t \in Target, DaemonStep(t), UNCHANGED watcherVars
    PROVE  Contract!GoDown(t) \/ Contract!ComeBack(t) \/ UNCHANGED Contract!vars
<1>1. container \in [Target -> ContainerState]
  BY DEF IInv, TypeOK, DaemonTypeOK
<1>2. UNCHANGED <<missed, stop, pc>>
  BY DEF watcherVars
<1>3. CASE Exit(t) \/ StopRequest(t)
  BY <1>1, <1>2, <1>3
  DEF Exit, StopRequest, Become, Contract!GoDown, Contract!vars
<1>4. CASE OperatorStart(t)
  BY <1>1, <1>2, <1>4 DEF OperatorStart, Become, Contract!ComeBack
<1>5. CASE Boot(t) \/ Relaunch(t) \/ Crash(t) \/ Wedge(t) \/ Unwedge(t)
  BY <1>1, <1>2, <1>5
  DEF Boot, Relaunch, Crash, Wedge, Unwedge, Become, Contract!vars
<1>6. QED
  BY <1>3, <1>4, <1>5 DEF DaemonStep

\* Every step of watcher and containers is one the contract allows.
LEMMA ContractStep ==
    IInv /\ [Next]_vars => [Contract!Next]_(Contract!vars)
<1> SUFFICES ASSUME IInv, [Next]_vars PROVE [Contract!Next]_(Contract!vars)
  OBVIOUS
<1>1. CASE WatcherStep
  BY <1>1, WatcherRefines
<1>2. CASE RequestStop
  BY <1>2 DEF RequestStop, Contract!Next, Contract!StopWatching
<1>3. CASE Environment
  BY <1>3, DaemonRefines DEF Environment, Contract!Next
<1>4. CASE UNCHANGED vars
  BY <1>4 DEF vars, Contract!vars
<1>5. QED
  BY <1>1, <1>2, <1>3, <1>4 DEF Next

(* The loop implements the safety part of the supervision contract: it         *)
(* restarts exactly the targets that missed Limit probes, and counts no more.  *)
THEOREM WatcherImplementsContract == Spec => Contract!Safety
<1>1. Init => Contract!Init
  BY DEF Init, DaemonInit, Contract!Init
<1>2. QED
  BY <1>1, ContractStep, CountsMissedProbes, PTL DEF Spec, Contract!Safety

------------------------------------------------------------------------------
(*                               FaultInjector                                 *)

USE AllowedAssumption, ThreadsAssumption

\* Nothing but the container's state matters to what docker does with it.
LEMMA DaemonType ==
    ASSUME DaemonTypeOK, NEW t \in Target,
           DaemonStep(t) \/ (StartEffect(t) /\ UNCHANGED faults)
    PROVE  DaemonTypeOK'
BY DEF DaemonTypeOK, DaemonStep, Boot, Exit, Relaunch, Crash, Wedge, Unwedge,
       StopRequest, OperatorStart, StartEffect, Become, Fault, ContainerState

\* A container on its way down gets there, and nowhere else.
LEMMA StoppingOnlyExits ==
    ASSUME DaemonTypeOK, NEW t \in Target, NEW s \in Target, DaemonStep(t),
           container[s] = "stopping"
    PROVE  container'[s] \in {"stopping", "stopped"}
BY DEF DaemonTypeOK, DaemonStep, Boot, Exit, Relaunch, Crash, Wedge, Unwedge,
       StopRequest, OperatorStart, Become, Fault

\* `docker start` stops nothing, so it ends no wait for an exit.
LEMMA StartKeepsStopping ==
    ASSUME DaemonTypeOK, NEW t \in Target, NEW s \in Target, StartEffect(t),
           container[s] = "stopping"
    PROVE  container'[s] = "stopping"
BY DEF DaemonTypeOK, StartEffect, Become

\* A name that passed the check is that of a container on the allow-list.
LEMMA PermittedIsAllowed ==
    ASSUME NEW n, Permitted(n)
    PROVE  n.service \in Allowed /\ n.service \in Target /\ n \in Name
<1>1. PICK t \in Allowed : n = [prefixed |-> TRUE, service |-> t]
  BY DEF Permitted
<1>2. n.service = t /\ t \in Target
  BY <1>1
<1>3. n \in Name
  BY <1>1, <1>2 DEF Name
<1>4. QED
  BY <1>2, <1>3

LEMMA InitInjectorInv == DaemonInit /\ InjectorInit => InjectorInv
<1> SUFFICES ASSUME DaemonInit, InjectorInit PROVE InjectorInv
  OBVIOUS
<1>1. DaemonTypeOK
  BY DEF DaemonInit, DaemonTypeOK, ContainerState
<1>2. InjectorTypeOK
  BY DEF InjectorInit, InjectorTypeOK, Name, Kind
<1>3. QueueOK /\ PhasesOK /\ StopsAreUnderWay
  BY DEF InjectorInit, QueueOK, PhasesOK, StopsAreUnderWay, Busy
<1>4. QED
  BY <1>1, <1>2, <1>3 DEF InjectorInv

\* ---- The queue of the executor

\* A call that leaves no trace in the queue keeps the queue in order.
LEMMA QueueKept ==
    ASSUME InjectorInv, NEW c \in Call, phase[c] # "queued", UNCHANGED queue,
           \A d \in Call \ {c} : phase'[d] = phase[d]
    PROVE  QueueOK'
BY DEF InjectorInv, InjectorTypeOK, QueueOK

LEMMA ReceiveInv == ASSUME InjectorInv, NEW c \in Call, Receive(c) PROVE InjectorInv'
<1>1. PICK n \in Name :
        /\ name' = [name EXCEPT ![c] = Normalised(n)]
        /\ IF Permitted(Normalised(n))
           THEN /\ phase' = [phase EXCEPT ![c] = "queued"]
                /\ queue' = Append(queue, c)
                /\ UNCHANGED <<status, accepted>>
           ELSE Reply(c, 403, FALSE) /\ UNCHANGED queue
  BY DEF Receive
<1>2. Normalised(n) \in Name
  BY DEF Normalised, Name
<1>3. phase[c] = "unsent" /\ UNCHANGED <<kind, command, container, faults>>
  BY DEF Receive, daemonVars
<1>4. DaemonTypeOK'
  BY <1>3 DEF InjectorInv, DaemonTypeOK
<1>5. CASE Permitted(Normalised(n))
  <2>1. /\ phase' = [phase EXCEPT ![c] = "queued"]
        /\ queue' = Append(queue, c)
        /\ UNCHANGED <<status, accepted>>
    BY <1>1, <1>5
  <2>2. InjectorTypeOK'
    BY <1>1, <1>2, <1>3, <2>1 DEF InjectorInv, InjectorTypeOK
  <2>3. QueueOK'
    <3>1. /\ queue \in Seq(Call) /\ QueueOK
          /\ phase \in [Call -> {"unsent", "queued", "replied"} \union Busy]
      BY DEF InjectorInv, InjectorTypeOK
    <3>2. \A m \in DOMAIN queue : queue[m] \in Call /\ queue[m] # c
      BY <1>3, <3>1 DEF QueueOK
    <3>3. /\ DOMAIN queue' = DOMAIN queue \union {Len(queue) + 1}
          /\ \A m \in DOMAIN queue : queue'[m] = queue[m]
          /\ queue'[Len(queue) + 1] = c
          /\ Len(queue) + 1 \notin DOMAIN queue
      BY <2>1, <3>1
    <3>4. QED
      BY <2>1, <3>1, <3>2, <3>3 DEF QueueOK
  <2>4. PhasesOK'
    BY <1>1, <1>3, <1>5, <2>1 DEF InjectorInv, InjectorTypeOK, PhasesOK, Busy
  <2>5. StopsAreUnderWay'
    BY <1>1, <1>3, <2>1 DEF InjectorInv, InjectorTypeOK, StopsAreUnderWay, Victim
  <2>6. QED
    BY <1>4, <2>2, <2>3, <2>4, <2>5 DEF InjectorInv
<1>6. CASE ~Permitted(Normalised(n))
  <2>1. Reply(c, 403, FALSE) /\ UNCHANGED queue
    BY <1>1, <1>6
  <2>2. InjectorTypeOK'
    BY <1>1, <1>2, <1>3, <2>1 DEF InjectorInv, InjectorTypeOK, Reply
  <2>3. QueueOK'
    BY <1>3, <2>1, QueueKept DEF InjectorInv, InjectorTypeOK, Reply
  <2>4. PhasesOK'
    BY <1>1, <1>3, <2>1 DEF InjectorInv, InjectorTypeOK, PhasesOK, Busy, Reply
  <2>5. StopsAreUnderWay'
    BY <1>1, <1>3, <2>1 DEF InjectorInv, InjectorTypeOK, StopsAreUnderWay, Victim, Reply
  <2>6. QED
    BY <1>4, <2>2, <2>3, <2>4, <2>5 DEF InjectorInv
<1>7. QED
  BY <1>5, <1>6

LEMMA ThreadTakesInv == ASSUME InjectorInv, NEW c \in Call, ThreadTakes(c) PROVE InjectorInv'
<1> USE DEF ThreadTakes, daemonVars
<1>1. queue \in Seq(Call) /\ queue # <<>> /\ c = queue[1] /\ 1 \in DOMAIN queue
  BY DEF InjectorInv, InjectorTypeOK
<1>2. phase[c] = "queued"
  BY <1>1 DEF InjectorInv, QueueOK
<1>3. DaemonTypeOK' /\ InjectorTypeOK'
  BY <1>1 DEF InjectorInv, InjectorTypeOK, DaemonTypeOK, Busy
<1>4. QueueOK'
  <2>1. \A m \in DOMAIN queue' : m + 1 \in DOMAIN queue /\ queue'[m] = queue[m + 1]
                                   /\ queue[m + 1] \in Call /\ m \in Nat \ {0}
    BY <1>1
  <2>2. \A m \in DOMAIN queue' : queue'[m] # c
    BY <1>1, <2>1 DEF InjectorInv, QueueOK
  <2>3. \A m \in DOMAIN queue' : phase'[queue'[m]] = "queued"
    BY <2>1, <2>2 DEF InjectorInv, InjectorTypeOK, QueueOK
  <2>4. \A m, n \in DOMAIN queue' : queue'[m] = queue'[n] => m = n
    BY <2>1 DEF InjectorInv, QueueOK
  <2>5. QED
    BY <2>3, <2>4 DEF QueueOK
<1>5. PhasesOK'
  BY <1>2 DEF InjectorInv, InjectorTypeOK, PhasesOK, Busy
<1>6. StopsAreUnderWay'
  BY DEF InjectorInv, InjectorTypeOK, StopsAreUnderWay, Victim
<1>7. QED
  BY <1>3, <1>4, <1>5, <1>6 DEF InjectorInv

\* ---- The calls to docker

\* A step of one call in a thread that stops no container and starts one at most.
LEMMA CallInv ==
    ASSUME InjectorInv, NEW c \in Call, InjectorTypeOK', DaemonTypeOK', PhasesOK',
           phase[c] \in Busy, UNCHANGED <<queue, name>>,
           \A d \in Call \ {c} : phase'[d] = phase[d],
           phase'[c] = "awaiting" => container'[Victim(c)] = "stopping",
           \A t \in Target : container[t] = "stopping" => container'[t] = "stopping"
    PROVE  InjectorInv'
<1>1. QueueOK'
  BY QueueKept DEF Busy
<1>2. \A d \in Call : phase[d] = "awaiting" => Victim(d) \in Target
  BY PermittedIsAllowed DEF InjectorInv, InjectorTypeOK, PhasesOK, Victim, Busy
<1>3. StopsAreUnderWay'
  BY <1>2 DEF InjectorInv, StopsAreUnderWay, Victim
<1>4. QED
  BY <1>1, <1>3 DEF InjectorInv

\* Answering ends the phases of a call and fills its response.
LEMMA ReplyPhases ==
    ASSUME InjectorInv, NEW c \in Call, NEW code \in {200, 403, 500}, NEW ok \in BOOLEAN,
           phase[c] \in Busy, Reply(c, code, ok), UNCHANGED <<kind, name, queue>>,
           command' \in [Call -> {"none", "begun", "done", "refused"}],
           \A d \in Call \ {c} : command'[d] = command[d]
    PROVE  InjectorTypeOK' /\ PhasesOK'
<1>1. InjectorTypeOK'
  <2> USE DEF InjectorInv, InjectorTypeOK
  <2>1. phase' \in [Call -> {"unsent", "queued", "replied"} \union Busy]
    BY DEF Reply
  <2>2. status' \in [Call -> {0, 200, 403, 500}]
    BY DEF Reply
  <2>3. accepted' \in [Call -> BOOLEAN]
    BY DEF Reply
  <2>4. UNCHANGED <<kind, name, queue>>
    OBVIOUS
  <2>5. QED
    BY <2>1, <2>2, <2>3, <2>4
<1>2. /\ phase'[c] = "replied" /\ \A d \in Call \ {c} : phase'[d] = phase[d]
      /\ \A d \in Call \ {c} : status'[d] = status[d] /\ accepted'[d] = accepted[d]
  BY DEF InjectorInv, InjectorTypeOK, Reply
<1>3. \A d \in Call : Permitted(name[d])' <=> Permitted(name[d])
  BY DEF Permitted
<1>4. PhasesOK'
  <2> SUFFICES ASSUME NEW d \in Call
               PROVE  /\ (phase[d] \in Busy \union {"queued"} \/ command[d] # "none"
                             => Permitted(name[d]))'
                      /\ (phase[d] \in {"unsent", "queued", "getting", "commanding"}
                             => command[d] = "none")'
                      /\ (phase[d] \in {"awaiting", "exited"}
                             => kind[d] = "kill" /\ command[d] = "begun")'
                      /\ (phase[d] # "replied" => status[d] = 0 /\ ~accepted[d])'
    BY DEF PhasesOK
  <2>1. CASE d = c
    BY <1>2, <1>3, <2>1 DEF InjectorInv, PhasesOK, Busy
  <2>2. CASE d # c
    BY <1>2, <1>3, <2>2 DEF InjectorInv, PhasesOK, Busy
  <2>3. QED
    BY <2>1, <2>2
<1>5. QED
  BY <1>1, <1>4

LEMMA BusyVictim ==
    ASSUME InjectorInv, NEW c \in Call, phase[c] \in Busy
    PROVE  Victim(c) \in Target /\ Victim(c) \in Allowed
BY PermittedIsAllowed DEF InjectorInv, PhasesOK, Victim

LEMMA FoundInv == ASSUME InjectorInv, NEW c \in Call, Found(c) PROVE InjectorInv'
<1> USE DEF Found, daemonVars
<1>1. DaemonTypeOK' /\ InjectorTypeOK' /\ PhasesOK'
  BY DEF InjectorInv, InjectorTypeOK, DaemonTypeOK, PhasesOK, Busy
<1>2. phase[c] \in Busy /\ \A d \in Call \ {c} : phase'[d] = phase[d]
  BY DEF InjectorInv, InjectorTypeOK, Busy
<1>3. phase'[c] # "awaiting"
  BY DEF InjectorInv, InjectorTypeOK
<1>4. QED
  BY <1>1, <1>2, <1>3, CallInv

LEMMA StopBeginsInv == ASSUME InjectorInv, NEW c \in Call, StopBegins(c) PROVE InjectorInv'
<1>1. /\ phase[c] = "commanding" /\ phase[c] \in Busy
      /\ UNCHANGED <<queue, name, kind, status, accepted>>
  BY DEF StopBegins, Busy
<1>2. Victim(c) \in Target /\ container \in [Target -> ContainerState]
  BY <1>1, BusyVictim DEF InjectorInv, DaemonTypeOK
<1>3. DaemonTypeOK'
  <2>1. CASE UNCHANGED daemonVars
    BY <2>1 DEF InjectorInv, DaemonTypeOK, daemonVars
  <2>2. CASE StopRequest(Victim(c))
    <3>1. DaemonTypeOK /\ DaemonStep(Victim(c))
      BY <2>2 DEF InjectorInv, DaemonStep
    <3>2. QED
      BY <1>2, <3>1, DaemonType
  <2>3. QED
    BY <2>1, <2>2 DEF StopBegins
<1>4. \A t \in Target : container[t] = "stopping" => container'[t] = "stopping"
  BY <1>2 DEF StopBegins, StopRequest, Become, daemonVars
<1>5. container'[Victim(c)] \in {"stopping", "stopped"}
  BY <1>2 DEF StopBegins, StopRequest, Become, daemonVars
<1>6. /\ phase' = [phase EXCEPT ![c] = IF container'[Victim(c)] = "stopped"
                                       THEN "exited" ELSE "awaiting"]
      /\ command' = [command EXCEPT ![c] = "begun"]
      /\ kind[c] = "kill"
  BY DEF StopBegins
<1>7. InjectorTypeOK'
  BY <1>1, <1>6 DEF InjectorInv, InjectorTypeOK, Busy
<1>8. PhasesOK'
  BY <1>1, <1>6 DEF InjectorInv, InjectorTypeOK, PhasesOK, Busy
<1>9. phase'[c] = "awaiting" => container'[Victim(c)] = "stopping"
  BY <1>5, <1>6 DEF InjectorInv, InjectorTypeOK
<1>10. \A d \in Call \ {c} : phase'[d] = phase[d]
  BY <1>6 DEF InjectorInv, InjectorTypeOK
<1>11. QED
  BY <1>1, <1>3, <1>4, <1>7, <1>8, <1>9, <1>10, CallInv

\* What the four ways to answer have in common.
LEMMA AnswerInv ==
    ASSUME InjectorInv, NEW c \in Call, NEW code \in {200, 403, 500}, NEW ok \in BOOLEAN,
           phase[c] \in Busy, Reply(c, code, ok), UNCHANGED <<kind, name, queue, faults>>,
           UNCHANGED container \/ StartEffect(Victim(c)),
           command' \in [Call -> {"none", "begun", "done", "refused"}],
           \A d \in Call \ {c} : command'[d] = command[d]
    PROVE  InjectorInv'
<1>1. InjectorTypeOK' /\ PhasesOK'
  BY ReplyPhases
<1>2. Victim(c) \in Target
  BY BusyVictim
<1>3. DaemonTypeOK'
  <2>1. CASE UNCHANGED container
    BY <2>1 DEF InjectorInv, DaemonTypeOK
  <2>2. CASE StartEffect(Victim(c))
    BY <1>2, <2>2, DaemonType DEF InjectorInv
  <2>3. QED
    BY <2>1, <2>2
<1>4. \A t \in Target : container[t] = "stopping" => container'[t] = "stopping"
  BY <1>2, StartKeepsStopping DEF InjectorInv
<1>5. phase'[c] # "awaiting" /\ \A d \in Call \ {c} : phase'[d] = phase[d]
  BY DEF InjectorInv, InjectorTypeOK, Reply
<1>6. QED
  BY <1>1, <1>3, <1>4, <1>5, CallInv

LEMMA AnsweringInv ==
    ASSUME InjectorInv, NEW c \in Call,
           StopReturns(c) \/ StartReturns(c) \/ CallFails(c)
    PROVE  InjectorInv'
<1> USE DEF daemonVars
<1>1. command \in [Call -> {"none", "begun", "done", "refused"}]
  BY DEF InjectorInv, InjectorTypeOK
<1>2. CASE StopReturns(c)
  <2>1. phase[c] \in Busy
    BY <1>2 DEF StopReturns, StopDone, Busy
  <2>2. QED
    BY <1>1, <1>2, <2>1, AnswerInv DEF StopReturns
<1>3. CASE StartReturns(c)
  <2>1. phase[c] \in Busy
    BY <1>3 DEF StartReturns, Busy
  <2>2. QED
    BY <1>1, <1>3, <2>1, AnswerInv DEF StartReturns, StartCommand
<1>4. CASE NotFound(c)
  <2>1. phase[c] \in Busy
    BY <1>4 DEF NotFound, Busy
  <2>2. QED
    BY <1>1, <1>4, <2>1, AnswerInv DEF NotFound, RefusalAccepted
<1>5. CASE DaemonRefuses(c)
  <2>1. phase[c] \in Busy
    BY <1>5 DEF DaemonRefuses, Busy
  <2>2. \A d \in Call \ {c} : command'[d] = command[d]
    BY <1>1, <1>5 DEF DaemonRefuses
  <2>3. command' \in [Call -> {"none", "begun", "done", "refused"}]
    BY <1>1, <1>5 DEF DaemonRefuses
  <2>4. QED
    BY <1>5, <2>1, <2>2, <2>3, AnswerInv DEF DaemonRefuses, RefusalAccepted
<1>6. CASE DaemonUnreachable(c)
  <2>1. \A d \in Call \ {c} : command'[d] = command[d]
    BY <1>1, <1>6 DEF DaemonUnreachable
  <2>2. command' \in [Call -> {"none", "begun", "done", "refused"}]
    BY <1>1, <1>6 DEF DaemonUnreachable
  <2>3. UNCHANGED container \/ StartEffect(Victim(c))
    BY <1>6 DEF DaemonUnreachable, StartCommand
  <2>4. QED
    BY <1>6, <2>1, <2>2, <2>3, AnswerInv DEF DaemonUnreachable
<1>7. QED
  BY <1>2, <1>3, <1>4, <1>5, <1>6 DEF CallFails

LEMMA StepInjectorInv == ASSUME InjectorInv, InjectorStep PROVE InjectorInv'
<1>1. PICK c \in Call : Receive(c) \/ CallReturns(c) \/ CallFails(c)
  BY DEF InjectorStep
<1>2. QED
  BY <1>1, ReceiveInv, ThreadTakesInv, FoundInv, StopBeginsInv, AnsweringInv DEF CallReturns

(* Whatever moves the containers, a stop is told of the exit it waits for.     *)
LEMMA DaemonActsInv ==
    ASSUME InjectorInv, NEW t \in Target, DaemonActs(t)
    PROVE  InjectorInv'
<1> USE DEF DaemonActs
<1>0. DaemonTypeOK /\ DaemonStep(t)
  BY DEF InjectorInv
<1>1. DaemonTypeOK'
  BY <1>0, DaemonType
<1>2. InjectorTypeOK'
  BY DEF InjectorInv, InjectorTypeOK, Busy
<1>3. \A c \in Call : \/ phase'[c] = phase[c]
                      \/ phase[c] = "awaiting" /\ phase'[c] = "exited"
  BY DEF InjectorInv, InjectorTypeOK
<1>4. QueueOK'
  BY <1>3 DEF InjectorInv, InjectorTypeOK, QueueOK
<1>5. PhasesOK'
  BY <1>3 DEF InjectorInv, InjectorTypeOK, PhasesOK, Busy
<1>6. StopsAreUnderWay'
  <2> SUFFICES ASSUME NEW c \in Call, phase'[c] = "awaiting"
               PROVE  container'[Victim(c)'] = "stopping"
    BY DEF StopsAreUnderWay
  <2>1. phase[c] = "awaiting" /\ container'[Victim(c)] # "stopped" /\ Victim(c)' = Victim(c)
    BY DEF InjectorInv, InjectorTypeOK, Victim
  <2>2. Victim(c) \in Target /\ container[Victim(c)] = "stopping"
    BY <2>1, BusyVictim DEF InjectorInv, StopsAreUnderWay, Busy
  <2>3. QED
    <3>1. container'[Victim(c)] \in {"stopping", "stopped"}
      BY <1>0, <2>2, StoppingOnlyExits
    <3>2. QED
      BY <2>1, <3>1
<1>7. QED
  BY <1>1, <1>2, <1>4, <1>5, <1>6 DEF InjectorInv

(* The invariant of the injector: calls are queued once, hold only what passed *)
(* the check, and wait for an exit only while it is under way.                 *)
THEOREM InjectorInvariant == InjectorSpec => []InjectorInv
<1>1. InjectorInv /\ [InjectorNext]_<<daemonVars, injectorVars>> => InjectorInv'
  <2> SUFFICES ASSUME InjectorInv, [InjectorNext]_<<daemonVars, injectorVars>>
               PROVE  InjectorInv'
    OBVIOUS
  <2>1. CASE InjectorNext
    BY <2>1, StepInjectorInv, DaemonActsInv DEF InjectorNext
  <2>2. CASE UNCHANGED <<daemonVars, injectorVars>>
    BY <2>2 DEF InjectorInv, DaemonTypeOK, InjectorTypeOK, QueueOK, PhasesOK,
                StopsAreUnderWay, Victim, daemonVars, injectorVars
  <2>3. QED
    BY <2>1, <2>2
<1>2. QED
  BY <1>1, InitInjectorInv, PTL DEF InjectorSpec, AloneInit

(* _ALLOWED_TARGETS holds: on its own, the injector takes no container down    *)
(* that is not on the list, whatever names it is given.                        *)
THEOREM OnlyAllowedGoDown == InjectorSpec => []AllowListHolds
<1>1. DaemonInit /\ InjectorInit => AllowListHolds
  BY DEF DaemonInit, AllowListHolds
<1>2. InjectorInv /\ AllowListHolds /\ [InjectorNext]_<<daemonVars, injectorVars>>
        => AllowListHolds'
  <2> SUFFICES ASSUME InjectorInv, AllowListHolds,
                      [InjectorNext]_<<daemonVars, injectorVars>>,
                      NEW s \in Target \ Allowed
               PROVE  container'[s] = "serving"
    BY DEF AllowListHolds
  <2>1. container[s] = "serving" /\ container \in [Target -> ContainerState]
    BY DEF AllowListHolds, InjectorInv, DaemonTypeOK
  <2>2. CASE UNCHANGED container
    BY <2>1, <2>2
  <2>3. ASSUME NEW t \in Target, Boot(t) \/ Exit(t)
        PROVE  container'[s] = "serving"
    BY <2>1, <2>3 DEF Boot, Exit, Become
  <2>4. ASSUME NEW c \in Call, StopBegins(c)
        PROVE  container'[s] = "serving"
    <3>1. Victim(c) \in Allowed
      BY <2>4, BusyVictim DEF StopBegins, Busy
    <3>2. QED
      BY <2>1, <2>4, <3>1 DEF StopBegins, StopRequest, Become, daemonVars
  <2>5. ASSUME NEW c \in Call, phase[c] \in Busy, StartEffect(Victim(c))
        PROVE  container'[s] = "serving"
    <3>1. Victim(c) \in Allowed
      BY <2>5, BusyVictim
    <3>2. QED
      BY <2>1, <2>5, <3>1 DEF StartEffect, Become
  <2>6. ASSUME NEW c \in Call, StartReturns(c) \/ DaemonUnreachable(c)
        PROVE  container'[s] = "serving"
    BY <2>2, <2>5, <2>6 DEF StartReturns, DaemonUnreachable, StartCommand, Busy, daemonVars
  <2>7. ASSUME NEW c \in Call, \/ Receive(c) \/ ThreadTakes(c) \/ Found(c)
                               \/ StopReturns(c) \/ NotFound(c) \/ DaemonRefuses(c)
        PROVE  container'[s] = "serving"
    BY <2>2, <2>7 DEF Receive, ThreadTakes, Found, StopReturns, NotFound, DaemonRefuses,
                      daemonVars
  <2>8. QED
    BY <2>2, <2>3, <2>4, <2>6, <2>7
    DEF InjectorNext, InjectorStep, CallReturns, CallFails, daemonVars
<1>3. QED
  BY <1>1, <1>2, InjectorInvariant, PTL DEF InjectorSpec, AloneInit

\* The part of AnswerIsTrue that is about one call.
TruthOf(c) ==
    /\ accepted[c] => status[c] = 200 /\ command[c] = "done"
    /\ status[c] = 200 /\ ~accepted[c] => command[c] \in {"none", "refused"}
    /\ status[c] = 403 => command[c] = "none" /\ ~Permitted(name[c])

LEMMA InjectorStepTruth ==
    ASSUME InjectorInv, AnswerIsTrue, InjectorStep
    PROVE  AnswerIsTrue'
<1> SUFFICES ASSUME NEW d \in Call PROVE TruthOf(d)'
  BY DEF AnswerIsTrue, TruthOf
<1> USE DEF InjectorInv, InjectorTypeOK, TruthOf
<1>1. TruthOf(d) /\ (phase[d] # "replied" => status[d] = 0 /\ ~accepted[d])
  BY DEF AnswerIsTrue, PhasesOK
<1>2. PICK c \in Call : Receive(c) \/ CallReturns(c) \/ CallFails(c)
  BY DEF InjectorStep
<1>3. CASE d # c
  <2>1. UNCHANGED <<status[d], accepted[d], command[d], name[d]>>
    <3>1. CASE Receive(c)
      BY <1>3, <3>1 DEF Receive, Reply
    <3>2. CASE CallReturns(c)
      BY <1>3, <3>2 DEF CallReturns, ThreadTakes, Found, StopBegins, StopReturns,
                        StartReturns, Reply
    <3>3. CASE CallFails(c)
      BY <1>3, <3>3 DEF CallFails, NotFound, DaemonRefuses, DaemonUnreachable, Reply
    <3>4. QED
      BY <1>2, <3>1, <3>2, <3>3
  <2>2. QED
    BY <1>1, <2>1
<1>4. CASE d = c /\ Receive(c)
  BY <1>1, <1>4 DEF Receive, Reply, PhasesOK
<1>5. CASE d = c /\ (ThreadTakes(c) \/ Found(c) \/ StopBegins(c))
  BY <1>1, <1>5 DEF ThreadTakes, Found, StopBegins, PhasesOK, QueueOK
<1>6. CASE d = c /\ (StopReturns(c) \/ StartReturns(c))
  BY <1>6 DEF StopReturns, StartReturns, Reply
<1>7. CASE d = c /\ (NotFound(c) \/ DaemonRefuses(c))
  BY <1>7 DEF NotFound, DaemonRefuses, Reply, RefusalAccepted, PhasesOK
<1>8. CASE d = c /\ DaemonUnreachable(c)
  BY <1>8 DEF DaemonUnreachable, Reply
<1>9. QED
  BY <1>2, <1>3, <1>4, <1>5, <1>6, <1>7, <1>8 DEF CallReturns, CallFails

\* Truth is about what the injector knows of its calls and of nothing else.
LEMMA TruthKept ==
    ASSUME AnswerIsTrue, UNCHANGED <<status, accepted, command, name>>
    PROVE  AnswerIsTrue'
BY DEF AnswerIsTrue

(* What a client is told of its call is true: accepted means done, and a 403   *)
(* means that no container was touched.                                        *)
THEOREM AnswersAreTrue == InjectorSpec => []AnswerIsTrue
<1>1. DaemonInit /\ InjectorInit => AnswerIsTrue
  BY DEF InjectorInit, AnswerIsTrue
<1>2. InjectorInv /\ AnswerIsTrue /\ [InjectorNext]_<<daemonVars, injectorVars>>
        => AnswerIsTrue'
  BY InjectorStepTruth, TruthKept DEF InjectorNext, DaemonActs, injectorVars
<1>3. QED
  BY <1>1, <1>2, InjectorInvariant, PTL DEF InjectorSpec, AloneInit

\* The strengthening of KillSticks: it holds as soon as the stop has been told.
KillInv == \A c \in Call : Killed(c) \/ phase[c] = "exited" => DownUntilStarted(c)

\* A restart that was carried out stays carried out.
LEMMA StartedForGood ==
    ASSUME InjectorInv, InjectorNext, NEW e \in Call,
           kind[e] = "restart", command[e] \in {"begun", "done"}
    PROVE  kind'[e] = "restart" /\ command'[e] = command[e] /\ Victim(e)' = Victim(e)
<1>1. phase[e] = "replied"
  BY DEF InjectorInv, InjectorTypeOK, PhasesOK, Busy
<1>2. ASSUME NEW c \in Call, Receive(c) \/ CallReturns(c) \/ CallFails(c)
      PROVE  kind'[e] = "restart" /\ command'[e] = command[e] /\ name'[e] = name[e]
  <2> USE <1>1 DEF InjectorInv, InjectorTypeOK
  <2>1. CASE Receive(c)
    BY <2>1 DEF Receive
  <2>2. CASE ThreadTakes(c) \/ Found(c) \/ StopBegins(c) \/ NotFound(c)
    BY <2>2 DEF ThreadTakes, Found, StopBegins, NotFound
  <2>3. CASE StopReturns(c) \/ StartReturns(c)
    <3>1. c # e
      BY <2>3 DEF StopReturns, StopDone, StartReturns
    <3>2. command' = [command EXCEPT ![c] = "done"] /\ UNCHANGED <<kind, name>>
      <4>1. CASE StopReturns(c)
        BY <4>1 DEF StopReturns
      <4>2. CASE StartReturns(c)
        BY <4>2 DEF StartReturns
      <4>3. QED
        BY <2>3, <4>1, <4>2
    <3>3. command'[e] = command[e]
      BY <3>1, <3>2
    <3>4. QED
      BY <3>2, <3>3
  <2>4. CASE DaemonRefuses(c) \/ DaemonUnreachable(c)
    <3>1. phase[c] \in Busy /\ UNCHANGED <<kind, name>>
      BY <2>4 DEF DaemonRefuses, DaemonUnreachable, Busy
    <3>2. c # e
      BY <3>1 DEF Busy
    <3>3. \/ command' = command
          \/ command' = [command EXCEPT ![c] = "begun"]
          \/ command' = [command EXCEPT ![c] = "refused"]
      <4>1. CASE DaemonRefuses(c)
        BY <4>1 DEF DaemonRefuses
      <4>2. CASE DaemonUnreachable(c)
        BY <4>2 DEF DaemonUnreachable
      <4>3. QED
        BY <2>4, <4>1, <4>2
    <3>4. command'[e] = command[e]
      BY <3>2, <3>3
    <3>5. QED
      BY <3>1, <3>4
  <2>5. QED
    BY <1>2, <2>1, <2>2, <2>3, <2>4 DEF CallReturns, CallFails
<1>3. ASSUME NEW t \in Target, DaemonActs(t)
      PROVE  kind'[e] = "restart" /\ command'[e] = command[e] /\ name'[e] = name[e]
  BY <1>3 DEF DaemonActs
<1>4. QED
  BY <1>2, <1>3 DEF InjectorNext, InjectorStep, Victim

\* The name of a call is settled when it arrives.
LEMMA NameKept ==
    ASSUME InjectorInv, InjectorNext, NEW d \in Call, phase[d] # "unsent"
    PROVE  Victim(d)' = Victim(d)
<1>1. ASSUME NEW c \in Call, Receive(c)
      PROVE  name'[d] = name[d]
  BY <1>1 DEF Receive, InjectorInv, InjectorTypeOK
<1>2. ASSUME NEW c \in Call, CallReturns(c) \/ CallFails(c)
      PROVE  name' = name
  BY <1>2 DEF CallReturns, CallFails, ThreadTakes, Found, StopBegins, StopReturns,
              StartReturns, NotFound, DaemonRefuses, DaemonUnreachable
<1>3. QED
  BY <1>1, <1>2 DEF InjectorNext, InjectorStep, DaemonActs, Victim

\* Nothing but a restart through the injector brings a stopped container back.
LEMMA StoppedStays ==
    ASSUME InjectorInv, InjectorNext, NEW s \in Target, container[s] = "stopped"
    PROVE  \/ container'[s] = "stopped"
           \/ \E e \in Call : /\ kind'[e] = "restart" /\ Victim(e)' = s
                              /\ command'[e] \in {"begun", "done"}
<1> DEFINE Started == \E e \in Call : /\ kind'[e] = "restart" /\ Victim(e)' = s
                                      /\ command'[e] \in {"begun", "done"}
<1>1. container \in [Target -> ContainerState]
  BY DEF InjectorInv, DaemonTypeOK
<1>2. CASE UNCHANGED container
  BY <1>2
<1>3. ASSUME NEW t \in Target, Boot(t) \/ Exit(t)
      PROVE  container'[s] = "stopped"
  BY <1>1, <1>3 DEF Boot, Exit, Become
<1>4. ASSUME NEW c \in Call, StopBegins(c)
      PROVE  container'[s] = "stopped"
  <2>1. Victim(c) \in Target
    BY <1>4, BusyVictim DEF StopBegins, Busy
  <2>2. QED
    BY <1>1, <1>4, <2>1 DEF StopBegins, StopRequest, Become, daemonVars
<1>5. ASSUME NEW c \in Call, phase[c] \in Busy, StartEffect(Victim(c)), kind'[c] = "restart",
             command'[c] \in {"begun", "done"}, UNCHANGED name
      PROVE  container'[s] = "stopped" \/ Started
  <2>1. Victim(c) \in Target /\ Victim(c)' = Victim(c)
    BY <1>5, BusyVictim DEF Victim
  <2>2. CASE Victim(c) = s
    BY <1>5, <2>1, <2>2
  <2>3. CASE Victim(c) # s
    BY <1>1, <1>5, <2>1, <2>3 DEF StartEffect, Become
  <2>4. QED
    BY <2>2, <2>3
<1>6. ASSUME NEW c \in Call, StartReturns(c) \/ DaemonUnreachable(c)
      PROVE  container'[s] = "stopped" \/ Started
  <2>1. CASE UNCHANGED container
    BY <1>2, <2>1
  <2>2. CASE ~UNCHANGED container
    <3>1. /\ phase[c] \in Busy /\ StartEffect(Victim(c)) /\ UNCHANGED <<kind, name>>
          /\ kind[c] = "restart" /\ command'[c] \in {"begun", "done"}
      <4>0. command \in [Call -> {"none", "begun", "done", "refused"}]
        BY DEF InjectorInv, InjectorTypeOK
      <4>1. CASE StartReturns(c)
        BY <4>0, <4>1 DEF StartReturns, StartCommand, Busy
      <4>2. CASE DaemonUnreachable(c)
        BY <2>2, <4>0, <4>2 DEF DaemonUnreachable, StartCommand
      <4>3. QED
        BY <1>6, <4>1, <4>2
    <3>2. QED
      BY <1>5, <3>1
  <2>3. QED
    BY <2>1, <2>2
<1>7. ASSUME NEW c \in Call, \/ Receive(c) \/ ThreadTakes(c) \/ Found(c)
                             \/ StopReturns(c) \/ NotFound(c) \/ DaemonRefuses(c)
      PROVE  container'[s] = "stopped"
  BY <1>2, <1>7 DEF Receive, ThreadTakes, Found, StopReturns, NotFound, DaemonRefuses,
                    daemonVars
<1>8. QED
  BY <1>3, <1>4, <1>6, <1>7 DEF InjectorNext, InjectorStep, CallReturns, CallFails

LEMMA DownStays ==
    ASSUME InjectorInv, InjectorNext, NEW d \in Call, DownUntilStarted(d),
           Victim(d) \in Target, Victim(d)' = Victim(d)
    PROVE  DownUntilStarted(d)'
<1>1. CASE container[Victim(d)] = "stopped"
  <2> DEFINE s == Victim(d)
  <2>1. \/ container'[s] = "stopped"
        \/ \E e \in Call : /\ kind'[e] = "restart" /\ Victim(e)' = s
                           /\ command'[e] \in {"begun", "done"}
    BY <1>1, StoppedStays
  <2>2. QED
    BY <2>1 DEF DownUntilStarted
<1>2. ASSUME NEW e \in Call, kind[e] = "restart", Victim(e) = Victim(d),
             command[e] \in {"begun", "done"}
      PROVE  DownUntilStarted(d)'
  BY <1>2, StartedForGood DEF DownUntilStarted
<1>3. QED
  BY <1>1, <1>2 DEF DownUntilStarted

\* A call is killed or told of the exit in this step, or was before.
LEMMA ToldOnce ==
    ASSUME InjectorInv, InjectorNext, NEW d \in Call, (Killed(d) \/ phase[d] = "exited")'
    PROVE  \/ Killed(d) \/ phase[d] = "exited"
           \/ container'[Victim(d)'] = "stopped"
<1> USE DEF InjectorInv, InjectorTypeOK, Killed
<1>1. CASE \E t \in Target : DaemonActs(t)
  BY <1>1 DEF DaemonActs, Victim
<1>2. ASSUME NEW c \in Call, c # d, Receive(c) \/ CallReturns(c) \/ CallFails(c)
      PROVE  Killed(d) \/ phase[d] = "exited"
  BY <1>2 DEF Receive, CallReturns, CallFails, ThreadTakes, Found, StopBegins, StopReturns,
              StartReturns, NotFound, DaemonRefuses, DaemonUnreachable, Reply
<1>3. CASE StopBegins(d)
  BY <1>3 DEF StopBegins, Victim, PhasesOK
<1>4. CASE StopReturns(d)
  BY <1>4 DEF StopReturns, StopDone
<1>5. CASE Receive(d) \/ ThreadTakes(d) \/ Found(d) \/ StartReturns(d)
  BY <1>5 DEF Receive, ThreadTakes, Found, StartReturns, Reply, PhasesOK
<1>6. CASE CallFails(d)
  BY <1>6 DEF CallFails, NotFound, DaemonRefuses, DaemonUnreachable, Reply, RefusalAccepted
<1>7. QED
  BY <1>1, <1>2, <1>3, <1>4, <1>5, <1>6 DEF InjectorNext, InjectorStep, CallReturns

(* An accepted kill took the container down, and only a restart brings it back:*)
(* no stop is reported done before its container has exited.                   *)
THEOREM KillsStick == InjectorSpec => []KillSticks
<1>1. DaemonInit /\ InjectorInit => KillInv
  BY DEF InjectorInit, KillInv, Killed
<1>2. InjectorInv /\ AnswerIsTrue /\ KillInv /\ [InjectorNext]_<<daemonVars, injectorVars>>
        => KillInv'
  <2>1. ASSUME KillInv, UNCHANGED <<daemonVars, injectorVars>>
        PROVE  KillInv'
    BY <2>1 DEF KillInv, Killed, DownUntilStarted, Victim, daemonVars, injectorVars
  <2>2. ASSUME InjectorInv, AnswerIsTrue, KillInv, InjectorNext
        PROVE  KillInv'
    <3> SUFFICES ASSUME NEW d \in Call, (Killed(d) \/ phase[d] = "exited")'
                 PROVE  DownUntilStarted(d)'
      BY DEF KillInv
    <3>1. CASE container'[Victim(d)'] = "stopped"
      BY <3>1 DEF DownUntilStarted
    <3>2. CASE Killed(d) \/ phase[d] = "exited"
      <4>1. DownUntilStarted(d)
        BY <2>2, <3>2 DEF KillInv
      <4>2. phase[d] # "unsent" /\ Permitted(name[d])
        BY <2>2, <3>2 DEF InjectorInv, PhasesOK, AnswerIsTrue, Killed, Busy
      <4>3. Victim(d) \in Target /\ Victim(d)' = Victim(d)
        BY <2>2, <4>2, NameKept, PermittedIsAllowed DEF Victim
      <4>4. QED
        BY <2>2, <4>1, <4>2, <4>3, DownStays
    <3>3. QED
      BY <2>2, <3>1, <3>2, ToldOnce
  <2>3. QED
    BY <2>1, <2>2
<1>3. KillInv => KillSticks
  BY DEF KillInv, KillSticks
<1>4. QED
  BY <1>1, <1>2, <1>3, InjectorInvariant, AnswersAreTrue, PTL DEF InjectorSpec, AloneInit

------------------------------------------------------------------------------
(*                               ControlPlane                                  *)

\* Docker commands of the injector are steps the watcher's environment may take.
LEMMA StopIsEnvironment ==
    ASSUME NEW c \in Call, Victim(c) \in Target, StopBegins(c), UNCHANGED watcherVars
    PROVE  [Next]_vars
<1>1. CASE UNCHANGED daemonVars
  BY <1>1 DEF daemonVars, watcherVars, vars
<1>2. CASE StopRequest(Victim(c))
  BY <1>2 DEF Next, Environment, DaemonStep
<1>3. QED
  BY <1>1, <1>2 DEF StopBegins

LEMMA StartIsEnvironment ==
    ASSUME NEW t \in Target, StartCommand(t), UNCHANGED faults, UNCHANGED watcherVars
    PROVE  [Next]_vars
<1>1. CASE UNCHANGED container
  BY <1>1 DEF watcherVars, vars
<1>2. CASE container[t] = "stopped" /\ Become(t, "booting")
  <2>1. OperatorStart(t)
    BY <1>2 DEF OperatorStart
  <2>2. QED
    BY <2>1 DEF Next, Environment, DaemonStep
<1>3. QED
  BY <1>1, <1>2 DEF StartCommand, StartEffect

LEMMA InjectorIsEnvironment ==
    ASSUME InjectorInv, InjectorStep, UNCHANGED watcherVars
    PROVE  [Next]_vars
<1>1. PICK c \in Call : Receive(c) \/ CallReturns(c) \/ CallFails(c)
  BY DEF InjectorStep
<1>2. CASE UNCHANGED <<container, faults>>
  BY <1>2 DEF watcherVars, vars
<1>3. CASE StopBegins(c)
  <2>1. Victim(c) \in Target
    BY <1>3, BusyVictim DEF StopBegins, Busy
  <2>2. QED
    BY <1>3, <2>1, StopIsEnvironment
<1>4. CASE StartReturns(c) \/ (DaemonUnreachable(c) /\ ~UNCHANGED container)
  <2>1. phase[c] \in Busy /\ StartCommand(Victim(c)) /\ UNCHANGED faults
    BY <1>4 DEF StartReturns, DaemonUnreachable, Busy
  <2>2. Victim(c) \in Target
    BY <2>1, BusyVictim
  <2>3. QED
    BY <2>1, <2>2, StartIsEnvironment
<1>5. CASE DaemonUnreachable(c) /\ UNCHANGED container
  BY <1>2, <1>5 DEF DaemonUnreachable
<1>6. CASE \/ Receive(c) \/ ThreadTakes(c) \/ Found(c)
           \/ StopReturns(c) \/ NotFound(c) \/ DaemonRefuses(c)
  BY <1>2, <1>6 DEF Receive, ThreadTakes, Found, StopReturns, NotFound, DaemonRefuses,
                    daemonVars
<1>7. QED
  BY <1>1, <1>3, <1>4, <1>5, <1>6 DEF CallReturns, CallFails

\* All the watcher does to containers is to start one.
LEMMA WatcherStarts ==
    ASSUME WatcherStep \/ RequestStop
    PROVE  \/ UNCHANGED container /\ faults' \in {faults, faults + 1}
                                  /\ (faults' # faults => faults < MaxFaults)
           \/ \E t \in Target : StartEffect(t) /\ UNCHANGED faults
<1>0. CASE DockerMissing
  BY <1>0 DEF DockerMissing, Fault
<1>1. CASE Poll \/ BackoffEnds \/ EndTick \/ Leave \/ RequestStop
  BY <1>1 DEF Poll, BackoffEnds, EndTick, Leave, RequestStop
<1>2. ASSUME NEW t \in Target, \/ ProbeAnswer(t) \/ HandleOk(t) \/ HandleFailure(t)
                               \/ Escalate(t) \/ RecordEvent(t)
      PROVE  UNCHANGED <<container, faults>>
  BY <1>2 DEF ProbeAnswer, HandleOk, HandleFailure, Escalate, RecordEvent
<1>3. ASSUME NEW t \in Target, DockerStart(t)
      PROVE  \/ UNCHANGED container /\ faults' = faults + 1 /\ faults < MaxFaults
             \/ StartEffect(t) /\ UNCHANGED faults
  BY <1>3 DEF DockerStart, Fault
<1>4. QED
  BY <1>0, <1>1, <1>2, <1>3 DEF WatcherStep

LEMMA WatcherActsInv == ASSUME InjectorInv, WatcherActs PROVE InjectorInv'
<1>1. UNCHANGED injectorVars
  BY DEF WatcherActs
<1>2. InjectorTypeOK' /\ QueueOK' /\ PhasesOK'
  BY <1>1 DEF InjectorInv, InjectorTypeOK, QueueOK, PhasesOK, injectorVars
<1>3. /\ DaemonTypeOK'
      /\ \A s \in Target : container[s] = "stopping" => container'[s] = "stopping"
  <2>1. CASE UNCHANGED container /\ faults' \in {faults, faults + 1}
                                 /\ (faults' # faults => faults < MaxFaults)
    BY <2>1, MaxFaultsAssumption DEF InjectorInv, DaemonTypeOK
  <2>2. ASSUME NEW t \in Target, StartEffect(t), UNCHANGED faults
        PROVE  /\ DaemonTypeOK'
               /\ \A s \in Target : container[s] = "stopping" => container'[s] = "stopping"
    <3>1. DaemonTypeOK
      BY DEF InjectorInv
    <3>2. DaemonTypeOK'
      BY <2>2, <3>1, DaemonType
    <3>3. QED
      BY <2>2, <3>1, <3>2, StartKeepsStopping
  <2>3. QED
    BY <2>1, <2>2, WatcherStarts DEF WatcherActs
<1>4. StopsAreUnderWay'
  <2> SUFFICES ASSUME NEW c \in Call, phase[c] = "awaiting"
               PROVE  container'[Victim(c)] = "stopping"
    BY <1>1 DEF StopsAreUnderWay, Victim, injectorVars
  <2>1. Victim(c) \in Target
    BY BusyVictim DEF Busy
  <2>2. QED
    BY <1>3, <2>1 DEF InjectorInv, StopsAreUnderWay
<1>5. QED
  BY <1>2, <1>3, <1>4 DEF InjectorInv

(* The injector's invariant holds beside the watcher: a stop that is awaited   *)
(* is still under way, whatever containers the watcher starts.                 *)
THEOREM InjectorBesideWatcher == ControlSpec => []InjectorInv
<1>1. ControlInit => InjectorInv
  BY InitInjectorInv DEF ControlInit, Init
<1>2. InjectorInv /\ [ControlNext]_controlVars => InjectorInv'
  <2> SUFFICES ASSUME InjectorInv, [ControlNext]_controlVars PROVE InjectorInv'
    OBVIOUS
  <2>1. CASE WatcherActs
    BY <2>1, WatcherActsInv
  <2>2. CASE InjectorActs
    BY <2>2, StepInjectorInv DEF InjectorActs
  <2>3. CASE ContainersMove
    BY <2>3, DaemonActsInv DEF ContainersMove
  <2>4. CASE UNCHANGED controlVars
    BY <2>4 DEF controlVars, vars, InjectorInv, DaemonTypeOK, InjectorTypeOK, QueueOK,
                PhasesOK, StopsAreUnderWay, Victim, injectorVars
  <2>5. QED
    BY <2>1, <2>2, <2>3, <2>4 DEF ControlNext
<1>3. QED
  BY <1>1, <1>2, PTL DEF ControlSpec

(* To the watcher the injector is a part of the environment it was verified    *)
(* in: the composition implements RecoveryWatcher.                             *)
THEOREM WatcherBesideInjector == ControlSpec => WatcherUndisturbed
<1>1. InjectorInv /\ [ControlNext]_controlVars => [Next]_vars
  <2> SUFFICES ASSUME InjectorInv, [ControlNext]_controlVars PROVE [Next]_vars
    OBVIOUS
  <2>1. CASE WatcherActs
    BY <2>1 DEF WatcherActs, Next
  <2>2. CASE InjectorActs
    BY <2>2, InjectorIsEnvironment DEF InjectorActs
  <2>3. CASE ContainersMove
    BY <2>3 DEF ContainersMove, DaemonActs, Next, Environment
  <2>4. CASE UNCHANGED controlVars
    BY <2>4 DEF controlVars
  <2>5. QED
    BY <2>1, <2>2, <2>3, <2>4 DEF ControlNext
<1>2. QED
  BY <1>1, InjectorBesideWatcher, PTL DEF ControlSpec, ControlInit, WatcherUndisturbed

(* What was proved of the watcher holds beside the injector: it recovers a     *)
(* target exactly when it missed Limit probes in a row, however many kills and *)
(* restarts cross its recoveries.                                              *)
THEOREM EscalationBesideInjector ==
    ControlSpec => [](EscalatesOnlyAfterThreshold /\ DetectsWithinThreshold)
<1>1. WatcherUndisturbed => []IInv
  BY InitIInv, StepIInv, PTL DEF WatcherUndisturbed
<1>2. IInv => EscalatesOnlyAfterThreshold /\ DetectsWithinThreshold
  BY DEF IInv, TypeOK, CountLink, Recovering, RecoveringLink, Unhandled,
         EscalatesOnlyAfterThreshold, DetectsWithinThreshold
<1>3. QED
  BY <1>1, <1>2, WatcherBesideInjector, PTL

(* The supervision contract too: whatever the injector does to the containers, *)
(* the watcher restarts exactly what missed Limit probes, and before another.  *)
THEOREM ContractBesideInjector == ControlSpec => Contract!Safety
<1>1. Init => Contract!Init
  BY DEF Init, DaemonInit, Contract!Init
<1>2. WatcherUndisturbed => []IInv
  BY InitIInv, StepIInv, PTL DEF WatcherUndisturbed
<1>3. QED
  BY <1>1, <1>2, ContractStep, WatcherBesideInjector, PTL
  DEF WatcherUndisturbed, Contract!Safety

(* Answers stay true beside the watcher and the operators: whoever starts the  *)
(* container of a call meanwhile, an accepted call was carried out.            *)
THEOREM AnswersBesideWatcher == ControlSpec => []AnswerIsTrue
<1>1. ControlInit => AnswerIsTrue
  BY DEF ControlInit, InjectorInit, AnswerIsTrue
<1>2. InjectorInv /\ AnswerIsTrue /\ [ControlNext]_controlVars => AnswerIsTrue'
  <2> SUFFICES ASSUME InjectorInv, AnswerIsTrue, [ControlNext]_controlVars
               PROVE  AnswerIsTrue'
    OBVIOUS
  <2>1. CASE InjectorActs
    BY <2>1, InjectorStepTruth DEF InjectorActs
  <2>2. CASE WatcherActs \/ ContainersMove \/ UNCHANGED controlVars
    BY <2>2, TruthKept DEF WatcherActs, ContainersMove, DaemonActs, controlVars, injectorVars
  <2>3. QED
    BY <2>1, <2>2 DEF ControlNext
<1>3. QED
  BY <1>1, <1>2, InjectorBesideWatcher, PTL DEF ControlSpec
==============================================================================
