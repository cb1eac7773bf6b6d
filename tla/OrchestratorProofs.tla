--------------------------- MODULE OrchestratorProofs ---------------------------
(* For any set of services, number of attempts and number of crashes: what the *)
(* orchestrator may say of the stack it started, watched and took down.        *)
EXTENDS Orchestrator, TLAPS

USE AttemptsAssumption, MaxCrashesAssumption

------------------------------------------------------------------------------
(* The parts of the inductive invariant.                                       *)

\* An exit status is decided on only when the stack is done with.
CodeOK ==
    /\ pc \in {"up", "waiting", "watching"} => code = "none"
    /\ pc = "down" => code \in {"zero", "one", "exception"}
    /\ code = "zero" => stop

\* docker compose down is run where the flags ask for it, and only there.
DownIsWanted == pc = "down" => opts.tear_down

\* A probe of this cycle that was answered found a container, which is still there.
AnswersHold == pc = "waiting" => \A t \in Service : answer[t] = "ok" => Up(t)

IInv ==
    /\ TypeOK
    /\ CodeOK
    /\ DownIsWanted
    /\ AnswersHold
    /\ WatchedStackExists
    /\ ZeroIsEarned

LEMMA InitIInv == Init => IInv
<1> SUFFICES ASSUME Init PROVE IInv
  OBVIOUS
<1>1. TypeOK
  <2>1. pc \in {"up", "waiting"}
    BY DEF Init
  <2>2. answer \in [Service -> {"none", "ok", "fail"}]
    BY DEF Init, Unasked
  <2>3. crashes \in 0..MaxCrashes /\ attempt \in 1..Attempts
    BY DEF Init
  <2>4. QED
    BY <2>1, <2>2, <2>3 DEF Init, TypeOK
<1>2. CodeOK /\ DownIsWanted /\ WatchedStackExists /\ ZeroIsEarned
  BY DEF Init, CodeOK, DownIsWanted, WatchedStackExists, ZeroIsEarned
<1>3. AnswersHold
  BY DEF Init, AnswersHold, Unasked
<1>4. QED
  BY <1>1, <1>2, <1>3 DEF IInv

------------------------------------------------------------------------------
(* What happens to the containers.                                             *)

\* Of all that moves a container, only `docker compose down` removes it.
LEMMA OnlyDownRemoves ==
    ASSUME TypeOK, [Next]_vars, NEW t \in Service, Up(t), ~Up(t)'
    PROVE  ComposeRemoves(t)
<1>1. service' # service
  BY DEF Up
<1>2. PICK s \in Service : \/ ComposeCreates(s) \/ ComposeRemoves(s)
                           \/ Boot(s) \/ CrashAndRelaunch(s)
  BY <1>1 DEF Next, OrchestratorStep, vars, ComposeUpReturns, ComposeUpFails, CycleHealthy,
              CycleUnhealthy, AttemptsExhausted, WatcherReturns, WatcherRaises,
              ComposeDownReturns, ComposeDownFails, Signal, Probe
<1>3. \E v \in {"booting", "serving", "absent"} : service' = [service EXCEPT ![s] = v]
  BY <1>2 DEF ComposeCreates, ComposeRemoves, Boot, CrashAndRelaunch
<1>4. s = t
  BY <1>3 DEF Up, TypeOK
<1>5. CASE ComposeRemoves(s)
  BY <1>4, <1>5
<1>6. CASE ComposeCreates(s) \/ Boot(s) \/ CrashAndRelaunch(s)
  BY <1>4, <1>6 DEF ComposeCreates, Boot, CrashAndRelaunch, Up, TypeOK
<1>7. QED
  BY <1>2, <1>5, <1>6

\* Nothing but `docker compose up` makes a container that was not there.
LEMMA OnlyUpCreates ==
    ASSUME TypeOK, [Next]_vars, pc # "up", NEW t \in Service, ~Up(t)
    PROVE  ~Up(t)'
<1>1. CASE UNCHANGED service
  BY <1>1 DEF Up
<1>2. CASE \E s \in Service : \/ ComposeCreates(s) \/ ComposeRemoves(s)
                              \/ Boot(s) \/ CrashAndRelaunch(s)
  BY <1>2 DEF ComposeCreates, ComposeRemoves, Boot, CrashAndRelaunch, Up, TypeOK
<1>3. QED
  BY <1>1, <1>2
  DEF Next, OrchestratorStep, vars, ComposeUpReturns, ComposeUpFails, CycleHealthy,
      CycleUnhealthy, AttemptsExhausted, WatcherReturns, WatcherRaises,
      ComposeDownReturns, ComposeDownFails, Signal, Probe

------------------------------------------------------------------------------
(* Each part of the invariant is kept by every step.                           *)

LEMMA StepTypeOK == ASSUME TypeOK, [Next]_vars PROVE TypeOK'
<1>1. CASE ComposeUpReturns \/ CycleHealthy
  BY <1>1 DEF TypeOK, ComposeUpReturns, CycleHealthy
<1>2. CASE ComposeUpFails \/ WatcherReturns \/ WatcherRaises
  BY <1>2 DEF TypeOK, ComposeUpFails, WatcherReturns, WatcherRaises, Finish, Exit
<1>3. CASE CycleUnhealthy
  BY <1>3 DEF TypeOK, CycleUnhealthy, AttemptsLeft, NextAttempt, Unasked
<1>4. CASE AttemptsExhausted
  BY <1>4 DEF TypeOK, AttemptsExhausted
<1>5. CASE ComposeDownReturns \/ ComposeDownFails
  BY <1>5 DEF TypeOK, ComposeDownReturns, ComposeDownFails, Exit
<1>6. CASE Signal
  BY <1>6 DEF TypeOK, Signal, Exit
<1>7. ASSUME NEW t \in Service, ComposeCreates(t) \/ ComposeRemoves(t) \/ Boot(t)
      PROVE  TypeOK'
  BY <1>7 DEF TypeOK, ComposeCreates, ComposeRemoves, Boot
<1>8. ASSUME NEW t \in Service, Probe(t)
      PROVE  TypeOK'
  BY <1>8 DEF TypeOK, Probe
<1>9. ASSUME NEW t \in Service, CrashAndRelaunch(t)
      PROVE  TypeOK'
  BY <1>9 DEF TypeOK, CrashAndRelaunch
<1>10. CASE UNCHANGED vars
  BY <1>10 DEF TypeOK, vars
<1>11. QED
  BY <1>1, <1>2, <1>3, <1>4, <1>5, <1>6, <1>7, <1>8, <1>9, <1>10
  DEF Next, OrchestratorStep

LEMMA StepCodeOK ==
    ASSUME CodeOK, DownIsWanted, [Next]_vars
    PROVE  CodeOK' /\ DownIsWanted'
<1> USE DEF CodeOK, DownIsWanted
<1>1. CASE ComposeUpReturns \/ CycleHealthy \/ CycleUnhealthy
  BY <1>1 DEF ComposeUpReturns, CycleHealthy, CycleUnhealthy
<1>2. CASE ComposeUpFails \/ ComposeDownReturns \/ ComposeDownFails
  BY <1>2 DEF ComposeUpFails, ComposeDownReturns, ComposeDownFails, Exit
<1>3. CASE AttemptsExhausted
  BY <1>3 DEF AttemptsExhausted, TearsDown
<1>4. CASE WatcherReturns \/ WatcherRaises
  BY <1>4 DEF WatcherReturns, WatcherRaises, Finish, TearsDown, Exit
<1>5. CASE Signal
  BY <1>5 DEF Signal, Exit
<1>6. ASSUME NEW t \in Service,
             ComposeCreates(t) \/ Probe(t) \/ ComposeRemoves(t) \/ Boot(t) \/ CrashAndRelaunch(t)
      PROVE  CodeOK' /\ DownIsWanted'
  BY <1>6 DEF ComposeCreates, Probe, ComposeRemoves, Boot, CrashAndRelaunch
<1>7. CASE UNCHANGED vars
  BY <1>7 DEF vars
<1>8. QED
  BY <1>1, <1>2, <1>3, <1>4, <1>5, <1>6, <1>7 DEF Next, OrchestratorStep

\* Answers are asked for afresh in each cycle, and nothing is removed meanwhile.
LEMMA StepAnswersHold == ASSUME IInv, [Next]_vars PROVE AnswersHold'
<1> SUFFICES ASSUME pc' = "waiting", NEW t \in Service, answer'[t] = "ok"
             PROVE  Up(t)'
  BY DEF AnswersHold
<1>1. CASE ComposeUpReturns
  BY <1>1 DEF ComposeUpReturns, Up
<1>2. CASE pc = "waiting"
  <2>1. Up(t) \/ answer[t] # "ok"
    BY <1>2 DEF IInv, AnswersHold
  <2>2. CASE Up(t)
    BY <1>2, <2>2, OnlyDownRemoves DEF IInv, ComposeRemoves
  <2>3. CASE ~Up(t)
    <3>1. answer' # answer
      BY <2>1, <2>3
    <3>2. CASE CycleUnhealthy
      BY <3>2 DEF CycleUnhealthy, Unasked
    <3>3. PICK s \in Service : CycleUnhealthy \/ Probe(s)
      BY <3>1
      DEF Next, OrchestratorStep, vars, ComposeUpReturns, ComposeUpFails, CycleHealthy,
          AttemptsExhausted, WatcherReturns, WatcherRaises, ComposeDownReturns,
          ComposeDownFails, Signal, ComposeCreates, ComposeRemoves, Boot, CrashAndRelaunch
    <3>4. CASE Probe(s)
      BY <2>1, <2>3, <3>4 DEF Probe, Up, IInv, TypeOK
    <3>5. QED
      BY <3>2, <3>3, <3>4
  <2>4. QED
    BY <2>2, <2>3
<1>3. QED
  BY <1>1, <1>2
  DEF Next, OrchestratorStep, vars, ComposeUpReturns, ComposeUpFails, CycleHealthy,
      CycleUnhealthy, AttemptsExhausted, WatcherReturns, WatcherRaises, Finish, Exit,
      ComposeDownReturns, ComposeDownFails, Signal, Probe, ComposeCreates, ComposeRemoves,
      Boot, CrashAndRelaunch

\* The watch begins with a healthy cycle, and no step of it removes a container.
LEMMA StepWatchedStackExists == ASSUME IInv, [Next]_vars PROVE WatchedStackExists'
<1> SUFFICES ASSUME pc' = "watching", opts'.tear_down, NEW t \in Service
             PROVE  Up(t)'
  BY DEF WatchedStackExists
<1>1. UNCHANGED opts
  BY DEF Next, OrchestratorStep, vars, ComposeUpReturns, ComposeUpFails, CycleHealthy,
         CycleUnhealthy, AttemptsExhausted, WatcherReturns, WatcherRaises,
         ComposeDownReturns, ComposeDownFails, Signal, Probe, ComposeCreates,
         ComposeRemoves, Boot, CrashAndRelaunch
<1>2. CASE CycleHealthy
  BY <1>2 DEF CycleHealthy, Healthy, IInv, AnswersHold, Up
<1>3. CASE pc = "watching"
  <2>1. Up(t)
    BY <1>1, <1>3 DEF IInv, WatchedStackExists
  <2>2. QED
    BY <1>3, <2>1, OnlyDownRemoves DEF IInv, ComposeRemoves
<1>4. QED
  BY <1>1, <1>2, <1>3
  DEF Next, OrchestratorStep, vars, ComposeUpReturns, ComposeUpFails, CycleHealthy,
      CycleUnhealthy, AttemptsExhausted, TearsDown, WatcherReturns, WatcherRaises, Finish,
      Exit, ComposeDownReturns, ComposeDownFails, Signal, Probe, ComposeCreates,
      ComposeRemoves, Boot, CrashAndRelaunch

\* Status 0 is given at the end of docker compose down, or with --no-down.
LEMMA StepZeroIsEarned == ASSUME IInv, [Next]_vars, CodeOK' PROVE ZeroIsEarned'
<1> SUFFICES ASSUME pc' = "exited", code' = "zero"
             PROVE  opts'.tear_down /\ ~downFailed' => \A t \in Service : ~Up(t)'
  BY DEF ZeroIsEarned, CodeOK
<1>1. CASE ComposeDownReturns
  BY <1>1 DEF ComposeDownReturns, Up
<1>2. CASE WatcherReturns
  BY <1>2 DEF WatcherReturns, Finish, TearsDown
<1>3. CASE ComposeDownFails
  BY <1>3 DEF ComposeDownFails
<1>4. CASE pc = "exited"
  <2>1. UNCHANGED <<opts, downFailed, code>>
    BY <1>4
    DEF Next, OrchestratorStep, vars, ComposeUpReturns, ComposeUpFails, CycleHealthy,
        CycleUnhealthy, AttemptsExhausted, WatcherReturns, WatcherRaises,
        ComposeDownReturns, ComposeDownFails, Signal, Probe, ComposeCreates,
        ComposeRemoves, Boot, CrashAndRelaunch
  <2>2. QED
    BY <1>4, <2>1, OnlyUpCreates DEF IInv, ZeroIsEarned
<1>5. QED
  BY <1>1, <1>2, <1>3, <1>4
  DEF Next, OrchestratorStep, vars, ComposeUpReturns, ComposeUpFails, CycleHealthy,
      CycleUnhealthy, AttemptsExhausted, WatcherRaises, Finish, Exit, Signal, Probe,
      ComposeCreates, ComposeRemoves, Boot, CrashAndRelaunch

LEMMA StepIInv == IInv /\ [Next]_vars => IInv'
<1> SUFFICES ASSUME IInv, [Next]_vars PROVE IInv'
  OBVIOUS
<1>1. TypeOK' /\ CodeOK' /\ DownIsWanted'
  BY StepTypeOK, StepCodeOK DEF IInv
<1>2. AnswersHold' /\ WatchedStackExists'
  BY StepAnswersHold, StepWatchedStackExists
<1>3. ZeroIsEarned'
  BY <1>1, StepZeroIsEarned
<1>4. QED
  BY <1>1, <1>2, <1>3 DEF IInv

------------------------------------------------------------------------------
(* The inductive invariant of _amain: a status is decided on late, a down is   *)
(* wanted, and answers of the cycle in hand are about containers still there.  *)
THEOREM LifecycleInvariant == Spec => []IInv
<1>1. Init => IInv
  BY InitIInv
<1>2. IInv /\ [Next]_vars => IInv'
  BY StepIInv
<1>3. QED
  BY <1>1, <1>2, PTL DEF Spec

(* Type correctness of the orchestrator; attempts never exceed the budget.     *)
THEOREM TypeCorrect == Spec => []TypeOK
<1>1. IInv => TypeOK
  BY DEF IInv
<1>2. QED
  BY <1>1, LifecycleInvariant, PTL

(* A run that ends with status 0 was asked to end, and left nothing behind     *)
(* unless --no-down was given or docker compose down failed.                   *)
THEOREM ZerosAreEarned == Spec => []ZeroIsEarned
<1>1. IInv => ZeroIsEarned
  BY DEF IInv
<1>2. QED
  BY <1>1, LifecycleInvariant, PTL

(* Unless --no-down was given, all containers of a watched stack exist.        *)
THEOREM WatchedStacksExist == Spec => []WatchedStackExists
<1>1. IInv => WatchedStackExists
  BY DEF IInv
<1>2. QED
  BY <1>1, LifecycleInvariant, PTL

(* With --no-down the orchestrator removes no container, however it ends.      *)
THEOREM NoDownKeepsStack == Spec => NoDownIsKept
<1>1. IInv /\ [Next]_vars
        => [~opts.tear_down => \A t \in Service : Up(t) => Up(t)']_vars
  <2> SUFFICES ASSUME IInv, [Next]_vars, ~opts.tear_down, NEW t \in Service, Up(t), ~Up(t)'
               PROVE  FALSE
    OBVIOUS
  <2>1. ComposeRemoves(t)
    BY OnlyDownRemoves DEF IInv
  <2>2. QED
    BY <2>1 DEF ComposeRemoves, IInv, DownIsWanted
<1>2. QED
  BY <1>1, LifecycleInvariant, PTL DEF Spec, NoDownIsKept
==============================================================================
