------------------------------ MODULE Orchestrator ------------------------------
(* The lifecycle in orchestration/orchestrator.py: docker compose up, wait for *)
(* a healthy stack, watch it, docker compose down, and signals at any time.    *)
(*                                                                             *)
(* Handlers for SIGINT and SIGTERM exist only from the moment the watcher      *)
(* starts; before it a signal kills the process or raises out of _amain.  The  *)
(* watcher is what RecoveryWatcher says of it: it ends after a request to stop *)
(* and, when the docker executable cannot be run, raises.                      *)
EXTENDS Integers

CONSTANTS Service,     \* the names of the services looked after
          Attempts,    \* _wait_until_healthy's attempts
          MaxCrashes   \* bound: containers that die and are relaunched

ASSUME AttemptsAssumption == Attempts \in Nat \ {0}
ASSUME MaxCrashesAssumption == MaxCrashes \in Nat

\* docker-compose.yml: depends_on with condition service_healthy
Needs(t) ==
    Service \intersect
      (CASE t = "api-gateway" -> {"service-a", "service-b", "cpp-worker"}
         [] t = "service-a"   -> {"service-b", "cpp-worker"}
         [] OTHER             -> {})

VARIABLES
    opts,        \* OrchestratorOptions: bring_up, tear_down
    pc,          \* where _amain is
    service,     \* service[t]: the state of t's container
    outdated,    \* the services whose container is not of their present image and settings
    crashes,     \* how many containers have died, at most MaxCrashes
    attempt,     \* the poll cycle of _wait_until_healthy
    answer,      \* answer[t]: what t answered in this cycle
    stop,        \* request_stop was called
    downFailed,  \* docker compose down returned an error
    code         \* the exit status decided on so far

vars == <<opts, pc, service, outdated, crashes, attempt, answer, stop, downFailed, code>>

TypeOK ==
    /\ opts \in [bring_up : BOOLEAN, tear_down : BOOLEAN]
    /\ pc \in {"up", "waiting", "watching", "down", "exited"}
    /\ service \in [Service -> {"absent", "booting", "serving"}]
    /\ outdated \subseteq Service
    /\ crashes \in 0..MaxCrashes
    /\ attempt \in 1..Attempts
    /\ answer \in [Service -> {"none", "ok", "fail"}]
    /\ stop \in BOOLEAN /\ downFailed \in BOOLEAN
    /\ code \in {"none", "zero", "one", "compose", "exception", "signal"}

Unasked == [t \in Service |-> "none"]

\* The stack may be up already, with or without --no-up, and of an older build.
Init ==
    /\ opts \in [bring_up : BOOLEAN, tear_down : BOOLEAN]
    /\ pc = IF opts.bring_up THEN "up" ELSE "waiting"
    /\ service \in [Service -> {"absent", "booting", "serving"}]
    /\ outdated \in SUBSET {t \in Service : opts.bring_up /\ service[t] # "absent"}
    /\ crashes = 0
    /\ attempt = 1
    /\ answer = Unasked
    /\ stop = FALSE /\ downFailed = FALSE
    /\ code = "none"

------------------------------------------------------------------------------
(* Mutants of the decisions below, for the runs to refute: tear down only what *)
(* was brought up; tear down whatever the flags say; any healthy service will  *)
(* do; attempts that are not counted; one attempt too many.                    *)
TearsDownOnlyOwn == opts.tear_down /\ opts.bring_up
TearsDownAlways == TRUE
HealthyAny == \E t \in Service : answer[t] = "ok"
NextAttemptSame == attempt
AttemptsLeftLate == attempt <= Attempts

TearsDown == opts.tear_down

Answered == \A t \in Service : answer[t] # "none"
Healthy == \A t \in Service : answer[t] = "ok"

NextAttempt == attempt + 1

AttemptsLeft == attempt < Attempts

\* add_signal_handler comes right before the watcher and stays for good.
HandlesSignal == pc = "watching" \/ (pc = "down" /\ code # "one")

Exit(status) == pc' = "exited" /\ code' = status

\* What _amain does once it is through with the stack.
Finish(status) ==
    IF TearsDown THEN pc' = "down" /\ code' = status ELSE Exit(status)

\* ---- docker compose up

(* up -d --build makes the containers that are missing and, one at a time,     *)
(* puts a new one in the place of each that is outdated; what t depends on is  *)
(* seen to first.                                                              *)
ComposeCreates(t) ==
    /\ pc = "up"
    /\ service[t] = "absent" \/ t \in outdated
    /\ \A s \in Needs(t) : service[s] = "serving" /\ s \notin outdated
    /\ service' = [service EXCEPT ![t] = "booting"]
    /\ outdated' = outdated \ {t}
    /\ UNCHANGED <<opts, pc, crashes, attempt, answer, stop, downFailed, code>>

ComposeUpReturns ==
    /\ pc = "up"
    /\ outdated = {} /\ \A t \in Service : service[t] # "absent"
    /\ pc' = "waiting"
    /\ UNCHANGED <<opts, service, outdated, crashes, attempt, answer, stop, downFailed, code>>

(* A build, a port or a dependency's health check fails half way through; or   *)
(* _docker_compose raises, when docker cannot be run or writes an endless line.*)
ComposeUpFails ==
    /\ pc = "up"
    /\ \E status \in {"compose", "exception"} : Exit(status)
    /\ UNCHANGED <<opts, service, outdated, crashes, attempt, answer, stop, downFailed>>

\* ---- _wait_until_healthy

Probe(t) ==
    /\ pc = "waiting"
    /\ answer[t] = "none"
    /\ answer' = [answer EXCEPT ![t] = IF service[t] = "serving" THEN "ok" ELSE "fail"]
    /\ UNCHANGED <<opts, pc, service, outdated, crashes, attempt, stop, downFailed, code>>

CycleHealthy ==
    /\ pc = "waiting" /\ Answered /\ Healthy
    /\ pc' = "watching"
    /\ UNCHANGED <<opts, service, outdated, crashes, attempt, answer, stop, downFailed, code>>

CycleUnhealthy ==
    /\ pc = "waiting" /\ Answered /\ ~Healthy
    /\ AttemptsLeft
    /\ attempt' = NextAttempt
    /\ answer' = Unasked
    /\ UNCHANGED <<opts, pc, service, outdated, crashes, stop, downFailed, code>>

\* With --no-down a stack that is not healthy is watched all the same.
AttemptsExhausted ==
    /\ pc = "waiting" /\ Answered /\ ~Healthy
    /\ ~AttemptsLeft
    /\ IF TearsDown THEN pc' = "down" /\ code' = "one"
                    ELSE pc' = "watching" /\ UNCHANGED code
    /\ UNCHANGED <<opts, service, outdated, crashes, attempt, answer, stop, downFailed>>

\* ---- watcher.run and its finally clause

WatcherReturns ==
    /\ pc = "watching" /\ stop
    /\ Finish("zero")
    /\ UNCHANGED <<opts, service, outdated, crashes, attempt, answer, stop, downFailed>>

\* docker start cannot be run, from the first recovery on or from some later one.
WatcherRaises ==
    /\ pc = "watching"
    /\ Finish("exception")
    /\ UNCHANGED <<opts, service, outdated, crashes, attempt, answer, stop, downFailed>>

\* ---- docker compose down

ComposeRemoves(t) ==
    /\ pc = "down"
    /\ service[t] # "absent"
    /\ service' = [service EXCEPT ![t] = "absent"]
    /\ UNCHANGED <<opts, pc, outdated, crashes, attempt, answer, stop, downFailed, code>>

ComposeDownReturns ==
    /\ pc = "down"
    /\ \A t \in Service : service[t] = "absent"
    /\ Exit(code)
    /\ UNCHANGED <<opts, service, outdated, crashes, attempt, answer, stop, downFailed>>

\* Nobody looks at what docker compose down returns; it may raise as up may.
ComposeDownFails ==
    /\ pc = "down"
    /\ downFailed' = TRUE
    /\ \E status \in {code, "exception"} : Exit(status)
    /\ UNCHANGED <<opts, service, outdated, crashes, attempt, answer, stop>>

\* ---- signals and containers

(* SIGINT or SIGTERM: request_stop where there is a handler; otherwise SIGTERM *)
(* kills the process and SIGINT cancels _amain wherever it awaits.             *)
Signal ==
    /\ pc # "exited"
    /\ IF HandlesSignal THEN stop' = TRUE /\ UNCHANGED <<pc, code>>
                        ELSE Exit("signal") /\ UNCHANGED stop
    /\ UNCHANGED <<opts, service, outdated, crashes, attempt, answer, downFailed>>

Boot(t) ==
    /\ service[t] = "booting"
    /\ service' = [service EXCEPT ![t] = "serving"]
    /\ UNCHANGED <<opts, pc, outdated, crashes, attempt, answer, stop, downFailed, code>>

\* restart: unless-stopped
CrashAndRelaunch(t) ==
    /\ service[t] = "serving" /\ crashes < MaxCrashes
    /\ service' = [service EXCEPT ![t] = "booting"]
    /\ crashes' = crashes + 1
    /\ UNCHANGED <<opts, pc, outdated, attempt, answer, stop, downFailed, code>>

OrchestratorStep ==
    \/ ComposeUpReturns \/ ComposeUpFails
    \/ CycleHealthy \/ CycleUnhealthy \/ AttemptsExhausted
    \/ WatcherReturns
    \/ ComposeDownReturns \/ ComposeDownFails
    \/ \E t \in Service : ComposeCreates(t) \/ Probe(t) \/ ComposeRemoves(t)

Next ==
    \/ OrchestratorStep \/ WatcherRaises \/ Signal
    \/ \E t \in Service : Boot(t) \/ CrashAndRelaunch(t)

(* docker compose ends, one way or the other; probes and sleeps have bounds;   *)
(* the watcher returns once it was asked to.  Nobody has to send a signal.     *)
Spec == Init /\ [][Next]_vars /\ WF_vars(OrchestratorStep)

------------------------------------------------------------------------------
Up(t) == service[t] # "absent"

(* orchestrator.py:1 "bring the stack up, watch it, tear it down": a run that  *)
(* ends with status 0 was asked to end, and has left nothing behind unless     *)
(* --no-down was given or docker compose down failed, whose status is ignored. *)
ZeroIsEarned ==
    pc = "exited" /\ code = "zero" =>
        /\ stop
        /\ opts.tear_down /\ ~downFailed => \A t \in Service : ~Up(t)

(* With --no-down nothing the orchestrator does removes a container, however   *)
(* it ends.                                                                    *)
NoDownIsKept ==
    [][~opts.tear_down => \A t \in Service : Up(t) => Up(t)']_vars

(* Unless --no-down was given, the watcher is handed a stack all of whose      *)
(* containers exist, although probes of one cycle are made at different times. *)
WatchedStackExists ==
    pc = "watching" /\ opts.tear_down => \A t \in Service : Up(t)

(* The wait for a healthy stack ends, although containers that die keep        *)
(* turning healthy ones into unhealthy ones.                                   *)
StartUpEnds == <>(pc \notin {"up", "waiting"})
==============================================================================
