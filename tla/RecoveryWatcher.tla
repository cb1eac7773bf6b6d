---------------------------- MODULE RecoveryWatcher ----------------------------
(* orchestration/recovery.py: RecoveryWatcher, the loop that probes every      *)
(* service, counts consecutive failures and escalates to `docker start`.       *)
(*                                                                             *)
(* One poll cycle (_tick) gathers one answer per target and only then handles  *)
(* the answers, in the order of the targets; a recovery of one target suspends *)
(* the loop (docker's exit, then the backoff sleep) while the answers of the   *)
(* targets after it grow stale.                                                *)
EXTENDS DockerDaemon

CONSTANT FailureThreshold  \* WatcherConfig.failure_threshold: any integer

ASSUME FailureThresholdAssumption == FailureThreshold \in Int

VARIABLES
    pc,                    \* where the coroutine run() is
    results,               \* results[t]: what the probe of this cycle returned
    next,                  \* the target whose result the cycle handles next
    consecutive_failures,  \* _ServiceRuntime.consecutive_failures
    returncode,            \* exit status of the last `docker start`
    last_event,            \* success of the last RecoveryEvent in the history
    stop,                  \* the asyncio.Event of request_stop
    missed                 \* auxiliary: probes of t that failed in a row since
                           \* its last answer or its last `docker start`

watcherVars == <<pc, results, next, consecutive_failures, returncode,
                 last_event, stop, missed>>
vars == <<container, faults, pc, results, next, consecutive_failures,
          returncode, last_event, stop, missed>>

\* A threshold of zero or less behaves like one: it is compared after the add.
Limit == IF FailureThreshold < 1 THEN 1 ELSE FailureThreshold

(* Mutants of the three decisions below, for the runs to refute: a threshold   *)
(* compared with `>` or one too low; a loop that forgets to look at the event, *)
(* or that ends with its first recovery; a count reset on success only.        *)
ReachesThresholdLate(n) == n > FailureThreshold
ReachesThresholdEarly(n) == n >= FailureThreshold - 1
KeepPollingForever == TRUE
KeepPollingOnce == ~stop /\ \A t \in Target : last_event[t] = "none"
CountAfterSuccessOnly(t) == IF returncode = 0 THEN 0 ELSE consecutive_failures[t]

ReachesThreshold(n) == n >= FailureThreshold

KeepPolling == ~stop

\* The count starts again whether or not docker could start the container.
CountAfterRecovery(t) == 0

Gathered == \A t \in Target : results[t] # "pending"

\* What a cycle that turns to target t finds for it.
Handling(t, result) ==
    /\ pc = "tick" /\ Gathered
    /\ next = t /\ results[t] = result

TypeOK ==
    /\ DaemonTypeOK
    /\ pc \in {"loop", "tick", "starting", "recording", "backoff", "stopped", "crashed"}
    /\ results \in [Target -> {"pending", "ok", "fail"}]
    /\ next \in 1..(NumTargets + 1)
    /\ consecutive_failures \in [Target -> 0..Limit]
    /\ returncode \in {0, 1}
    /\ last_event \in [Target -> {"none", "success", "failure"}]
    /\ stop \in BOOLEAN
    /\ missed \in [Target -> 0..Limit]

Init ==
    /\ DaemonInit
    /\ pc = "loop"
    /\ results = [t \in Target |-> "pending"]
    /\ next = 1
    /\ consecutive_failures = [t \in Target |-> 0]
    /\ returncode = 0
    /\ last_event = [t \in Target |-> "none"]
    /\ stop = FALSE
    /\ missed = [t \in Target |-> 0]

------------------------------------------------------------------------------
\* `while not self._stop.is_set()`: the interval elapsed, probe_all begins.
Poll ==
    /\ pc = "loop" /\ KeepPolling
    /\ pc' = "tick"
    /\ results' = [t \in Target |-> "pending"]
    /\ next' = 1
    /\ UNCHANGED <<container, faults, consecutive_failures, returncode,
                   last_event, stop, missed>>

\* One of the concurrent probes returns; an error or a timeout is a failure.
ProbeAnswer(t) ==
    /\ pc = "tick" /\ results[t] = "pending"
    /\ \E answer \in Answers(t) :
         /\ results' = [results EXCEPT ![t] = answer]
         /\ missed' = [missed EXCEPT ![t] = IF answer = "ok" THEN 0 ELSE @ + 1]
    /\ UNCHANGED <<container, faults, pc, next, consecutive_failures, returncode,
                   last_event, stop>>

HandleOk(t) ==
    /\ Handling(t, "ok")
    /\ consecutive_failures' = [consecutive_failures EXCEPT ![t] = 0]
    /\ next' = next + 1
    /\ UNCHANGED <<container, faults, pc, results, returncode, last_event, stop, missed>>

HandleFailure(t) ==
    /\ Handling(t, "fail")
    /\ ~ReachesThreshold(consecutive_failures[t] + 1)
    /\ consecutive_failures' = [consecutive_failures EXCEPT ![t] = @ + 1]
    /\ next' = next + 1
    /\ UNCHANGED <<container, faults, pc, results, returncode, last_event, stop, missed>>

\* The same failure at the threshold enters _recover.
Escalate(t) ==
    /\ Handling(t, "fail")
    /\ ReachesThreshold(consecutive_failures[t] + 1)
    /\ consecutive_failures' = [consecutive_failures EXCEPT ![t] = @ + 1]
    /\ pc' = "starting"
    /\ UNCHANGED <<container, faults, results, next, returncode, last_event, stop, missed>>

\* docker carries out `docker start`, or refuses it, and exits.
DockerStart(t) ==
    /\ pc = "starting" /\ next = t
    /\ \/ returncode' = 0 /\ StartEffect(t) /\ UNCHANGED faults
       \/ returncode' = 1 /\ Fault /\ UNCHANGED container
    /\ missed' = [missed EXCEPT ![t] = 0]
    /\ pc' = "recording"
    /\ UNCHANGED <<results, next, consecutive_failures, last_event, stop>>

(* create_subprocess_exec raises (no docker executable, no process to spare),  *)
(* and nothing up to main catches it.                                          *)
DockerMissing ==
    /\ pc = "starting" /\ Fault
    /\ pc' = "crashed"
    /\ UNCHANGED <<container, results, next, consecutive_failures,
                   returncode, last_event, stop, missed>>

\* The rest of _recover up to its sleep.
RecordEvent(t) ==
    /\ pc = "recording" /\ next = t
    /\ last_event' = [last_event EXCEPT
                        ![t] = IF returncode = 0 THEN "success" ELSE "failure"]
    /\ consecutive_failures' = [consecutive_failures EXCEPT ![t] = CountAfterRecovery(t)]
    /\ pc' = "backoff"
    /\ UNCHANGED <<container, faults, results, next, returncode, stop, missed>>

BackoffEnds ==
    /\ pc = "backoff"
    /\ pc' = "tick"
    /\ next' = next + 1
    /\ UNCHANGED <<container, faults, results, consecutive_failures, returncode,
                   last_event, stop, missed>>

EndTick ==
    /\ pc = "tick" /\ next = NumTargets + 1
    /\ pc' = "loop"
    /\ UNCHANGED <<container, faults, results, next, consecutive_failures,
                   returncode, last_event, stop, missed>>

\* SIGINT or SIGTERM; the loop notices only between two cycles.
RequestStop ==
    /\ ~stop /\ pc \notin {"stopped", "crashed"}
    /\ stop' = TRUE
    /\ UNCHANGED <<container, faults, pc, results, next, consecutive_failures,
                   returncode, last_event, missed>>

Leave ==
    /\ pc = "loop" /\ ~KeepPolling
    /\ pc' = "stopped"
    /\ UNCHANGED <<container, faults, results, next, consecutive_failures,
                   returncode, last_event, stop, missed>>

WatcherStep ==
    \/ Poll \/ DockerMissing \/ BackoffEnds \/ EndTick \/ Leave
    \/ \E t \in Target :
         \/ ProbeAnswer(t) \/ HandleOk(t) \/ HandleFailure(t) \/ Escalate(t)
         \/ DockerStart(t) \/ RecordEvent(t)

Environment == \E t \in Target : DaemonStep(t) /\ UNCHANGED watcherVars

Next == WatcherStep \/ RequestStop \/ Environment

(* A coroutine that can run does run: timeouts bound the probes, docker exits, *)
(* sleeps end.  Signals, faults and operators are under no obligation.         *)
Fairness ==
    /\ WF_vars(WatcherStep)
    /\ \A t \in Target : /\ WF_vars(Boot(t) /\ UNCHANGED watcherVars)
                         /\ WF_vars(Exit(t) /\ UNCHANGED watcherVars)
                         /\ WF_vars(Relaunch(t) /\ UNCHANGED watcherVars)

Spec == Init /\ [][Next]_vars /\ Fairness
==============================================================================
