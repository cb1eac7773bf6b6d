----------------------------- MODULE DockerDaemon -----------------------------
(* The containers as docker runs them for docker-compose.yml: what a health    *)
(* probe of a container can see, and what `docker start` and `docker stop` do  *)
(* to it.  The daemon is not part of the repository; this is the behaviour     *)
(* orchestration/recovery.py and services/fault-injector rely on.              *)
EXTENDS Integers

CONSTANTS NumTargets,  \* how many services orchestration.default_targets lists
          MaxFaults    \* bound: crashes, wedges, stops and refused commands

ASSUME NumTargetsAssumption == NumTargets \in Nat \ {0}
ASSUME MaxFaultsAssumption == MaxFaults \in Nat

VARIABLES container,   \* container[t]: the state of target t's container
          faults       \* how many faults have happened, at most MaxFaults

daemonVars == <<container, faults>>

\* The targets in the order of the list default_targets returns.
Target == 1..NumTargets

(* "booting": the process is starting and answers no probe; "wedged": it runs  *)
(* and answers no probe in time, or with an error; "stopping": it was sent     *)
(* SIGTERM and still runs; "restarting": it died and its restart policy will   *)
(* launch it again; "stopped": it was stopped, and no policy will.             *)
ContainerState ==
    {"booting", "serving", "wedged", "stopping", "restarting", "stopped"}

DaemonTypeOK ==
    /\ container \in [Target -> ContainerState]
    /\ faults \in 0..MaxFaults

\* The orchestrator hands the watcher a stack that is healthy.
DaemonInit ==
    /\ container = [t \in Target |-> "serving"]
    /\ faults = 0

Become(t, s) == container' = [container EXCEPT ![t] = s]

Fault == faults < MaxFaults /\ faults' = faults + 1

------------------------------------------------------------------------------
Boot(t) ==
    /\ container[t] = "booting"
    /\ Become(t, "serving")
    /\ UNCHANGED faults

Exit(t) ==
    /\ container[t] = "stopping"
    /\ Become(t, "stopped")
    /\ UNCHANGED faults

\* restart: unless-stopped
Relaunch(t) ==
    /\ container[t] = "restarting"
    /\ Become(t, "booting")
    /\ UNCHANGED faults

Crash(t) ==
    /\ container[t] \in {"booting", "serving", "wedged"}
    /\ Fault
    /\ Become(t, "restarting")

Wedge(t) ==
    /\ container[t] = "serving"
    /\ Fault
    /\ Become(t, "wedged")

Unwedge(t) ==
    /\ container[t] = "wedged"
    /\ Become(t, "serving")
    /\ UNCHANGED faults

\* `docker stop`, by the fault injector or by an operator.
StopRequest(t) ==
    /\ container[t] \notin {"stopping", "stopped"}
    /\ Fault
    /\ Become(t, IF container[t] = "restarting" THEN "stopped" ELSE "stopping")

\* `docker start` by anybody but the watcher.
OperatorStart(t) ==
    /\ container[t] = "stopped"
    /\ Become(t, "booting")
    /\ UNCHANGED faults

(* What a successful `docker start` does: it launches a stopped container and  *)
(* is a no-op that exits 0 for one that runs, a wedged or a stopping one too.  *)
StartEffect(t) ==
    IF container[t] = "stopped" THEN Become(t, "booting") ELSE UNCHANGED container

\* Whether GET /health can succeed or fail now.
Answers(t) ==
    CASE container[t] = "serving"  -> {"ok"}
      [] container[t] = "stopping" -> {"ok", "fail"}
      [] OTHER                     -> {"fail"}

DaemonStep(t) ==
    \/ Boot(t) \/ Exit(t) \/ Relaunch(t)
    \/ Crash(t) \/ Wedge(t) \/ Unwedge(t)
    \/ StopRequest(t) \/ OperatorStart(t)
==============================================================================
