------------------------- MODULE RecoveryWatcherProps -------------------------
(* The properties of the recovery loop, and what it implements.                *)
EXTENDS RecoveryWatcher

(* README.md "only escalates to `docker start` after a configurable number of  *)
(* consecutive failures": _recover runs for a target only when exactly Limit   *)
(* probes of it failed in a row since its last answer and its last restart,    *)
(* whatever recoveries of other targets the cycle waited for in between.       *)
EscalatesOnlyAfterThreshold ==
    \A t \in Target : pc = "starting" /\ next = t => missed[t] = Limit

(* Between two poll cycles no target owes a restart: Limit missed probes are   *)
(* acted on in the cycle that sees the last of them, even when a recovery of   *)
(* an earlier target suspended that cycle.                                     *)
DetectsWithinThreshold ==
    pc = "loop" => \A t \in Target : missed[t] < Limit

(* The link that makes both inductive: the counter the code keeps is the       *)
(* number of missed probes, except for a result it has yet to handle and for   *)
(* the target it is recovering.                                                *)
Unhandled(t) ==
    pc \in {"tick", "starting", "recording", "backoff", "crashed"}
      /\ (t > next \/ (t = next /\ pc = "tick"))

Recovering(t) == t = next /\ pc \in {"starting", "recording", "crashed"}

RecoveringLink(t) ==
    /\ results[t] = "fail"
    /\ consecutive_failures[t] = Limit
    /\ missed[t] = IF pc = "recording" THEN 0 ELSE consecutive_failures[t]

UnhandledLink(t) ==
    /\ results[t] = "ok" => missed[t] = 0
    /\ results[t] = "fail" => missed[t] = consecutive_failures[t] + 1
    /\ results[t] = "pending" => missed[t] = consecutive_failures[t]

CountLink ==
    \A t \in Target :
      IF Recovering(t) THEN RecoveringLink(t)
      ELSE /\ consecutive_failures[t] < Limit
           /\ IF Unhandled(t) THEN UnhandledLink(t)
                              ELSE missed[t] = consecutive_failures[t]

(* A cycle that handles results has all of them (gather), and the index of the *)
(* loop is a target whenever one is being recovered.                           *)
CycleShape ==
    /\ pc \in {"starting", "recording", "backoff", "crashed"} =>
         next \in Target /\ Gathered
    /\ pc = "tick" /\ next > 1 => Gathered

IInv == TypeOK /\ CycleShape /\ CountLink

(* README.md, architecture.md "Recovery control plane": the loop implements    *)
(* the supervision contract of SelfHealing, its progress included.             *)
Contract == INSTANCE SelfHealing WITH
    down <- {t \in Target : container[t] = "stopped"},
    watching <- ~stop /\ pc # "crashed"

ImplementsSelfHealing == Contract!Spec

(* request_stop "Signal the watcher loop to exit at the next poll boundary":   *)
(* a signal ends the loop however many recoveries the cycle still goes through.*)
StopsWhenAsked == stop ~> pc \in {"stopped", "crashed"}
==============================================================================
