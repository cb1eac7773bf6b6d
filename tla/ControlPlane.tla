------------------------------ MODULE ControlPlane ------------------------------
(* The control plane of README.md and docs/architecture.md: the recovery       *)
(* watcher and the fault injector at work on the same containers.  Neither     *)
(* knows of the other; all they share is the docker daemon.                    *)
EXTENDS RecoveryWatcherProps, FaultInjector

controlVars == <<vars, injectorVars>>

ControlInit == Init /\ InjectorInit

WatcherActs == (WatcherStep \/ RequestStop) /\ UNCHANGED injectorVars

InjectorActs == InjectorStep /\ UNCHANGED watcherVars

ContainersMove == \E t \in Target : DaemonActs(t) /\ UNCHANGED watcherVars

ControlNext == WatcherActs \/ InjectorActs \/ ContainersMove

(* What is fair about the parts is fair about the whole.                       *)
ControlFairness ==
    /\ WF_controlVars(WatcherStep /\ UNCHANGED injectorVars)
    /\ \A t \in Target :
         /\ WF_controlVars(Boot(t) /\ DaemonActs(t) /\ UNCHANGED watcherVars)
         /\ WF_controlVars(Exit(t) /\ DaemonActs(t) /\ UNCHANGED watcherVars)
         /\ WF_controlVars(Relaunch(t) /\ DaemonActs(t) /\ UNCHANGED watcherVars)
    /\ \A c \in Call : WF_controlVars(CallReturns(c) /\ UNCHANGED watcherVars)

ControlSpec == ControlInit /\ [][ControlNext]_controlVars /\ ControlFairness

------------------------------------------------------------------------------
(* What the injector does to containers is what the watcher is built to        *)
(* expect: to the watcher, the composition is RecoveryWatcher with some        *)
(* environment, so everything shown of that module holds beside the injector.  *)
WatcherUndisturbed == Init /\ [][Next]_vars

(* README.md, "Demo: fault injection & automatic recovery": a container that   *)
(* was killed through the injector runs again sooner or later, for as long as  *)
(* the watcher runs and nobody stops it.                                       *)
KilledComesBack ==
    \A t \in Target :
      (\E c \in Call : Killed(c) /\ Victim(c) = t)
        ~> (container[t] \in {"serving", "wedged"} \/ stop \/ pc = "crashed")
==============================================================================
