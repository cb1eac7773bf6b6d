------------------------------ MODULE SelfHealing ------------------------------
(* What orchestration/recovery.py promises, with no poll cycle in it: probes   *)
(* of a target are answered or missed, a restart of it is attempted exactly    *)
(* when Limit probes in a row were missed and before another one is, and a     *)
(* target that is down comes back for as long as somebody watches.             *)
EXTENDS Integers

CONSTANTS Target, Limit

VARIABLES down,      \* the targets that are stopped
          missed,    \* missed[t]: probes missed in a row since the last restart
          watching   \* the watcher runs and nobody has asked it to stop

vars == <<down, missed, watching>>

Init ==
    /\ down = {}
    /\ missed = [t \in Target |-> 0]
    /\ watching = TRUE

\* Targets go down and come back without the watcher, too.
GoDown(t) == down' = down \union {t} /\ UNCHANGED <<missed, watching>>
ComeBack(t) == down' = down \ {t} /\ UNCHANGED <<missed, watching>>

Answer(t) ==
    /\ missed' = [missed EXCEPT ![t] = 0]
    /\ UNCHANGED <<down, watching>>

Miss(t) ==
    /\ missed[t] < Limit
    /\ missed' = [missed EXCEPT ![t] = @ + 1]
    /\ UNCHANGED <<down, watching>>

\* The attempt may fail: then the target stays down and the count starts again.
Restart(t) ==
    /\ missed[t] = Limit
    /\ missed' = [missed EXCEPT ![t] = 0]
    /\ down' \in {down, down \ {t}}
    /\ UNCHANGED watching

StopWatching == watching /\ watching' = FALSE /\ UNCHANGED <<down, missed>>

Next ==
    \/ \E t \in Target : \/ GoDown(t) \/ ComeBack(t)
                         \/ Answer(t) \/ Miss(t) \/ Restart(t)
    \/ StopWatching

Safety == Init /\ [][Next]_vars

ComesBack == \A t \in Target : t \in down ~> (t \notin down \/ ~watching)

Spec == Safety /\ ComesBack
==============================================================================
