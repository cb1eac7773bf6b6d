----------------------------- MODULE FaultInjector -----------------------------
(* The container faults of services/fault-injector: inject_kill and            *)
(* inject_restart in app/main.py, ContainerController in app/injector.py.      *)
(*                                                                             *)
(* Every call runs the blocking docker SDK in a thread of the event loop's     *)
(* default executor, which takes its work first-in first-out.  `docker stop`   *)
(* keeps the thread until the container has exited; other calls, the watcher   *)
(* and docker go on meanwhile.                                                 *)
EXTENDS DockerDaemon, FiniteSets, Sequences

CONSTANTS Call,     \* HTTP calls made to the injector
          Allowed,  \* the targets in _ALLOWED_TARGETS
          Threads   \* threads of the default executor

ASSUME CallAssumption == IsFiniteSet(Call)
ASSUME AllowedAssumption == Allowed \subseteq Target
ASSUME ThreadsAssumption == Threads \in Nat \ {0}

NoService == 0

(* A name a client may send: with or without the prefix "cm-", of a service    *)
(* with a container or of none.                                                *)
Name == [prefixed : BOOLEAN, service : Target \union {NoService}]
Kind == {"kill", "restart"}

VARIABLES
    phase,     \* phase[c]: how far call c got
    kind,      \* kind[c]: which endpoint it is for
    name,      \* name[c]: the container name it acts on, once it arrived
    queue,     \* calls waiting for a thread of the executor
    status,    \* status[c]: the HTTP status of its response, 0 before it
    accepted,  \* accepted[c]: FaultResponse.accepted
    command    \* auxiliary: what docker did for c

injectorVars == <<phase, kind, name, queue, status, accepted, command>>

Busy == {"getting", "commanding", "awaiting", "exited"}

InjectorTypeOK ==
    /\ phase \in [Call -> {"unsent", "queued", "replied"} \union Busy]
    /\ kind \in [Call -> Kind]
    /\ name \in [Call -> Name]
    /\ queue \in Seq(Call)
    /\ status \in [Call -> {0, 200, 403, 500}]
    /\ accepted \in [Call -> BOOLEAN]
    /\ command \in [Call -> {"none", "begun", "done", "refused"}]

InjectorInit ==
    /\ phase = [c \in Call |-> "unsent"]
    /\ kind \in [Call -> Kind]
    /\ name = [c \in Call |-> [prefixed |-> FALSE, service |-> NoService]]
    /\ queue = <<>>
    /\ status = [c \in Call |-> 0]
    /\ accepted = [c \in Call |-> FALSE]
    /\ command = [c \in Call |-> "none"]

------------------------------------------------------------------------------
(* Mutants of the decisions below, for the runs to refute: any service with a  *)
(* container may be touched; a stop that returns once SIGTERM is sent; one     *)
(* that polls until it sees the container down; an error reported as done; a   *)
(* restart that is `docker restart`.                                           *)
PermittedAny(n) == n.service # NoService
StopDoneAtOnce(c) == phase[c] \in {"awaiting", "exited"}
StopDoneByPolling(c) == phase[c] = "exited" /\ container[name[c].service] = "stopped"
RefusalAcceptedAlways == TRUE
StartCommandRestarts(t) == Become(t, "booting")

\* _normalise_target
Normalised(n) == [n EXCEPT !.prefixed = TRUE]

\* _check
Permitted(n) == n \in {[prefixed |-> TRUE, service |-> t] : t \in Allowed}

\* The daemon reports the exit that followed the request, not the present state.
StopDone(c) == phase[c] = "exited"

\* What NotFound and APIError put into "ok".
RefusalAccepted == FALSE

\* container.start()
StartCommand(t) == StartEffect(t)

Victim(c) == name[c].service

InThread == {c \in Call : phase[c] \in Busy}

Reply(c, code, ok) ==
    /\ phase' = [phase EXCEPT ![c] = "replied"]
    /\ status' = [status EXCEPT ![c] = code]
    /\ accepted' = [accepted EXCEPT ![c] = ok]

\* The request is normalised and checked, and its work is given to to_thread.
Receive(c) ==
    /\ phase[c] = "unsent"
    /\ \E n \in Name :
         /\ name' = [name EXCEPT ![c] = Normalised(n)]
         /\ IF Permitted(Normalised(n))
            THEN /\ phase' = [phase EXCEPT ![c] = "queued"]
                 /\ queue' = Append(queue, c)
                 /\ UNCHANGED <<status, accepted>>
            ELSE Reply(c, 403, FALSE) /\ UNCHANGED queue
    /\ UNCHANGED <<kind, command, daemonVars>>

ThreadTakes(c) ==
    /\ queue # <<>> /\ c = Head(queue)
    /\ Cardinality(InThread) < Threads
    /\ queue' = Tail(queue)
    /\ phase' = [phase EXCEPT ![c] = "getting"]
    /\ UNCHANGED <<kind, name, status, accepted, command, daemonVars>>

\* containers.get finds the container.
Found(c) ==
    /\ phase[c] = "getting"
    /\ phase' = [phase EXCEPT ![c] = "commanding"]
    /\ UNCHANGED <<kind, name, queue, status, accepted, command, daemonVars>>

(* container.stop(): a container that is down already, or waits for its        *)
(* restart policy, is down at once; otherwise it is sent SIGTERM.              *)
StopBegins(c) ==
    /\ phase[c] = "commanding" /\ kind[c] = "kill"
    /\ IF container[Victim(c)] \in {"stopping", "stopped"}
       THEN UNCHANGED daemonVars ELSE StopRequest(Victim(c))
    /\ phase' = [phase EXCEPT
                   ![c] = IF container'[Victim(c)] = "stopped" THEN "exited" ELSE "awaiting"]
    /\ command' = [command EXCEPT ![c] = "begun"]
    /\ UNCHANGED <<kind, name, queue, status, accepted>>

StopReturns(c) ==
    /\ kind[c] = "kill" /\ StopDone(c)
    /\ command' = [command EXCEPT ![c] = "done"]
    /\ Reply(c, 200, TRUE)
    /\ UNCHANGED <<kind, name, queue, daemonVars>>

StartReturns(c) ==
    /\ phase[c] = "commanding" /\ kind[c] = "restart"
    /\ StartCommand(Victim(c))
    /\ command' = [command EXCEPT ![c] = "done"]
    /\ Reply(c, 200, TRUE)
    /\ UNCHANGED <<kind, name, queue, faults>>

NotFound(c) ==
    /\ phase[c] = "getting"
    /\ Reply(c, 200, RefusalAccepted)
    /\ UNCHANGED <<kind, name, queue, command, daemonVars>>

\* APIError: the daemon refuses, or fails to stop what it sent SIGTERM to.
DaemonRefuses(c) ==
    /\ phase[c] \in {"getting", "commanding", "awaiting"}
    /\ command' = [command EXCEPT ![c] = "refused"]
    /\ Reply(c, 200, RefusalAccepted)
    /\ UNCHANGED <<kind, name, queue, daemonVars>>

(* The daemon cannot be reached or does not answer in time, though it may have *)
(* acted: nothing catches what the SDK raises, and the middleware answers 500. *)
DaemonUnreachable(c) ==
    /\ phase[c] \in Busy
    /\ \/ UNCHANGED <<command, container>>
       \/ /\ phase[c] = "commanding" /\ kind[c] = "restart"
          /\ StartCommand(Victim(c))
          /\ command' = [command EXCEPT ![c] = "begun"]
    /\ Reply(c, 500, FALSE)
    /\ UNCHANGED <<kind, name, queue, faults>>

\* The containers move by themselves; a stop that waits for an exit sees it.
DaemonActs(t) ==
    /\ DaemonStep(t)
    /\ phase' = [c \in Call |->
                   IF phase[c] = "awaiting" /\ container'[Victim(c)] = "stopped"
                   THEN "exited" ELSE phase[c]]
    /\ UNCHANGED <<kind, name, queue, status, accepted, command>>

CallReturns(c) == ThreadTakes(c) \/ Found(c) \/ StopBegins(c) \/ StopReturns(c) \/ StartReturns(c)

CallFails(c) == NotFound(c) \/ DaemonRefuses(c) \/ DaemonUnreachable(c)

InjectorStep == \E c \in Call : Receive(c) \/ CallReturns(c) \/ CallFails(c)

(* The injector on its own: no watcher and no operator, who would start and    *)
(* stop containers besides.                                                    *)
InjectorNext ==
    \/ InjectorStep
    \/ \E t \in Target : (Boot(t) \/ Exit(t)) /\ DaemonActs(t)

(* Threads run; docker ends the exits it began and tells who waits for them.   *)
(* Nobody has to send a request, and nothing has to fail.                      *)
InjectorFairness ==
    /\ \A c \in Call : WF_<<daemonVars, injectorVars>>(CallReturns(c))
    /\ \A t \in Target : WF_<<daemonVars, injectorVars>>(Exit(t) /\ DaemonActs(t))

AloneInit == DaemonInit /\ InjectorInit

InjectorSpec ==
    /\ AloneInit
    /\ [][InjectorNext]_<<daemonVars, injectorVars>>
    /\ InjectorFairness

------------------------------------------------------------------------------
Killed(c) == kind[c] = "kill" /\ accepted[c]

\* The invariant the proofs use, beside the injector's neighbours too.
QueueOK ==
    /\ \A m \in DOMAIN queue : phase[queue[m]] = "queued"
    /\ \A m, n \in DOMAIN queue : queue[m] = queue[n] => m = n

\* What passed the check may be touched, and nothing was done before its turn.
PhasesOK ==
    \A c \in Call :
      /\ phase[c] \in Busy \union {"queued"} \/ command[c] # "none" => Permitted(name[c])
      /\ phase[c] \in {"unsent", "queued", "getting", "commanding"} => command[c] = "none"
      /\ phase[c] \in {"awaiting", "exited"} => kind[c] = "kill" /\ command[c] = "begun"
      /\ phase[c] # "replied" => status[c] = 0 /\ ~accepted[c]

\* A stop is awaited only while the container is on its way down.
StopsAreUnderWay ==
    \A c \in Call : phase[c] = "awaiting" => container[Victim(c)] = "stopping"

InjectorInv ==
    /\ DaemonTypeOK /\ InjectorTypeOK
    /\ QueueOK /\ PhasesOK /\ StopsAreUnderWay

(* main.py:31 _ALLOWED_TARGETS: with whatever names clients call it, and while *)
(* calls wait for threads, the injector takes no other container down.         *)
AllowListHolds == \A t \in Target \ Allowed : container[t] = "serving"

(* "accepted" tells whether the action succeeded (main.py:65): an accepted     *)
(* call was carried out, one that was not is not reported to be, and a 403     *)
(* reached no container.                                                       *)
AnswerIsTrue ==
    \A c \in Call :
      /\ accepted[c] => status[c] = 200 /\ command[c] = "done"
      /\ status[c] = 200 /\ ~accepted[c] => command[c] \in {"none", "refused"}
      /\ status[c] = 403 => command[c] = "none" /\ ~Permitted(name[c])

DownUntilStarted(c) ==
    \/ container[Victim(c)] = "stopped"
    \/ \E d \in Call : /\ kind[d] = "restart" /\ Victim(d) = Victim(c)
                       /\ command[d] \in {"begun", "done"}

(* When a kill is accepted the container has exited: it is down until somebody *)
(* starts it again, although calls for the same container overlap.             *)
KillSticks == \A c \in Call : Killed(c) => DownUntilStarted(c)

(* A call that got past the check is answered, although stops keep the threads *)
(* until containers exit and others start them again behind their back.        *)
CallsAreAnswered == \A c \in Call : phase[c] = "queued" ~> phase[c] = "replied"
==============================================================================
