-------------------------------- MODULE Gateway --------------------------------
(* One request to services/api-gateway/app/main.py: POST /process, which       *)
(* _proxy_to_service_a forwards to service-a's process (FanOut), the endpoint  *)
(* of an unknown flavour, or GET /system/health.                               *)
(*                                                                             *)
(* The gateway waits for service-a at most its client's timeout and gives up   *)
(* sooner than a fan-out with all its retries; service-a is not told, and goes *)
(* on.  Either side may die while the other waits for it.                      *)
EXTENDS FanOut

CONSTANT Service  \* the services whose /health system_health asks

ASSUME ServiceAssumption == IsFiniteSet(Service) /\ Service # {}

VARIABLES
    gw,        \* "received", "waiting", "probing" or "replied"
    endpoint,  \* which of its endpoints the client asks for
    serving,   \* whether a process of service-a has the request and runs
    probe,     \* probe[s]: what _probe of service s came to
    gwStatus,  \* the HTTP status of the gateway's response, 0 before it
    gwOk       \* the "ok" of the document of /system/health

gwVars == <<gw, endpoint, serving, probe, gwStatus, gwOk>>
allVars == <<vars, gwVars>>

GatewayInit ==
    /\ Init
    /\ gw = "received"
    /\ endpoint \in {"process", "unknown", "health"}
    /\ serving = FALSE
    /\ probe = [s \in Service |-> "pending"]
    /\ gwStatus = 0 /\ gwOk = FALSE

------------------------------------------------------------------------------
(* Mutants of the decisions below, for the runs to refute: a client without a  *)
(* timeout; a response passed on without raise_for_status; a service that      *)
(* answers nothing counted as healthy.                                         *)
TimeoutNever == FALSE
RelayedAnyway(code) == {200, 500}
CountsAsUpAlways(s) == probe[s] # "garbled"

\* httpx.AsyncClient(timeout=...): whenever the gateway waits, it may run out.
Timeout == gw = "waiting"

(* What becomes of service-a's status: raise_for_status turns all but a 200    *)
(* into a 502, and a body that is no ProcessResponse is an unhandled error.    *)
Relayed(code) == IF code = 200 THEN {200, 500} ELSE {502}

CountsAsUp(s) == probe[s] = "ok"

Answer(code) == gw' = "replied" /\ gwStatus' = code

Refuse ==
    /\ gw = "received" /\ endpoint = "unknown"
    /\ Answer(400)
    /\ UNCHANGED <<endpoint, serving, probe, gwOk, vars>>

Forward ==
    /\ gw = "received" /\ endpoint = "process"
    /\ gw' = "waiting" /\ serving' = TRUE
    /\ UNCHANGED <<endpoint, probe, gwStatus, gwOk, vars>>

\* No connection in time, or none at all.  Service-a never hears of the request.
ConnectFails ==
    /\ gw = "received" /\ endpoint = "process"
    /\ Answer(502)
    /\ UNCHANGED <<endpoint, serving, probe, gwOk, vars>>

GiveUpWaiting ==
    /\ gw = "waiting" /\ Timeout
    /\ Answer(502)
    /\ UNCHANGED <<endpoint, serving, probe, gwOk, vars>>

\* The connection breaks: a dead process is noticed, unless its host died too.
Disconnected ==
    /\ gw = "waiting" /\ ~serving
    /\ Answer(502)
    /\ UNCHANGED <<endpoint, serving, probe, gwOk, vars>>

Relay ==
    /\ gw = "waiting" /\ pc = "replied"
    /\ \E code \in Relayed(status) : Answer(code)
    /\ UNCHANGED <<endpoint, serving, probe, gwOk, vars>>

StartProbes ==
    /\ gw = "received" /\ endpoint = "health"
    /\ gw' = "probing"
    /\ UNCHANGED <<endpoint, serving, probe, gwStatus, gwOk, vars>>

(* The probes run at once, each with a timeout of its own.  "garbled": a 200   *)
(* whose body is no JSON, which is not an httpx.HTTPError.                     *)
ProbeReturns(s) ==
    /\ endpoint = "health" /\ gw # "received" /\ probe[s] = "pending"
    /\ \E answer \in {"ok", "down", "garbled"} : probe' = [probe EXCEPT ![s] = answer]
    /\ UNCHANGED <<gw, endpoint, serving, gwStatus, gwOk, vars>>

HealthDocument ==
    /\ gw = "probing" /\ \A s \in Service : probe[s] \in {"ok", "down"}
    /\ Answer(200)
    /\ gwOk' = \A s \in Service : CountsAsUp(s)
    /\ UNCHANGED <<endpoint, serving, probe, vars>>

\* gather raises what the first garbled probe raised, and cancels no other.
HealthBroken ==
    /\ gw = "probing" /\ \E s \in Service : probe[s] = "garbled"
    /\ Answer(500)
    /\ UNCHANGED <<endpoint, serving, probe, gwOk, vars>>

\* Service-a's process dies, with its handler and the calls it has in flight.
ServiceADies ==
    /\ serving
    /\ serving' = FALSE
    /\ UNCHANGED <<gw, endpoint, probe, gwStatus, gwOk, vars>>

GatewayStep ==
    \/ Refuse \/ Forward \/ ConnectFails \/ GiveUpWaiting \/ Relay
    \/ StartProbes \/ HealthDocument \/ HealthBroken
    \/ \E s \in Service : ProbeReturns(s)

(* The handler in service-a lives as long as its process: nothing cancels it    *)
(* when its client is gone.                                                    *)
ServiceAHandles == serving /\ HandlerStep /\ UNCHANGED gwVars
ServiceACalls(a, i) == serving /\ TaskStep(a, i) /\ UNCHANGED gwVars

GatewayNext ==
    \/ GatewayStep \/ Disconnected \/ ServiceADies
    \/ ServiceAHandles \/ \E a \in Attempt, i \in Item : ServiceACalls(a, i)

(* Both event loops run what can run, and timeouts end what does not end by    *)
(* itself.  Nobody has to notice that a peer died.                             *)
GatewayFairness ==
    /\ WF_allVars(GatewayStep)
    /\ WF_allVars(ServiceAHandles)
    /\ \A a \in Attempt, i \in Item : WF_allVars(ServiceACalls(a, i))

GatewaySpec == GatewayInit /\ [][GatewayNext]_allVars /\ GatewayFairness

------------------------------------------------------------------------------
(* _proxy_to_service_a "502 for any HTTP-layer failure": a client that gets a  *)
(* result gets one service-a computed from a single attempt all of whose calls *)
(* succeeded, and one whose flavour was refused cost service-a nothing.  The   *)
(* converse fails by design: behind a 502 the work may well have succeeded.    *)
ResultIsEarned ==
    /\ endpoint = "process" /\ gwStatus = 200 =>
         status = 200 /\ \A i \in Item : task[attempt][i] = "ok"
    /\ gwStatus = 400 => \A a \in Attempt, i \in Item : task[a][i] \in {"none", "queued"}

(* system_health: a fleet with a service that did not answer is never called   *)
(* healthy, and one garbled body, no other failure, costs the whole document.  *)
HealthIsTrue ==
    endpoint = "health" /\ gw = "replied" =>
        /\ gwOk => \A s \in Service : probe[s] = "ok"
        /\ gwStatus = 500 <=> \E s \in Service : probe[s] = "garbled"

(* Whatever becomes of service-a, the client is answered.                      *)
ClientIsAnswered == <>(gw = "replied")

(* The client left with a 502: service-a's handler still ends, and so do its   *)
(* calls, which give their permits back; nothing of the request stays behind.  *)
AbandonedWorkEnds ==
    /\ serving ~> (pc = "replied" \/ ~serving)
    /\ \A a \in Attempt, i \in Item :
         serving /\ task[a][i] = "queued" ~> (Settled(a, i) \/ ~serving)
==============================================================================
