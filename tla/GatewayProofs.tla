----------------------------- MODULE GatewayProofs -----------------------------
(* For any number of items and attempts, any concurrency and any set of        *)
(* services: what the statuses of service-a and of the gateway tell is true.   *)
EXTENDS Gateway, FiniteSetTheorems, TLAPS

USE NumItemsAssumption, AttemptsAssumption, ConcurrencyAssumption

SomeFailed(a) == \E i \in Item : task[a][i] = "failed"

\* The fan-out: what gather raised has a failed call behind it, attempts to
\* come have created nothing, and the handler goes on only when all calls did.
FanOutInv ==
    /\ TypeOK
    /\ \A a \in Attempt : raised[a] = "failed" \/ a < attempt => SomeFailed(a)
    /\ \A a \in Attempt : a > attempt => /\ raised[a] = "nothing"
                                         /\ \A i \in Item : task[a][i] = "none"
    /\ pc = "backoff" => SomeFailed(attempt) /\ attempt < Attempts
    /\ pc \in {"cpp", "aggregating"} \/ status \in {200, 400} =>
         \A i \in Item : task[attempt][i] = "ok"
    /\ status = 502 => attempt = Attempts /\ SomeFailed(Attempts)
    /\ pc # "replied" => status = 0

\* The gateway: only a request it forwarded reaches service-a.
GatewayInv ==
    /\ FanOutInv
    /\ gw # "replied" => gwStatus = 0
    /\ gw = "waiting" \/ serving => endpoint = "process"
    /\ gw = "probing" => endpoint = "health"
    /\ endpoint # "process" => \A a \in Attempt, i \in Item : task[a][i] \in {"none", "queued"}
    /\ endpoint = "process" /\ gwStatus = 200 => status = 200
    /\ gwStatus = 400 => endpoint = "unknown"

LEMMA FanOutStart == Init => FanOutInv
BY DEF Init, FanOutInv, TypeOK, SomeFailed, Created, Attempt, Item, Operation

\* A step of a call touches a task that was created, never one that is through.
LEMMA CallStep ==
    ASSUME FanOutInv, NEW a \in Attempt, NEW i \in Item, TaskStep(a, i)
    PROVE  FanOutInv'
<1> DEFINE OtherTasks == \A b \in Attempt, j \in Item :
                        b # a \/ j # i => task'[b][j] = task[b][j]
<1>1. /\ task[a][i] \in {"queued", "sent"}
      /\ task'[a][i] \in {"sent", "ok", "failed", "broken"} /\ OtherTasks
      /\ task' \in [Attempt -> [Item -> {"none", "queued", "sent", "ok", "failed", "broken"}]]
      /\ UNCHANGED <<pc, operation, attempt, cpp, status>>
  BY DEF FanOutInv, TypeOK, TaskStep, Send, CallSucceeds, CallRaises
<1>2. \/ UNCHANGED raised
      \/ /\ raised' \in [Attempt -> {"nothing", "failed", "broken"}]
         /\ \A b \in Attempt : b # a => raised'[b] = raised[b]
         /\ raised'[a] = "failed" => raised[a] = "failed" \/ task'[a][i] = "failed"
  <2>1. CASE Send(a, i) \/ CallSucceeds(a, i)
    BY <2>1 DEF Send, CallSucceeds
  <2>2. CASE CallRaises(a, i)
    <3>1. PICK error \in {"failed", "broken"} :
            /\ task' = [task EXCEPT ![a][i] = error]
            /\ raised' = [raised EXCEPT ![a] = IF @ = "nothing" THEN error ELSE @]
      BY <2>2 DEF CallRaises
    <3>2. raised \in [Attempt -> {"nothing", "failed", "broken"}] /\ task'[a][i] = error
      BY <3>1 DEF FanOutInv, TypeOK
    <3>3. QED
      BY <3>1, <3>2
  <2>3. QED
    BY <2>1, <2>2 DEF TaskStep
<1>3. a <= attempt
  BY <1>1 DEF FanOutInv, Attempt, TypeOK
<1>4. \A b \in Attempt : SomeFailed(b) => SomeFailed(b)'
  BY <1>1 DEF SomeFailed
<1>5. TypeOK'
  BY <1>1, <1>2 DEF FanOutInv, TypeOK
<1>6. \A b \in Attempt : raised'[b] = "failed" \/ b < attempt' => SomeFailed(b)'
  BY <1>1, <1>2, <1>4 DEF FanOutInv, SomeFailed
<1>7. \A b \in Attempt : b > attempt' => raised'[b] = "nothing"
                                         /\ \A j \in Item : task'[b][j] = "none"
  BY <1>1, <1>2, <1>3 DEF FanOutInv, Attempt, TypeOK
<1>8. (\A j \in Item : task[attempt][j] = "ok") => \A j \in Item : task'[attempt][j] = "ok"
  BY <1>1 DEF FanOutInv, TypeOK
<1>9. Attempts \in Attempt /\ attempt \in Attempt
  BY DEF FanOutInv, TypeOK, Attempt
<1>10. QED
  BY <1>1, <1>4, <1>5, <1>6, <1>7, <1>8, <1>9 DEF FanOutInv

LEMMA HandlerStepInv == ASSUME FanOutInv, HandlerStep PROVE FanOutInv'
<1> USE DEF FanOutInv, TypeOK
<1>1. CASE GatherReturns
  BY <1>1 DEF GatherReturns, AllDone, SomeFailed
<1>2. CASE Backoff
  BY <1>2 DEF Backoff, LastAttempt, SomeFailed, Attempt
<1>3. CASE Retry
  <2>1. attempt + 1 \in Attempt /\ attempt' = attempt + 1
    BY <1>3 DEF Retry, Attempt
  <2>2. /\ task' \in [Attempt -> [Item -> {"none", "queued", "sent", "ok", "failed", "broken"}]]
        /\ \A b \in Attempt, j \in Item : b # attempt + 1 => task'[b][j] = task[b][j]
    BY <1>3, <2>1 DEF Retry, Created
  <2>3. \A b \in Attempt : b < attempt + 1 => SomeFailed(b)'
    BY <1>3, <2>2 DEF Retry, SomeFailed, Attempt
  <2>4. \A b \in Attempt : raised[b] = "failed" => b < attempt + 1
    BY DEF Attempt
  <2>5. \A b \in Attempt : b > attempt + 1 => raised[b] = "nothing"
                                              /\ \A j \in Item : task'[b][j] = "none"
    BY <2>2 DEF Attempt
  <2>6. status = 0
    BY <1>3 DEF Retry
  <2>7. QED
    BY <1>3, <2>1, <2>2, <2>3, <2>4, <2>5, <2>6 DEF Retry
<1>4. CASE GiveUp
  BY <1>4 DEF GiveUp, Reply, LastAttempt, SomeFailed
<1>5. CASE Unhandled
  BY <1>5 DEF Unhandled, Reply, SomeFailed
<1>6. CASE CppCall
  BY <1>6 DEF CppCall, SomeFailed
<1>7. CASE CppBroken
  BY <1>7 DEF CppBroken, Reply, SomeFailed
<1>8. CASE Aggregate
  BY <1>8 DEF Aggregate, Reply, SomeFailed
<1>9. QED
  BY <1>1, <1>2, <1>3, <1>4, <1>5, <1>6, <1>7, <1>8 DEF HandlerStep

\* What leaves service-a's variables alone leaves its invariant alone.
LEMMA FanOutKept == ASSUME FanOutInv, UNCHANGED vars PROVE FanOutInv'
BY DEF FanOutInv, TypeOK, SomeFailed, vars

LEMMA GatewayStart == GatewayInit => GatewayInv
<1>1. Init => \A a \in Attempt, i \in Item : task[a][i] \in {"none", "queued"}
  BY DEF Init, Created
<1>2. QED
  BY <1>1, FanOutStart DEF GatewayInit, GatewayInv

LEMMA GatewayStepInv == GatewayInv /\ [GatewayNext]_allVars => GatewayInv'
<1> SUFFICES ASSUME GatewayInv, [GatewayNext]_allVars PROVE GatewayInv'
  OBVIOUS
<1>1. CASE \E a \in Attempt, i \in Item : ServiceACalls(a, i)
  <2>1. PICK a \in Attempt, i \in Item : ServiceACalls(a, i)
    BY <1>1
  <2>2. serving /\ UNCHANGED gwVars /\ TaskStep(a, i)
    BY <2>1 DEF ServiceACalls
  <2>3. FanOutInv'
    BY <2>2, CallStep DEF GatewayInv
  <2>4. UNCHANGED status
    BY <2>2 DEF TaskStep, Send, CallSucceeds, CallRaises
  <2>5. QED
    BY <2>2, <2>3, <2>4 DEF GatewayInv, gwVars
<1>2. CASE ServiceAHandles
  <2>1. serving /\ UNCHANGED gwVars /\ HandlerStep
    BY <1>2 DEF ServiceAHandles
  <2>2. FanOutInv'
    BY <2>1, HandlerStepInv DEF GatewayInv
  <2>3. status # 0 => UNCHANGED status
    BY <2>1 DEF GatewayInv, FanOutInv, HandlerStep, GatherReturns, Backoff, Retry, GiveUp,
                Unhandled, CppCall, CppBroken, Aggregate
  <2>4. QED
    BY <2>1, <2>2, <2>3 DEF GatewayInv, gwVars
<1>3. CASE GatewayStep \/ Disconnected \/ ServiceADies \/ UNCHANGED allVars
  <2>1. UNCHANGED vars
    BY <1>3
    DEF GatewayStep, Refuse, Forward, ConnectFails, GiveUpWaiting, Relay, StartProbes,
        HealthDocument, HealthBroken, ProbeReturns, Disconnected, ServiceADies, allVars
  <2>2. FanOutInv'
    BY <2>1, FanOutKept DEF GatewayInv
  <2>3. UNCHANGED <<status, task>>
    BY <2>1 DEF vars
  <2>4. CASE Refuse \/ Forward \/ ConnectFails \/ GiveUpWaiting \/ Disconnected
    BY <2>2, <2>3, <2>4
    DEF GatewayInv, Refuse, Forward, ConnectFails, GiveUpWaiting, Disconnected, Answer
  <2>5. CASE Relay
    BY <2>2, <2>3, <2>5 DEF GatewayInv, Relay, Relayed, Answer
  <2>6. CASE StartProbes \/ HealthDocument \/ HealthBroken
    <3>1. endpoint = "health" /\ ~serving /\ UNCHANGED <<endpoint, serving>>
      BY <2>6 DEF GatewayInv, StartProbes, HealthDocument, HealthBroken
    <3>2. \/ gw' = "probing" /\ gw = "received" /\ UNCHANGED gwStatus
          \/ gw' = "replied" /\ gwStatus' \in {200, 500}
      BY <2>6 DEF StartProbes, HealthDocument, HealthBroken, Answer
    <3>3. QED
      BY <2>2, <2>3, <3>1, <3>2 DEF GatewayInv
  <2>7. CASE ServiceADies \/ (\E s \in Service : ProbeReturns(s)) \/ UNCHANGED allVars
    BY <2>2, <2>3, <2>7 DEF GatewayInv, ServiceADies, ProbeReturns, allVars, gwVars
  <2>8. QED
    BY <1>3, <2>4, <2>5, <2>6, <2>7 DEF GatewayStep
<1>4. QED
  BY <1>1, <1>2, <1>3 DEF GatewayNext

(* The inductive invariant of a request, across the gateway and service-a.     *)
THEOREM RequestInvariant == GatewaySpec => []GatewayInv
BY GatewayStart, GatewayStepInv, PTL DEF GatewaySpec

(* Service-a's status tells the truth about the calls behind it, also when its *)
(* client has given up.                                                        *)
THEOREM StatusesAreTrue == GatewaySpec => []StatusIsTrue
<1>1. GatewayInv => StatusIsTrue
  <2> SUFFICES ASSUME GatewayInv PROVE StatusIsTrue
    OBVIOUS
  <2>1. attempt \in Attempt
    BY DEF GatewayInv, FanOutInv, TypeOK
  <2>2. status = 502 => \A a \in Attempt : SomeFailed(a)
    BY DEF GatewayInv, FanOutInv, Attempt
  <2>3. QED
    BY <2>1, <2>2 DEF GatewayInv, FanOutInv, SomeFailed, StatusIsTrue
<1>2. QED
  BY <1>1, RequestInvariant, PTL

(* A result the gateway passes on was earned by one attempt of the fan-out,    *)
(* and a refused flavour cost service-a nothing.                               *)
THEOREM ResultsAreEarned == GatewaySpec => []ResultIsEarned
<1>1. GatewayInv => ResultIsEarned
  BY DEF GatewayInv, FanOutInv, ResultIsEarned
<1>2. QED
  BY <1>1, RequestInvariant, PTL

------------------------------------------------------------------------------
(* What the document of /system/health says.                                   *)

\* A document was written when every probe had an answer, none of them garbled;
\* a 500 was given for a probe that stays garbled, whatever the others come to.
HealthInv ==
    /\ probe \in [Service -> {"pending", "ok", "down", "garbled"}]
    /\ gwOk => gw = "replied" /\ \A s \in Service : probe[s] = "ok"
    /\ endpoint = "health" /\ gw = "replied" =>
         \/ gwStatus = 200 /\ \A s \in Service : probe[s] \in {"ok", "down"}
         \/ gwStatus = 500 /\ \E s \in Service : probe[s] = "garbled"

\* Once a probe has its answer, it keeps it.
LEMMA ProbeKeepsOthers ==
    ASSUME HealthInv, NEW s \in Service, ProbeReturns(s)
    PROVE  /\ probe' \in [Service -> {"pending", "ok", "down", "garbled"}]
           /\ \A r \in Service : probe[r] # "pending" => probe'[r] = probe[r]
           /\ probe[s] = "pending"
BY DEF HealthInv, ProbeReturns

LEMMA HealthStep == GatewayInv /\ HealthInv /\ [GatewayNext]_allVars => HealthInv'
<1> SUFFICES ASSUME GatewayInv, HealthInv, [GatewayNext]_allVars PROVE HealthInv'
  OBVIOUS
<1>1. CASE UNCHANGED <<gw, endpoint, probe, gwStatus, gwOk>>
  BY <1>1 DEF HealthInv
<1>2. CASE Refuse \/ Forward \/ ConnectFails
  BY <1>2 DEF HealthInv, Refuse, Forward, ConnectFails, Answer
<1>3. CASE GiveUpWaiting \/ Disconnected \/ Relay
  <2>1. endpoint = "process" /\ ~gwOk /\ UNCHANGED <<endpoint, probe, gwOk>>
    BY <1>3 DEF GatewayInv, HealthInv, GiveUpWaiting, Disconnected, Relay
  <2>2. QED
    BY <2>1 DEF HealthInv
<1>4. CASE StartProbes
  BY <1>4 DEF HealthInv, StartProbes
<1>5. ASSUME NEW s \in Service, ProbeReturns(s)
      PROVE  HealthInv'
  <2>1. UNCHANGED <<gw, endpoint, gwStatus, gwOk>>
    BY <1>5 DEF ProbeReturns
  <2>2. /\ probe' \in [Service -> {"pending", "ok", "down", "garbled"}]
        /\ \A r \in Service : probe[r] # "pending" => probe'[r] = probe[r]
    BY <1>5, ProbeKeepsOthers
  <2>3. QED
    BY <2>1, <2>2 DEF HealthInv
<1>6. CASE HealthDocument
  <2>1. /\ gw' = "replied" /\ gwStatus' = 200 /\ UNCHANGED <<endpoint, probe>>
        /\ \A s \in Service : probe[s] \in {"ok", "down"}
        /\ gwOk' => \A s \in Service : probe[s] = "ok"
    BY <1>6 DEF HealthDocument, Answer, CountsAsUp
  <2>2. QED
    BY <2>1 DEF HealthInv
<1>7. CASE HealthBroken
  <2>1. ~gwOk
    BY <1>7 DEF HealthInv, HealthBroken
  <2>2. QED
    BY <1>7, <2>1 DEF HealthInv, HealthBroken, Answer
<1>8. QED
  BY <1>1, <1>2, <1>3, <1>4, <1>5, <1>6, <1>7
  DEF GatewayNext, GatewayStep, ServiceADies, ServiceAHandles, ServiceACalls, gwVars, allVars

(* For any set of services, whatever order their answers come in: a healthy    *)
(* fleet is one all of whose services answered, and a document is withheld     *)
(* exactly for a garbled body.                                                 *)
THEOREM HealthDocumentsAreTrue == GatewaySpec => []HealthIsTrue
<1>1. GatewayInit => HealthInv
  BY DEF GatewayInit, HealthInv
<1>2. HealthInv => HealthIsTrue
  BY DEF HealthInv, HealthIsTrue
<1>3. QED
  BY <1>1, <1>2, HealthStep, RequestInvariant, PTL DEF GatewaySpec

------------------------------------------------------------------------------
(* How many calls are in flight.                                               *)
PermitsHeld == \A a \in Attempt : Cardinality(InFlight(a)) <= Permits

LEMMA PermitsType == Permits \in Nat \ {0}
BY DEF Permits

LEMMA InFlightFinite == ASSUME NEW a PROVE IsFiniteSet(InFlight(a))
<1>1. IsFiniteSet(Item)
  BY FS_Interval DEF Item
<1>2. QED
  BY <1>1, FS_Subset, InFlight(a) \in SUBSET Item DEF InFlight

LEMMA PermitsStart == Init => PermitsHeld
<1> SUFFICES ASSUME Init, NEW a \in Attempt PROVE Cardinality(InFlight(a)) <= Permits
  BY DEF PermitsHeld
<1>1. InFlight(a) = {}
  BY DEF Init, Created, InFlight
<1>2. QED
  BY <1>1, FS_EmptySet, PermitsType

\* A call takes a permit that is free; a call that ends, in any way, gives it back.
LEMMA CallKeepsPermits ==
    ASSUME TypeOK, PermitsHeld, NEW a \in Attempt, NEW i \in Item, TaskStep(a, i)
    PROVE  PermitsHeld'
<1> SUFFICES ASSUME NEW b \in Attempt PROVE Cardinality(InFlight(b)') <= Permits
  BY DEF PermitsHeld, Permits
<1>1. CASE b # a
  <2>1. InFlight(b)' = InFlight(b)
    BY <1>1 DEF TypeOK, TaskStep, Send, CallSucceeds, CallRaises, InFlight
  <2>2. QED
    BY <2>1 DEF PermitsHeld
<1>2. CASE b = a /\ Send(a, i)
  <2>1. InFlight(a)' = InFlight(a) \cup {i} /\ i \notin InFlight(a)
    BY <1>2 DEF TypeOK, Send, InFlight
  <2>2. Cardinality(InFlight(a)) < Permits
    BY <1>2 DEF Send, Holding
  <2>3. Cardinality(InFlight(a)) \in Nat
    BY InFlightFinite, FS_CardinalityType
  <2>4. Cardinality(InFlight(a) \cup {i}) = Cardinality(InFlight(a)) + 1
    BY <2>1, InFlightFinite, FS_AddElement
  <2>5. QED
    BY <1>2, <2>1, <2>2, <2>3, <2>4, PermitsType
<1>3. CASE b = a /\ (CallSucceeds(a, i) \/ CallRaises(a, i))
  <2>1. InFlight(a)' = InFlight(a) \ {i} /\ i \in InFlight(a)
    BY <1>3 DEF TypeOK, CallSucceeds, CallRaises, InFlight
  <2>2. Cardinality(InFlight(a)) \in Nat /\ Cardinality(InFlight(a)) <= Permits
    BY InFlightFinite, FS_CardinalityType DEF PermitsHeld
  <2>3. Cardinality(InFlight(a) \ {i}) = Cardinality(InFlight(a)) - 1
    BY <2>1, InFlightFinite, FS_RemoveElement
  <2>4. QED
    BY <1>3, <2>1, <2>2, <2>3, PermitsType
<1>4. QED
  BY <1>1, <1>2, <1>3 DEF TaskStep

\* A new attempt has a semaphore of its own and nothing in flight yet.
LEMMA HandlerKeepsPermits == ASSUME TypeOK, PermitsHeld, HandlerStep PROVE PermitsHeld'
<1> SUFFICES ASSUME NEW b \in Attempt PROVE Cardinality(InFlight(b)') <= Permits
  BY DEF PermitsHeld, Permits
<1>1. CASE Retry /\ b = attempt + 1
  <2>1. InFlight(b)' = {}
    BY <1>1 DEF Retry, Created, InFlight, TypeOK
  <2>2. QED
    BY <2>1, FS_EmptySet, PermitsType
<1>2. CASE ~Retry \/ b # attempt + 1
  <2>1. InFlight(b)' = InFlight(b)
    BY <1>2 DEF TypeOK, HandlerStep, GatherReturns, Backoff, Retry, Created, GiveUp, Unhandled,
                CppCall, CppBroken, Aggregate, InFlight
  <2>2. QED
    BY <2>1 DEF PermitsHeld
<1>3. QED
  BY <1>1, <1>2

LEMMA PermitsStep == GatewayInv /\ PermitsHeld /\ [GatewayNext]_allVars => PermitsHeld'
<1> SUFFICES ASSUME GatewayInv, PermitsHeld, [GatewayNext]_allVars PROVE PermitsHeld'
  OBVIOUS
<1>1. CASE UNCHANGED vars
  BY <1>1 DEF vars, PermitsHeld, InFlight, Permits
<1>2. CASE HandlerStep
  BY <1>2, HandlerKeepsPermits DEF GatewayInv, FanOutInv
<1>3. CASE \E a \in Attempt, i \in Item : TaskStep(a, i)
  BY <1>3, CallKeepsPermits DEF GatewayInv, FanOutInv
<1>4. QED
  BY <1>1, <1>2, <1>3
  DEF GatewayNext, ServiceACalls, ServiceAHandles, GatewayStep, Refuse, Forward, ConnectFails,
      GiveUpWaiting, Relay, StartProbes, HealthDocument, HealthBroken, ProbeReturns,
      Disconnected, ServiceADies, allVars

(* Numbering the calls in flight within each attempt maps them into the pairs  *)
(* of an attempt begun and a permit.                                           *)
LEMMA PermitsBoundOutstanding == GatewayInv /\ PermitsHeld => InFlightBounded
<1> SUFFICES ASSUME GatewayInv, PermitsHeld PROVE Cardinality(Outstanding) <= attempt * Permits
  BY DEF InFlightBounded
<1> DEFINE Card(a) == Cardinality(InFlight(a))
           Number == [a \in Attempt |-> CHOOSE f : f \in Bijection(InFlight(a), 1..Card(a))]
           Place == [x \in Outstanding |-> <<x[1], Number[x[1]][x[2]]>>]
           Pairs == (1..attempt) \X (1..Permits)
<1>1. attempt \in Nat /\ attempt \in Attempt /\ Permits \in Nat
  BY PermitsType DEF GatewayInv, FanOutInv, TypeOK, Attempt
<1>2. ASSUME NEW a \in Attempt
      PROVE  Number[a] \in Bijection(InFlight(a), 1..Card(a)) /\ Card(a) \in Nat /\ Card(a) <= Permits
  <2>1. Card(a) \in Nat /\ IsFiniteSet(InFlight(a)) /\ Card(a) <= Permits
    BY InFlightFinite, FS_CardinalityType DEF PermitsHeld
  <2>2. IsFiniteSet(1..Card(a)) /\ Cardinality(1..Card(a)) = Card(a)
    BY <2>1, FS_Interval
  <2>3. ExistsBijection(InFlight(a), 1..Card(a))
    BY <2>1, <2>2, FS_SameCardinalityBij
  <2>4. QED
    BY <2>1, <2>3 DEF ExistsBijection
<1>3. ASSUME NEW x \in Outstanding
      PROVE  /\ x = <<x[1], x[2]>> /\ x[1] \in Attempt /\ x[1] \in 1..attempt
             /\ x[2] \in InFlight(x[1])
  <2>1. x = <<x[1], x[2]>> /\ x[1] \in Attempt /\ x[2] \in Item /\ task[x[1]][x[2]] = "sent"
    BY DEF Outstanding
  <2>2. x[1] <= attempt
    BY <1>1, <2>1 DEF GatewayInv, FanOutInv, Attempt
  <2>3. QED
    BY <1>1, <2>1, <2>2 DEF InFlight, Attempt
<1>4. \A x \in Outstanding : Number[x[1]][x[2]] \in 1..Permits
  <2> SUFFICES ASSUME NEW x \in Outstanding PROVE Number[x[1]][x[2]] \in 1..Permits
    OBVIOUS
  <2>1. Number[x[1]][x[2]] \in 1..Card(x[1])
    BY <1>2, <1>3 DEF Bijection, Injection
  <2>2. QED
    BY <1>1, <1>2, <1>3, <2>1
<1>5. Place \in [Outstanding -> Pairs]
  BY <1>3, <1>4
<1>6. ASSUME NEW x \in Outstanding, NEW y \in Outstanding, Place[x] = Place[y] PROVE x = y
  <2>1. \A a, b, m, n : <<a, m>> = <<b, n>> => a = b /\ m = n
    OBVIOUS
  <2>2. <<x[1], Number[x[1]][x[2]]>> = <<y[1], Number[y[1]][y[2]]>>
    BY <1>6
  <2>3. x[1] = y[1] /\ Number[x[1]][x[2]] = Number[y[1]][y[2]]
    BY <2>1, <2>2
  <2>4. Number[x[1]] \in Injection(InFlight(x[1]), 1..Card(x[1]))
    BY <1>2, <1>3 DEF Bijection
  <2>5. x[2] \in InFlight(x[1]) /\ y[2] \in InFlight(x[1])
    BY <1>3, <2>3
  <2>6. x[2] = y[2]
    BY <2>3, <2>4, <2>5 DEF Injection, IsInjective
  <2>7. QED
    BY <1>3, <2>3, <2>6
<1>7. Place \in Injection(Outstanding, Pairs)
  BY <1>5, <1>6 DEF Injection, IsInjective
<1>8. IsFiniteSet(Pairs) /\ Cardinality(Pairs) = attempt * Permits
  <2>1. /\ IsFiniteSet(1..attempt) /\ Cardinality(1..attempt) = attempt
        /\ IsFiniteSet(1..Permits) /\ Cardinality(1..Permits) = Permits
    BY <1>1, PermitsType, FS_Interval DEF Attempt
  <2>2. /\ IsFiniteSet(Pairs)
        /\ Cardinality(Pairs) = Cardinality(1..attempt) * Cardinality(1..Permits)
    BY <2>1, FS_Product
  <2>3. QED
    BY <2>1, <2>2
<1>9. QED
  BY <1>7, <1>8, FS_Injection

(* What one request has in flight at service-b is bounded by the attempts it   *)
(* began, whatever fails, times out or dies.                                   *)
THEOREM CallsInFlightAreBounded == GatewaySpec => []InFlightBounded
<1>1. GatewayInit => PermitsHeld
  BY PermitsStart DEF GatewayInit
<1>2. QED
  BY <1>1, PermitsStep, PermitsBoundOutstanding, RequestInvariant, PTL DEF GatewaySpec
==============================================================================
