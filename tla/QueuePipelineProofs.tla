-------------------------- MODULE QueuePipelineProofs --------------------------
(* For any number of items and consumers: queue.join returns when every item   *)
(* is done, answers are in order, and the pipeline implements ParallelMap's    *)
(* safety.                                                                     *)
EXTENDS QueuePipeline, FiniteSetTheorems, TLAPS

USE NumItemsAssumption, WorkersAssumption

LEMMA ConsumerCount == NumConsumers \in Nat \ {0}
BY DEF NumConsumers

LEMMA ConsumersFinite ==
    IsFiniteSet(Consumer) /\ Cardinality(Consumer) = NumConsumers
<1>1. 1 \in Int /\ NumConsumers \in Int
  BY ConsumerCount
<1>2. QED
  BY <1>1, ConsumerCount, FS_Interval DEF Consumer

\* How many consumers are busy is a number, at most all of them.
LEMMA WorkingCount ==
    /\ IsFiniteSet(Working) /\ Cardinality(Working) \in Nat
    /\ Cardinality(Working) <= NumConsumers
    /\ Cardinality(Working) = 0 => Working = {}
<1>1. Working \subseteq Consumer
  BY DEF Working
<1>2. QED
  BY <1>1, ConsumersFinite, FS_Subset, FS_CardinalityType, FS_EmptySet

\* What get does to the sets of items and consumers.
LEMMA EffectOfGet ==
    ASSUME IInv, NEW c \in Consumer, Get(c)
    PROVE  /\ c \notin Working /\ taken + 1 \in Item
           /\ Working' = Working \union {c} /\ Held' = Held \union {taken + 1}
           /\ Succeeded' = Succeeded /\ Failed' = Failed
<1>1. TypeOK
  BY DEF IInv
<1>2. c \notin Working /\ Working' = Working \union {c}
  BY <1>1 DEF Get, Working, TypeOK
<1>3. taken + 1 \in Item
  BY <1>1 DEF Get, TypeOK, Item
<1>4. Held' = Held \union {taken + 1}
  BY <1>1, <1>2 DEF Get, TypeOK, Held
<1>5. QED
  BY <1>2, <1>3, <1>4 DEF Get, Succeeded, Failed

\* A consumer that is through with an item holds it no longer, and only it did.
LEMMA EffectOfGoingOn ==
    ASSUME IInv, NEW c \in Consumer, consumer[c] = "working", GoesOn(c)
    PROVE  /\ c \in Working /\ idx[c] \in Item /\ idx[c] \in Held
           /\ Working' = Working \ {c} /\ Held' = Held \ {idx[c]}
<1>1. TypeOK /\ HoldersOK
  BY DEF IInv
<1>2. c \in Working /\ Working' = Working \ {c}
  BY <1>1 DEF GoesOn, Working, TypeOK
<1>3. idx[c] \in Item /\ idx[c] \in Held
  BY <1>1, <1>2 DEF HoldersOK, Held, TypeOK
<1>4. \A d \in Working \ {c} : idx'[d] = idx[d] /\ idx[d] # idx[c]
  BY <1>1, <1>2 DEF GoesOn, HoldersOK, TypeOK, Working
<1>5. Held' = Held \ {idx[c]}
  BY <1>2, <1>4 DEF Held
<1>6. QED
  BY <1>2, <1>3, <1>5

LEMMA EffectOfReturning ==
    ASSUME IInv, NEW c \in Consumer, WorkReturns(c)
    PROVE  Succeeded' = Succeeded \union {idx[c]} /\ Failed' = Failed
<1>1. idx[c] \in Item
  BY EffectOfGoingOn DEF WorkReturns
<1>2. QED
  BY <1>1 DEF WorkReturns, Slot, Succeeded, Failed, IInv, TypeOK, Item, Nothing

LEMMA EffectOfRaising ==
    ASSUME IInv, NEW c \in Consumer, WorkRaises(c)
    PROVE  Succeeded' = Succeeded /\ Failed' = Failed \union {idx[c]}
<1>1. idx[c] \in Item
  BY EffectOfGoingOn DEF WorkRaises
<1>2. failures \in Seq(Item) /\ failures' = Append(failures, idx[c])
  BY DEF WorkRaises, IInv, TypeOK
<1>3. Failed' = Failed \union {idx[c]}
  BY <1>1, <1>2 DEF Failed
<1>4. QED
  BY <1>3 DEF WorkRaises, Succeeded

\* While a consumer works, the handler waits in join.
LEMMA WorkingMeansJoining ==
    ASSUME IInv, NEW c \in Consumer, consumer[c] = "working"
    PROVE  pc = "joining" /\ status = 0
BY DEF IInv, PhaseOK, TypeOK

\* The call starts with every item queued and no consumer busy.
LEMMA InitIInv == Init => IInv
<1> SUFFICES ASSUME Init PROVE IInv
  OBVIOUS
<1>1. TypeOK
  <2>1. consumer \in [Consumer -> {"getting", "working", "cancelled", "returned"}]
    BY DEF Init
  <2>2. idx \in [Consumer -> Item \union {Nothing}]
    BY DEF Init
  <2>3. results \in [Item -> Item \union {Nothing}]
    BY DEF Init
  <2>4. QED
    BY <2>1, <2>2, <2>3 DEF Init, TypeOK
<1>2. Working = {} /\ Held = {} /\ Succeeded = {} /\ Failed = {}
  BY DEF Init, Working, Held, Succeeded, Failed
<1>3. CountOK
  BY <1>2, FS_EmptySet DEF Init, CountOK
<1>4. HoldersOK /\ PlacesOK
  BY <1>2 DEF Init, HoldersOK, PlacesOK
<1>5. PhaseOK
  BY DEF Init, PhaseOK
<1>6. QED
  BY <1>1, <1>3, <1>4, <1>5 DEF IInv

\* Every step keeps the types; the count never falls below zero.
LEMMA StepTypeOK == ASSUME IInv, [Next]_vars PROVE TypeOK'
<1>0. TypeOK /\ CountOK
  BY DEF IInv
<1>1. ASSUME NEW c \in Consumer, Get(c) PROVE TypeOK'
  BY <1>0, <1>1 DEF Get, TypeOK, Item
<1>2. ASSUME NEW c \in Consumer, WorkReturns(c) \/ WorkRaises(c) PROVE TypeOK'
  <2>1. idx[c] \in Item /\ c \in Working
    BY <1>2, EffectOfGoingOn DEF WorkReturns, WorkRaises
  <2>2. Cardinality(Working) # 0
    BY <2>1, WorkingCount
  <2>3. unfinished - 1 \in 0..NumItems
    BY <1>0, <2>2, WorkingCount DEF CountOK, TypeOK
  <2>4. CASE WorkReturns(c)
    BY <1>0, <2>1, <2>3, <2>4 DEF WorkReturns, GoesOn, Slot, TypeOK
  <2>5. CASE WorkRaises(c)
    BY <1>0, <2>1, <2>3, <2>5 DEF WorkRaises, GoesOn, CountAfterFailure, TypeOK
  <2>6. QED
    BY <1>2, <2>4, <2>5
<1>3. ASSUME NEW c \in Consumer, ConsumerReturns(c) PROVE TypeOK'
  BY <1>0, <1>3 DEF ConsumerReturns, TypeOK
<1>4. CASE HandlerStep
  BY <1>0, <1>4 DEF HandlerStep, CancelConsumers, Reply, Status, TypeOK
<1>5. CASE UNCHANGED vars
  BY <1>0, <1>5 DEF vars, TypeOK
<1>6. QED
  BY <1>1, <1>2, <1>3, <1>4, <1>5 DEF Next, ConsumerStep

\* The queue's own count follows the items queued and the consumers at work.
LEMMA StepCountOK == ASSUME IInv, [Next]_vars PROVE CountOK'
<1>0. TypeOK /\ CountOK
  BY DEF IInv
<1>1. ASSUME NEW c \in Consumer, Get(c) PROVE CountOK'
  <2>1. Cardinality(Working)' = Cardinality(Working) + 1
    BY <1>1, EffectOfGet, WorkingCount, FS_AddElement
  <2>2. QED
    BY <1>0, <1>1, <2>1, WorkingCount DEF Get, CountOK, TypeOK
<1>2. ASSUME NEW c \in Consumer, WorkReturns(c) \/ WorkRaises(c) PROVE CountOK'
  <2>1. Cardinality(Working)' = Cardinality(Working) - 1
    BY <1>2, EffectOfGoingOn, WorkingCount, FS_RemoveElement DEF WorkReturns, WorkRaises
  <2>2. taken' = taken /\ unfinished' = unfinished - 1
    BY <1>2 DEF WorkReturns, WorkRaises, CountAfterFailure
  <2>3. QED
    BY <1>0, <2>1, <2>2, WorkingCount DEF CountOK, TypeOK
<1>3. ASSUME NEW c \in Consumer, ConsumerReturns(c) PROVE CountOK'
  <2>1. Working' = Working
    BY <1>0, <1>3 DEF ConsumerReturns, Working, TypeOK
  <2>2. QED
    BY <1>0, <1>3, <2>1 DEF ConsumerReturns, CountOK
<1>4. CASE CancelConsumers
  <2>1. Working = {}
    BY <1>0, <1>4, WorkingCount DEF CancelConsumers, MayCancel, CountOK, TypeOK
  <2>2. Working' = Working
    BY <1>4, <2>1 DEF CancelConsumers, Working
  <2>3. QED
    BY <1>0, <1>4, <2>2 DEF CancelConsumers, CountOK
<1>5. CASE Reply \/ UNCHANGED vars
  BY <1>0, <1>5 DEF Reply, vars, CountOK, Working
<1>6. QED
  BY <1>1, <1>2, <1>3, <1>4, <1>5 DEF Next, ConsumerStep, HandlerStep

\* When join returns, nothing is queued and nobody works.
LEMMA JoinFindsNobody ==
    ASSUME IInv, unfinished = 0
    PROVE  Working = {} /\ taken = NumItems /\ Held = {}
<1>1. Working = {} /\ taken = NumItems
  <2>1. Cardinality(Working) \in Nat /\ taken \in 0..NumItems
    BY WorkingCount DEF IInv, TypeOK
  <2>2. (NumItems - taken) + Cardinality(Working) = 0
    BY DEF IInv, CountOK
  <2>3. Cardinality(Working) = 0 /\ taken = NumItems
    BY <2>1, <2>2
  <2>4. QED
    BY <2>3, WorkingCount
<1>2. QED
  BY <1>1 DEF Held

\* A consumer has an item exactly while it works, and one nobody else has.
LEMMA StepHoldersOK == ASSUME IInv, [Next]_vars PROVE HoldersOK'
<1>0. TypeOK /\ HoldersOK /\ PlacesOK
  BY DEF IInv
<1>1. ASSUME NEW c \in Consumer, Get(c) PROVE HoldersOK'
  <2>1. \A d \in Working : idx[d] # taken + 1
    <3>1. \A d \in Working : idx[d] \in 1..taken
      BY <1>0 DEF PlacesOK, Held
    <3>2. taken + 1 \notin 1..taken
      BY <1>0 DEF TypeOK
    <3>3. QED
      BY <3>1, <3>2
  <2>2. \A d \in Consumer \ {c} : idx'[d] = idx[d] /\ consumer'[d] = consumer[d]
    BY <1>0, <1>1 DEF Get, TypeOK
  <2>3. idx'[c] = taken + 1 /\ consumer'[c] = "working" /\ taken + 1 # Nothing
    BY <1>0, <1>1 DEF Get, TypeOK, Nothing
  <2>4. Working' = Working \union {c} /\ c \notin Working
    BY <1>1, EffectOfGet
  <2>5. QED
    BY <1>0, <2>1, <2>2, <2>3, <2>4 DEF HoldersOK, Working
<1>2. ASSUME NEW c \in Consumer, WorkReturns(c) \/ WorkRaises(c) PROVE HoldersOK'
  <2>1. GoesOn(c)
    BY <1>2 DEF WorkReturns, WorkRaises
  <2>2. QED
    BY <1>0, <2>1 DEF GoesOn, HoldersOK, Working, TypeOK
<1>3. ASSUME NEW c \in Consumer, ConsumerReturns(c) PROVE HoldersOK'
  BY <1>0, <1>3 DEF ConsumerReturns, HoldersOK, Working, TypeOK
<1>4. CASE CancelConsumers
  <2>1. Working = {}
    BY <1>4, JoinFindsNobody DEF CancelConsumers, MayCancel
  <2>2. QED
    BY <1>0, <1>4, <2>1 DEF CancelConsumers, HoldersOK, Working, TypeOK
<1>5. CASE Reply \/ UNCHANGED vars
  BY <1>0, <1>5 DEF Reply, vars, HoldersOK, Working
<1>6. QED
  BY <1>1, <1>2, <1>3, <1>4, <1>5 DEF Next, ConsumerStep, HandlerStep

\* Every item taken is held, has its result in its slot, or has failed.
LEMMA StepPlacesOK == ASSUME IInv, [Next]_vars PROVE PlacesOK'
<1>0. TypeOK /\ HoldersOK /\ PlacesOK
  BY DEF IInv
<1>1. ASSUME NEW c \in Consumer, Get(c) PROVE PlacesOK'
  <2>1. 1..taken' = 1..taken \union {taken + 1} /\ taken + 1 \notin 1..taken
    BY <1>0, <1>1 DEF Get, TypeOK
  <2>2. /\ Held' = Held \union {taken + 1}
        /\ Succeeded' = Succeeded /\ Failed' = Failed
    BY <1>1, EffectOfGet
  <2>3. 1..taken' = Held' \union Succeeded' \union Failed'
    BY <1>0, <2>1, <2>2 DEF PlacesOK
  <2>4. Held' \intersect (Succeeded' \union Failed') = {}
    BY <1>0, <2>1, <2>2 DEF PlacesOK
  <2>5. Succeeded' \intersect Failed' = {} /\ results' = results
    BY <1>0, <1>1, <2>2 DEF PlacesOK, Get
  <2>6. QED
    BY <1>0, <2>3, <2>4, <2>5 DEF PlacesOK
<1>2. ASSUME NEW c \in Consumer, WorkReturns(c) PROVE PlacesOK'
  <2>1. idx[c] \in Item /\ idx[c] \in Held /\ Held' = Held \ {idx[c]}
    BY <1>2, EffectOfGoingOn DEF WorkReturns
  <2>2. taken' = taken /\ \A i \in Item : results'[i] \in {i, Nothing}
    BY <1>0, <1>2, <2>1 DEF WorkReturns, Slot, PlacesOK, TypeOK
  <2>3. Succeeded' = Succeeded \union {idx[c]} /\ Failed' = Failed
    BY <1>2, EffectOfReturning
  <2>4. QED
    BY <1>0, <2>1, <2>2, <2>3 DEF PlacesOK
<1>3. ASSUME NEW c \in Consumer, WorkRaises(c) PROVE PlacesOK'
  <2>1. idx[c] \in Item /\ idx[c] \in Held /\ Held' = Held \ {idx[c]}
    BY <1>3, EffectOfGoingOn DEF WorkRaises
  <2>2. taken' = taken /\ results' = results
    BY <1>3 DEF WorkRaises
  <2>3. Succeeded' = Succeeded /\ Failed' = Failed \union {idx[c]}
    BY <1>3, EffectOfRaising
  <2>4. 1..taken' = Held' \union Succeeded' \union Failed'
    BY <1>0, <2>1, <2>2, <2>3 DEF PlacesOK
  <2>5. /\ Held' \intersect (Succeeded' \union Failed') = {}
        /\ Succeeded' \intersect Failed' = {}
    BY <1>0, <2>1, <2>3 DEF PlacesOK
  <2>6. QED
    BY <1>0, <2>2, <2>4, <2>5 DEF PlacesOK
<1>4. ASSUME NEW c \in Consumer, ConsumerReturns(c) PROVE PlacesOK'
  <2>1. Held' = Held
    BY <1>0, <1>4 DEF ConsumerReturns, Held, Working, TypeOK
  <2>2. QED
    BY <1>0, <1>4, <2>1 DEF ConsumerReturns, PlacesOK, Succeeded, Failed
<1>5. CASE CancelConsumers
  <2>1. Held = {}
    BY <1>5, JoinFindsNobody DEF CancelConsumers, MayCancel
  <2>2. Held' = Held
    BY <1>5, <2>1 DEF CancelConsumers, Held, Working
  <2>3. QED
    BY <1>0, <1>5, <2>2 DEF CancelConsumers, PlacesOK, Succeeded, Failed
<1>6. CASE Reply \/ UNCHANGED vars
  BY <1>0, <1>6 DEF Reply, vars, PlacesOK, Held, Working, Succeeded, Failed
<1>7. QED
  BY <1>1, <1>2, <1>3, <1>4, <1>5, <1>6 DEF Next, ConsumerStep, HandlerStep

\* Consumers and handler are in step with each other.
LEMMA StepPhaseOK == ASSUME IInv, [Next]_vars PROVE PhaseOK'
<1>0. TypeOK /\ PhaseOK
  BY DEF IInv
<1>1. ASSUME NEW c \in Consumer, Get(c) PROVE PhaseOK'
  <2>1. pc = "joining" /\ status = 0
    BY <1>0, <1>1 DEF PhaseOK, TypeOK, Get
  <2>2. QED
    BY <1>0, <1>1, <2>1 DEF PhaseOK, TypeOK, Get
<1>2. ASSUME NEW c \in Consumer, WorkReturns(c) \/ WorkRaises(c) PROVE PhaseOK'
  <2>1. pc = "joining" /\ status = 0
    BY <1>2, WorkingMeansJoining DEF WorkReturns, WorkRaises
  <2>2. QED
    BY <1>0, <1>2, <2>1 DEF PhaseOK, TypeOK, WorkReturns, WorkRaises, GoesOn
<1>3. ASSUME NEW c \in Consumer, ConsumerReturns(c) PROVE PhaseOK'
  BY <1>0, <1>3 DEF PhaseOK, TypeOK, ConsumerReturns, ConsumersGone, Status
<1>4. CASE CancelConsumers
  BY <1>0, <1>4 DEF PhaseOK, TypeOK, CancelConsumers, MayCancel
<1>5. CASE Reply
  BY <1>0, <1>5 DEF PhaseOK, TypeOK, Reply, ConsumersGone, Status
<1>6. CASE UNCHANGED vars
  BY <1>0, <1>6 DEF PhaseOK, vars, ConsumersGone, Status
<1>7. QED
  BY <1>1, <1>2, <1>3, <1>4, <1>5, <1>6 DEF Next, ConsumerStep, HandlerStep

(* The inductive invariant: asyncio.Queue's count of unfinished tasks is the   *)
(* number of items queued or in work, and every item is in one place.          *)
THEOREM PipelineInvariant == Spec => []IInv
<1>1. IInv /\ [Next]_vars => IInv'
  BY StepTypeOK, StepCountOK, StepHoldersOK, StepPlacesOK, StepPhaseOK DEF IInv
<1>2. QED
  BY <1>1, InitIInv, PTL DEF Spec

\* After join, every item has a result or a failure.
LEMMA DoneAfterJoin == IInv => JoinMeansDone
<1> SUFFICES ASSUME IInv, pc # "joining"
             PROVE  /\ Succeeded \union Failed = Item /\ Working = {}
                    /\ Succeeded \intersect Failed = {}
  BY DEF JoinMeansDone
<1>1. unfinished = 0
  BY DEF IInv, PhaseOK
<1>2. QED
  BY <1>1, JoinFindsNobody DEF IInv, PlacesOK, Item

(* queue.join returns only when every item was worked on, exactly once.        *)
THEOREM JoinIsDone == Spec => []JoinMeansDone
BY DoneAfterJoin, PipelineInvariant, PTL

(* A 200 has the result of every item in its slot; a 500 has a reason.         *)
THEOREM AnswersInOrder == Spec => []AnswerIsInOrder
<1>1. IInv => AnswerIsInOrder
  <2> SUFFICES ASSUME IInv, status # 0 PROVE AnswerIsInOrder
    BY DEF AnswerIsInOrder
  <2>1. pc = "replied" /\ status = Status
    BY DEF IInv, PhaseOK
  <2>2. Succeeded \union Failed = Item
    BY <2>1, DoneAfterJoin DEF JoinMeansDone
  <2>3. ASSUME failures # <<>> PROVE Failed # {}
    <3>1. failures \in Seq(Item)
      BY DEF IInv, TypeOK
    <3>2. 1 \in DOMAIN failures
      BY <2>3, <3>1
    <3>3. failures[1] \in Failed
      BY <3>2 DEF Failed
    <3>4. QED
      BY <3>3
  <2>4. failures = <<>> => Failed = {}
    BY DEF Failed
  <2>5. status = 200 => \A i \in Item : results[i] = i
    BY <2>1, <2>2, <2>4 DEF Status, Succeeded, IInv, PlacesOK
  <2>6. status = 500 => Failed # {} \/ aggregate # "finite"
    BY <2>1, <2>3 DEF Status
  <2>7. QED
    BY <2>5, <2>6 DEF AnswerIsInOrder
<1>2. QED
  BY <1>1, PipelineInvariant, PTL

\* A map that is not over yet has no failure that counts as an answer.
LEMMA FailedIsFailures ==
    ASSUME IInv PROVE failures = <<>> <=> Failed = {}
<1>1. ASSUME failures # <<>> PROVE Failed # {}
  <2>1. failures \in Seq(Item)
    BY DEF IInv, TypeOK
  <2>2. 1 \in DOMAIN failures
    BY <1>1, <2>1
  <2>3. failures[1] \in Failed
    BY <2>2 DEF Failed
  <2>4. QED
    BY <2>3
<1>2. failures = <<>> => Failed = {}
  BY DEF Failed
<1>3. QED
  BY <1>1, <1>2

\* ParallelMap counts as this module does.
LEMMA SameCardinality == \A S : Map!Cardinality(S) = Cardinality(S)
BY DEF Map!Cardinality, Cardinality

\* A consumer that is about to take an item is not among those that hold one.
LEMMA FewerThanConsumers ==
    ASSUME IInv, NEW c \in Consumer, Get(c)
    PROVE  Cardinality(Held) < NumConsumers
<1>1. Working \subseteq Consumer \ {c}
  BY DEF Working, Get
<1>2. IsFiniteSet(Consumer \ {c}) /\ Cardinality(Consumer \ {c}) = NumConsumers - 1
  BY ConsumersFinite, FS_RemoveElement
<1>3. IsFiniteSet(Working) /\ Cardinality(Working) <= NumConsumers - 1
  BY <1>1, <1>2, FS_Subset
<1>4. IsFiniteSet(Held) /\ Cardinality(Held) <= Cardinality(Working)
  <2> DEFINE f == [d \in Working |-> idx[d]]
  <2>1. f \in Surjection(Working, Held)
    BY DEF Held, Surjection
  <2>2. QED
    BY <1>3, <2>1, FS_Surjection
<1>5. Cardinality(Held) \in Nat /\ Cardinality(Working) \in Nat
  BY <1>3, <1>4, FS_CardinalityType
<1>6. QED
  BY <1>3, <1>4, <1>5, ConsumerCount

(* The pipeline is a parallel map: every step of it applies the work function  *)
(* to an item not yet worked on, ends such an application, or returns when     *)
(* none is left, and never are more than max(1, workers) under way.            *)
THEOREM PipelineImplementsMap == Spec => Map!Safety
<1>1. Init => Map!Init
  <2> SUFFICES ASSUME Init PROVE Map!Init
    OBVIOUS
  <2>1. Held = {} /\ Succeeded = {} /\ Failed = {} /\ status = 0
    BY DEF Init, Working, Held, Succeeded, Failed
  <2>2. QED
    BY <2>1 DEF Map!Init
<1>2. IInv /\ [Next]_vars => [Map!Next]_(Map!vars)
  <2> SUFFICES ASSUME IInv, [Next]_vars PROVE [Map!Next]_(Map!vars)
    OBVIOUS
  <2> USE DEF Map!Next, Map!vars
  <2>0. TypeOK /\ HoldersOK /\ PlacesOK /\ PhaseOK
    BY DEF IInv
  <2>1. ASSUME NEW c \in Consumer, Get(c) PROVE Map!Start(taken + 1)
    <3>1. taken + 1 \notin Held \union Succeeded \union Failed
      BY <2>0 DEF PlacesOK, TypeOK
    <3>2. Cardinality(Held) < NumConsumers
      BY <2>1, FewerThanConsumers
    <3>3. Held' = Held \union {taken + 1} /\ Succeeded' = Succeeded /\ Failed' = Failed
      BY <2>1, EffectOfGet
    <3>4. status' = status /\ failures' = failures
      BY <2>1 DEF Get
    <3>5. status = 0
      BY <2>0, <2>1 DEF PhaseOK, TypeOK, Get
    <3> DEFINE i == taken + 1
    <3>6. i \notin Held \union Succeeded \union Failed /\ Held' = Held \union {i}
      BY <3>1, <3>3
    <3> HIDE DEF i
    <3>7. Map!Start(i)
      BY <3>2, <3>3, <3>4, <3>5, <3>6, SameCardinality DEF Map!Start
    <3>8. QED
      BY <3>7 DEF i
  <2>2. ASSUME NEW c \in Consumer, WorkReturns(c) PROVE Map!Succeed(idx[c])
    <3>1. idx[c] \in Held /\ Held' = Held \ {idx[c]}
      BY <2>2, EffectOfGoingOn DEF WorkReturns
    <3>2. Succeeded' = Succeeded \union {idx[c]} /\ Failed' = Failed
      BY <2>2, EffectOfReturning
    <3>3. status' = status /\ failures' = failures
      BY <2>2 DEF WorkReturns
    <3>4. QED
      BY <3>1, <3>2, <3>3 DEF Map!Succeed
  <2>3. ASSUME NEW c \in Consumer, WorkRaises(c) PROVE Map!Fail(idx[c])
    <3>1. idx[c] \in Held /\ Held' = Held \ {idx[c]}
      BY <2>3, EffectOfGoingOn DEF WorkRaises
    <3>2. Succeeded' = Succeeded /\ Failed' = Failed \union {idx[c]}
      BY <2>3, EffectOfRaising
    <3>3. status = 0 /\ status' = status
      BY <2>3, WorkingMeansJoining DEF WorkRaises
    <3>4. QED
      BY <3>1, <3>2, <3>3 DEF Map!Fail
  <2>4. CASE Reply
    <3>1. status = 0 /\ status' # 0 /\ failures' = failures
      BY <2>0, <2>4 DEF Reply, Status, PhaseOK
    <3>2. Held = {} /\ Succeeded \union Failed = Item
      BY <2>4, DoneAfterJoin DEF Reply, JoinMeansDone, Held
    <3>3. Held' = Held /\ Succeeded' = Succeeded /\ Failed' = Failed
      BY <2>4 DEF Reply, Held, Working, Succeeded, Failed
    <3>4. Map!Return
      BY <3>1, <3>2, <3>3, FailedIsFailures DEF Map!Return
    <3>5. QED
      BY <3>4
  <2>5. ASSUME CancelConsumers \/ \E c \in Consumer : ConsumerReturns(c)
        PROVE  UNCHANGED Map!vars
    <3>1. Working = {} /\ Working' = {}
      BY <2>0, <2>5, JoinFindsNobody
      DEF CancelConsumers, MayCancel, ConsumerReturns, Working, PhaseOK, TypeOK
    <3>2. Held = {} /\ Held' = {}
      BY <3>1 DEF Held
    <3>3. UNCHANGED <<results, failures, status>>
      BY <2>5 DEF CancelConsumers, ConsumerReturns
    <3>4. QED
      BY <3>2, <3>3 DEF Succeeded, Failed
  <2>6. CASE UNCHANGED vars
    BY <2>6 DEF vars, Held, Working, Succeeded, Failed
  <2>7. ASSUME NEW c \in Consumer, Get(c) \/ WorkReturns(c) \/ WorkRaises(c)
        PROVE  Map!Next
    <3>1. taken + 1 \in Item \/ ~Get(c)
      BY EffectOfGet
    <3>2. idx[c] \in Item \/ ~(WorkReturns(c) \/ WorkRaises(c))
      BY EffectOfGoingOn DEF WorkReturns, WorkRaises
    <3>3. QED
      BY <2>1, <2>2, <2>3, <2>7, <3>1, <3>2
  <2>8. QED
    BY <2>4, <2>5, <2>6, <2>7 DEF Next, ConsumerStep, HandlerStep
<1>3. QED
  BY <1>1, <1>2, PipelineInvariant, PTL DEF Spec, Map!Safety
==============================================================================
