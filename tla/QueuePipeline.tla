----------------------------- MODULE QueuePipeline -----------------------------
(* One POST /process/queue of service-a: process_via_queue in                  *)
(* services/service-a/app/main.py and queue_pipeline in worker.py.             *)
(*                                                                             *)
(* The tasks of one event loop switch at awaits only: at queue.get, in the     *)
(* work function, at queue.join and at gather.  Creating the consumers and     *)
(* filling the queue has no await in it and is the initial state.  Numbers are *)
(* left out: a result is the index of the item it was computed from.           *)
EXTENDS Integers, FiniteSets, Sequences

CONSTANTS NumItems,  \* len(req.items): ProcessRequest has at least one
          Workers    \* Settings.queue_workers: any integer

ASSUME NumItemsAssumption == NumItems \in Nat \ {0}
ASSUME WorkersAssumption == Workers \in Int

Item == 1..NumItems

\* range(max(1, workers))
NumConsumers == IF Workers < 1 THEN 1 ELSE Workers
Consumer == 1..NumConsumers
Nothing == 0  \* None, for indices and results

(* Of finite results: a finite number, an infinite one, when their sum is too  *)
(* large, or a ValueError, for an operation it does not know.                  *)
Aggregate == {"finite", "infinite", "unsupported"}

VARIABLES
    pc,          \* where the handler is
    aggregate,   \* what _aggregate makes of the results, or would
    taken,       \* how many items left the queue: it holds the later ones
    unfinished,  \* the queue's count of items put and not yet task_done
    consumer,    \* consumer[c]: where consumer task c is
    idx,         \* idx[c]: the item it works on
    results,     \* results[i]: the item whose result the slot holds
    failures,    \* the items whose exceptions were appended, in order
    status       \* the HTTP status of the response, 0 before it

vars == <<pc, aggregate, taken, unfinished, consumer, idx, results, failures, status>>

TypeOK ==
    /\ pc \in {"joining", "gathering", "replied"}
    /\ aggregate \in Aggregate
    /\ taken \in 0..NumItems
    /\ unfinished \in 0..NumItems
    /\ consumer \in [Consumer -> {"getting", "working", "cancelled", "returned"}]
    /\ idx \in [Consumer -> Item \union {Nothing}]
    /\ results \in [Item -> Item \union {Nothing}]
    /\ failures \in Seq(Item)
    /\ status \in {0, 200, 500}

Init ==
    /\ pc = "joining"
    /\ aggregate \in Aggregate
    /\ taken = 0
    /\ unfinished = NumItems
    /\ consumer = [c \in Consumer |-> "getting"]
    /\ idx = [c \in Consumer |-> Nothing]
    /\ results = [i \in Item |-> Nothing]
    /\ failures = <<>>
    /\ status = 0

------------------------------------------------------------------------------
(* Mutants of the decisions below, for the runs to refute: no task_done after  *)
(* a failure; results appended as they come; a handler that goes on when the   *)
(* queue is empty and not when its items are done.                             *)
CountAfterFailureNever(n) == n
SlotInOrderOfArrival(i) == Cardinality({j \in Item : results[j] # Nothing}) + 1
MayCancelWhenEmpty == taken = NumItems

\* The finally clause: task_done after a failure as after a success.
CountAfterFailure(n) == n - 1

Slot(i) == i

\* What queue.join waits for.
MayCancel == unfinished = 0

ConsumersGone == \A c \in Consumer : consumer[c] = "returned"

(* A failure is re-raised and, like the ValueError of _aggregate or of an      *)
(* infinite number in JSON, reaches the middleware, which answers 500.         *)
Status == IF failures = <<>> /\ aggregate = "finite" THEN 200 ELSE 500

Get(c) ==
    /\ consumer[c] = "getting"
    /\ taken < NumItems
    /\ taken' = taken + 1
    /\ idx' = [idx EXCEPT ![c] = taken + 1]
    /\ consumer' = [consumer EXCEPT ![c] = "working"]
    /\ UNCHANGED <<pc, aggregate, unfinished, results, failures, status>>

\* The consumer goes back to queue.get.
GoesOn(c) ==
    /\ consumer' = [consumer EXCEPT ![c] = "getting"]
    /\ idx' = [idx EXCEPT ![c] = Nothing]

WorkReturns(c) ==
    /\ consumer[c] = "working"
    /\ results' = [results EXCEPT ![Slot(idx[c])] = idx[c]]
    /\ unfinished' = unfinished - 1
    /\ GoesOn(c)
    /\ UNCHANGED <<pc, aggregate, taken, failures, status>>

\* Any Exception: an HTTPError, the 5 s timeout, a body that is not as expected.
WorkRaises(c) ==
    /\ consumer[c] = "working"
    /\ failures' = Append(failures, idx[c])
    /\ unfinished' = CountAfterFailure(unfinished)
    /\ GoesOn(c)
    /\ UNCHANGED <<pc, aggregate, taken, results, status>>

\* join returns and every consumer is cancelled, wherever it waits.
CancelConsumers ==
    /\ pc = "joining"
    /\ MayCancel
    /\ consumer' = [c \in Consumer |-> "cancelled"]
    /\ pc' = "gathering"
    /\ UNCHANGED <<aggregate, taken, unfinished, idx, results, failures, status>>

ConsumerReturns(c) ==
    /\ consumer[c] = "cancelled"
    /\ consumer' = [consumer EXCEPT ![c] = "returned"]
    /\ UNCHANGED <<pc, aggregate, taken, unfinished, idx, results, failures, status>>

Reply ==
    /\ pc = "gathering"
    /\ ConsumersGone
    /\ pc' = "replied"
    /\ status' = Status
    /\ UNCHANGED <<aggregate, taken, unfinished, consumer, idx, results, failures>>

ConsumerStep(c) == Get(c) \/ WorkReturns(c) \/ WorkRaises(c) \/ ConsumerReturns(c)

HandlerStep == CancelConsumers \/ Reply

Next == HandlerStep \/ \E c \in Consumer : ConsumerStep(c)

(* The event loop runs whatever is ready, and the work function ends: its only *)
(* await is a call with a 5 s timeout.                                         *)
Fairness == WF_vars(HandlerStep) /\ \A c \in Consumer : WF_vars(ConsumerStep(c))

Spec == Init /\ [][Next]_vars /\ Fairness

------------------------------------------------------------------------------
Working == {c \in Consumer : consumer[c] = "working"}
Held == {idx[c] : c \in Working}
Succeeded == {i \in Item : results[i] # Nothing}
Failed == {failures[n] : n \in DOMAIN failures}

\* The invariant the proofs use.
CountOK == unfinished = (NumItems - taken) + Cardinality(Working)

HoldersOK ==
    /\ \A c \in Consumer : consumer[c] = "working" <=> idx[c] # Nothing
    /\ \A c, d \in Working : c # d => idx[c] # idx[d]

PlacesOK ==
    /\ 1..taken = Held \union Succeeded \union Failed
    /\ Held \intersect (Succeeded \union Failed) = {}
    /\ Succeeded \intersect Failed = {}
    /\ \A i \in Item : results[i] \in {i, Nothing}

PhaseOK ==
    /\ pc # "joining" => unfinished = 0
    /\ pc = "joining" => \A c \in Consumer : consumer[c] \in {"getting", "working"}
    /\ pc # "joining" => \A c \in Consumer : consumer[c] \in {"cancelled", "returned"}
    /\ pc = "replied" => ConsumersGone
    /\ pc = "replied" <=> status # 0
    /\ status # 0 => status = Status

IInv == TypeOK /\ CountOK /\ HoldersOK /\ PlacesOK /\ PhaseOK

(* worker.py:92 an exception is "Propagated from work_fn after all queued items *)
(* have either been processed or marked done": once join has returned, every   *)
(* item was worked on to its end, and was so exactly once.                     *)
JoinMeansDone ==
    pc # "joining" => /\ Succeeded \union Failed = Item
                      /\ Working = {}
                      /\ Succeeded \intersect Failed = {}

(* worker.py:89 "in the same order as items", and `r if r is not None else 0.0` *)
(* never stands in for a result: a 200 carries the result of every item in its *)
(* own slot, whatever order the consumers finished in; a 500 has a reason.     *)
AnswerIsInOrder ==
    /\ status = 200 => \A i \in Item : results[i] = i
    /\ status = 500 => Failed # {} \/ aggregate # "finite"

(* The pipeline does what its callers may expect of a parallel map with as     *)
(* many workers as configured, and it ends.                                    *)
Map == INSTANCE ParallelMap WITH
    Capacity <- NumConsumers,
    running <- Held, succeeded <- Succeeded, failed <- Failed,
    answer <- CASE status = 0 -> "none"
                [] status # 0 /\ failures = <<>> -> "results"
                [] OTHER -> "raised"

ImplementsParallelMap == Map!Spec
==============================================================================
