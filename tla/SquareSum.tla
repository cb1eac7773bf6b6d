------------------------------ MODULE SquareSum ------------------------------
(* POST /square_sum of services/cpp-worker/src/main.cpp: HTTP threads that run *)
(* ComputeSquareSumThreaded over one pool, tasks that hold references into the *)
(* stack frame of the call, and the accumulator they add their partials to.    *)
(*                                                                             *)
(* The pool is used through its contract, TaskPool.  A partial sum is the      *)
(* index of its chunk and an accumulator the set of the partials in it.  main  *)
(* declares the pool before the server, so no request outlives it.             *)
EXTENDS Chunking

CONSTANTS Request,   \* requests being served, each by its own HTTP thread
          Workers,   \* pool.Size(): at least one, the constructor sees to it
          MaxItems   \* bound on the length of `items`

ASSUME WorkersAssumption == Workers \in Nat \ {0}
ASSUME MaxItemsAssumption == MaxItems \in Nat

Task == Request \X (0..(Workers - 1))
Unlocked == -1

VARIABLES
    accepted, finished, closed, destroyed,  \* the pool
    pc,           \* pc[r]: where the handler of request r is
    size,         \* items.size()
    w,            \* the loop counter: the chunk to submit next
    accumulator,  \* the partials added up so far
    owner,        \* the chunk whose task holds acc_mutex, or Unlocked
    step,         \* step[t]: how far the body of task t is
    loaded,       \* loaded[t]: the accumulator t's `+=` read
    response      \* what the handler answered with

handlerVars == <<pc, size, w, response>>
frameVars == <<accumulator, owner>>
taskVars == <<step, loaded>>
poolVars == <<accepted, finished, closed, destroyed>>
vars == <<poolVars, handlerVars, frameVars, taskVars>>

Pool == INSTANCE TaskPool

Chunks == 0..(Workers - 1)

TypeOK ==
    /\ accepted \subseteq Task /\ finished \subseteq Task
    /\ closed = FALSE /\ destroyed = FALSE
    /\ pc \in [Request -> {"idle", "submitting", "waiting", "answered", "rejected"}]
    /\ size \in [Request -> 0..MaxItems]
    /\ w \in [Request -> 0..Workers]
    /\ accumulator \in [Request -> SUBSET Chunks]
    /\ owner \in [Request -> Chunks \union {Unlocked}]
    /\ step \in [Task -> {"summing", "adding", "added"}]
    /\ loaded \in [Task -> SUBSET Chunks]
    /\ response \in [Request -> SUBSET Chunks]

Init ==
    /\ Pool!Init
    /\ pc = [r \in Request |-> "idle"]
    /\ size = [r \in Request |-> 0]
    /\ w = [r \in Request |-> 0]
    /\ accumulator = [r \in Request |-> {}]
    /\ owner = [r \in Request |-> Unlocked]
    /\ step = [t \in Task |-> "summing"]
    /\ loaded = [t \in Task |-> {}]
    /\ response = [r \in Request |-> {}]

------------------------------------------------------------------------------
\* Mutants: a return once the last future is ready, and one that waits for a
\* future too many.
LastReady(r) == w[r] = 0 \/ <<r, w[r] - 1>> \in finished
OneTooManyReady(r) == \A c \in 0..w[r] : <<r, c>> \in finished

MayLock(r) == owner[r] = Unlocked

\* f.get() has returned for every future.
AllReady(r) == \A c \in 0..(w[r] - 1) : <<r, c>> \in finished

\* The body is not JSON, has no `items` array, or one of them is no number.
Reject(r) ==
    /\ pc[r] = "idle"
    /\ pc' = [pc EXCEPT ![r] = "rejected"]
    /\ UNCHANGED <<poolVars, size, w, response, frameVars, taskVars>>

\* The body parses; the call starts with an empty accumulator.
Begin(r) ==
    /\ pc[r] = "idle"
    /\ \E n \in 0..MaxItems : size' = [size EXCEPT ![r] = n]
    /\ pc' = [pc EXCEPT ![r] = "submitting"]
    /\ UNCHANGED <<poolVars, w, response, frameVars, taskVars>>

Submit(r) ==
    /\ pc[r] = "submitting"
    /\ w[r] \in Submitted(size[r], Workers)
    /\ Pool!Accept(<<r, w[r]>>)
    /\ w' = [w EXCEPT ![r] = @ + 1]
    /\ UNCHANGED <<pc, size, response, frameVars, taskVars>>

\* The loop is through, or breaks at the end of the items.
AwaitFutures(r) ==
    /\ pc[r] = "submitting"
    /\ w[r] \notin Submitted(size[r], Workers)
    /\ pc' = [pc EXCEPT ![r] = "waiting"]
    /\ UNCHANGED <<poolVars, size, w, response, frameVars, taskVars>>

\* The call returns and its frame is gone; the handler answers.
Answer(r) ==
    /\ pc[r] = "waiting" /\ AllReady(r)
    /\ response' = [response EXCEPT ![r] = accumulator[r]]
    /\ pc' = [pc EXCEPT ![r] = "answered"]
    /\ UNCHANGED <<poolVars, size, w, frameVars, taskVars>>

\* The task has its partial, locks acc_mutex and loads the accumulator.
Lock(r, c) ==
    /\ <<r, c>> \in accepted /\ step[<<r, c>>] = "summing"
    /\ MayLock(r)
    /\ owner' = [owner EXCEPT ![r] = c]
    /\ loaded' = [loaded EXCEPT ![<<r, c>>] = accumulator[r]]
    /\ step' = [step EXCEPT ![<<r, c>>] = "adding"]
    /\ UNCHANGED <<poolVars, handlerVars, accumulator>>

\* It stores the sum and unlocks.
Store(r, c) ==
    /\ step[<<r, c>>] = "adding"
    /\ accumulator' = [accumulator EXCEPT ![r] = loaded[<<r, c>>] \union {c}]
    /\ owner' = [owner EXCEPT ![r] = Unlocked]
    /\ step' = [step EXCEPT ![<<r, c>>] = "added"]
    /\ UNCHANGED <<poolVars, handlerVars, loaded>>

\* The task returns and the packaged_task makes its future ready.
Return(r, c) ==
    /\ step[<<r, c>>] = "added"
    /\ Pool!Finish(<<r, c>>)
    /\ UNCHANGED <<handlerVars, frameVars, taskVars>>

HandlerStep(r) == Submit(r) \/ AwaitFutures(r) \/ Answer(r)
TaskStep(r, c) == Lock(r, c) \/ Store(r, c) \/ Return(r, c)

Next == \E r \in Request :
    \/ Reject(r) \/ Begin(r) \/ HandlerStep(r)
    \/ \E c \in Chunks : TaskStep(r, c)

(* HTTP threads run; the pool runs every task it accepted (TaskPool!Progress), *)
(* and each locks acc_mutex once, so whoever waits for it gets it.             *)
Fairness == \A r \in Request :
    /\ WF_vars(HandlerStep(r))
    /\ \A c \in Chunks : WF_vars(TaskStep(r, c))

Spec == Init /\ [][Next]_vars /\ Fairness

------------------------------------------------------------------------------
(* main.cpp "Total sum of squares": the answer adds up every item of its own   *)
(* request exactly once, whichever threads computed it in whatever order and   *)
(* whatever other requests share the pool.                                     *)
AnswerIsWholeSum ==
    \A r \in Request : pc[r] = "answered" =>
      \A i \in 0..(size[r] - 1) :
        \E c \in response[r] :
          /\ i \in ChunkItems(size[r], Workers, c)
          /\ \A d \in response[r] \ {c} : i \notin ChunkItems(size[r], Workers, d)

(* The lambdas capture items, acc_mutex and accumulator by reference: while a  *)
(* task of the call may still use them, the call has not returned.             *)
NoDanglingReference ==
    \A r \in Request, c \in Chunks :
      <<r, c>> \in accepted \ finished => pc[r] \in {"submitting", "waiting"}

(* A request that parses is answered, however many share the pool.             *)
EveryRequestAnswered ==
    \A r \in Request : pc[r] = "submitting" ~> pc[r] = "answered"

(* What the frame of a call and its tasks know of each other.                  *)
TaskLink(r, c) ==
    /\ <<r, c>> \in accepted <=> c < w[r]
    /\ <<r, c>> \in finished => step[<<r, c>>] = "added"
    /\ step[<<r, c>>] # "summing" => <<r, c>> \in accepted
    /\ owner[r] = c <=> step[<<r, c>>] = "adding"
    /\ step[<<r, c>>] = "adding" => loaded[<<r, c>>] = accumulator[r]
    /\ c \in accumulator[r] <=> step[<<r, c>>] = "added"

HandlerLink(r) ==
    /\ pc[r] \in {"idle", "rejected"} => w[r] = 0
    /\ \A c \in 0..(w[r] - 1) : c \in Submitted(size[r], Workers)
    /\ pc[r] \in {"waiting", "answered"} => w[r] \notin Submitted(size[r], Workers)
    /\ pc[r] = "answered" => AllReady(r) /\ response[r] = accumulator[r]

IInv ==
    /\ TypeOK
    /\ \A r \in Request : HandlerLink(r) /\ \A c \in Chunks : TaskLink(r, c)
==============================================================================
