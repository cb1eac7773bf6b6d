--------------------------- MODULE SquareSumProofs ---------------------------
(* For any number of requests, threads and items: the chunks partition the     *)
(* items, and every answer adds each item of its request up exactly once.      *)
EXTENDS SquareSum, TLAPS

\* What `\div` means for a positive divisor.
LEMMA DivisionBounds ==
    ASSUME NEW a \in Nat, NEW b \in Nat \ {0}
    PROVE  /\ a \div b \in Nat
           /\ (a \div b) * b <= a
           /\ a < ((a \div b) + 1) * b
  OBVIOUS

\* Rounding up makes the chunks long enough for all the items.
LEMMA ChunksReachTheEnd ==
    ASSUME NEW n \in Nat, NEW workers \in Nat \ {0}
    PROVE  /\ Chunk(n, workers) \in Nat
           /\ n <= workers * Chunk(n, workers)
           /\ n > 0 => Chunk(n, workers) > 0
<1> DEFINE q == (n + workers - 1) \div workers
<1>1. n + workers - 1 \in Nat
  OBVIOUS
<1>2. /\ q \in Nat
      /\ n + workers - 1 < (q + 1) * workers
  BY <1>1, DivisionBounds
<1>3. (q + 1) * workers = q * workers + workers /\ q * workers = workers * q
  BY <1>2
<1>4. n <= workers * q
  BY <1>2, <1>3
<1>5. n > 0 => q > 0
  BY <1>2, <1>4
<1>6. QED
  BY <1>2, <1>4, <1>5 DEF Chunk

(* Every item is in exactly one of the chunks the loop submits.                *)
THEOREM ChunksPartition ==
    ASSUME NEW n \in Nat, NEW workers \in Nat \ {0}, NEW i \in 0..(n - 1)
    PROVE  \E c \in Submitted(n, workers) :
             /\ i \in ChunkItems(n, workers, c)
             /\ \A d \in Submitted(n, workers) \ {c} : i \notin ChunkItems(n, workers, d)
<1> DEFINE size_ == Chunk(n, workers)
           c == i \div size_
<1>1. size_ \in Nat \ {0} /\ n <= workers * size_
  BY ChunksReachTheEnd
<1>2. /\ c \in Nat
      /\ c * size_ <= i
      /\ i < (c + 1) * size_
  BY <1>1, DivisionBounds
<1> HIDE DEF size_, c
<1>3. c * size_ < workers * size_ /\ i < c * size_ + size_
  BY <1>1, <1>2
<1>4. c < workers
  <2>1. SUFFICES ASSUME workers <= c PROVE FALSE
    BY <1>2
  <2>2. workers * size_ <= c * size_
    BY <1>1, <1>2, <2>1
  <2>3. QED
    BY <1>1, <1>2, <1>3, <2>2
<1>5. c \in Submitted(n, workers)
  BY <1>1, <1>2, <1>4 DEF Submitted, Start, size_
<1>6. i \in ChunkItems(n, workers, c)
  BY <1>2, <1>3 DEF ChunkItems, Start, End, size_
<1>7. ASSUME NEW d \in Submitted(n, workers) \ {c}, i \in ChunkItems(n, workers, d)
      PROVE  FALSE
  <2>1. d \in Nat /\ d * size_ <= i /\ i < d * size_ + size_
    BY <1>7 DEF Submitted, ChunkItems, Start, End, size_
  <2>2. CASE d < c
    <3>1. (d + 1) * size_ <= c * size_ /\ (d + 1) * size_ = d * size_ + size_
      BY <1>1, <1>2, <2>1, <2>2
    <3>2. QED
      BY <1>1, <1>2, <2>1, <3>1
  <2>3. CASE c < d
    <3>1. (c + 1) * size_ <= d * size_ /\ (c + 1) * size_ = c * size_ + size_
      BY <1>1, <1>2, <2>1, <2>3
    <3>2. QED
      BY <1>1, <1>2, <2>1, <3>1
  <2>4. QED
    BY <1>2, <1>7, <2>1, <2>2, <2>3
<1>8. QED
  BY <1>5, <1>6, <1>7

------------------------------------------------------------------------------
USE WorkersAssumption, MaxItemsAssumption

\* A chunk index is not the mark of an unlocked mutex.
LEMMA ChunksType == Chunks \subseteq Nat /\ Unlocked \notin Chunks
BY DEF Chunks, Unlocked

\* Nothing is submitted, locked or added up at the start.
LEMMA InitIInv == Init => IInv
<1> SUFFICES ASSUME Init PROVE IInv
  OBVIOUS
<1>1. accepted = {} /\ finished = {} /\ closed = FALSE /\ destroyed = FALSE
  BY DEF Init, Pool!Init
<1>2. TypeOK
  BY <1>1 DEF Init, TypeOK
<1>3. ASSUME NEW r \in Request PROVE HandlerLink(r)
  BY <1>1 DEF Init, HandlerLink
<1>4. ASSUME NEW r \in Request, NEW c \in Chunks PROVE TaskLink(r, c)
  <2>1. <<r, c>> \in Task
    BY DEF Task, Chunks
  <2>2. QED
    BY <1>1, <2>1, ChunksType DEF Init, TaskLink
<1>5. QED
  BY <1>2, <1>3, <1>4 DEF IInv

\* What the handlers do before and after the tasks of the call.
LEMMA HandlerIInv ==
    ASSUME IInv, NEW q \in Request, Reject(q) \/ Begin(q) \/ AwaitFutures(q) \/ Answer(q)
    PROVE  IInv'
<1>0. TypeOK /\ HandlerLink(q)
  BY DEF IInv
<1> USE DEF Reject, Begin, AwaitFutures, Answer, poolVars, frameVars, taskVars
<1>1. TypeOK'
  BY <1>0 DEF TypeOK
<1>2. ASSUME NEW r \in Request PROVE HandlerLink(r)'
  BY <1>0 DEF IInv, TypeOK, HandlerLink, AllReady
<1>3. ASSUME NEW r \in Request, NEW c \in Chunks PROVE TaskLink(r, c)'
  BY DEF IInv, TaskLink
<1>4. QED
  BY <1>1, <1>2, <1>3 DEF IInv

LEMMA SubmitIInv == ASSUME IInv, NEW q \in Request, Submit(q) PROVE IInv'
<1>0. TypeOK /\ HandlerLink(q) /\ w[q] \in Chunks
  BY DEF IInv, Submit, Submitted, Chunks
<1>1. /\ accepted' = accepted \union {<<q, w[q]>>} /\ <<q, w[q]>> \in Task
      /\ w' = [w EXCEPT ![q] = @ + 1] /\ pc[q] = "submitting"
      /\ w[q] \in Submitted(size[q], Workers)
      /\ UNCHANGED <<finished, closed, destroyed, pc, size, response, frameVars, taskVars>>
  BY <1>0 DEF Submit, Pool!Accept, Task, Chunks
<1> USE DEF frameVars, taskVars
<1>2. TypeOK'
  BY <1>0, <1>1 DEF TypeOK, Chunks
<1>3. ASSUME NEW r \in Request PROVE HandlerLink(r)'
  BY <1>0, <1>1 DEF IInv, TypeOK, HandlerLink, AllReady, Chunks
<1>4. ASSUME NEW r \in Request, NEW c \in Chunks PROVE TaskLink(r, c)'
  <2>1. TaskLink(r, c)
    BY DEF IInv
  <2>2. w[r] \in Int /\ c \in Int /\ w'[r] = IF r = q THEN w[r] + 1 ELSE w[r]
    BY <1>0, <1>1 DEF TypeOK, Chunks
  <2>3. <<r, c>> \in accepted' <=> <<r, c>> \in accepted \/ (r = q /\ c = w[r])
    BY <1>1
  <2>4. <<r, c>> \in accepted' <=> c < w'[r]
    BY <2>1, <2>2, <2>3 DEF TaskLink
  <2>5. QED
    BY <1>1, <2>1, <2>3, <2>4 DEF TaskLink
<1>5. QED
  BY <1>2, <1>3, <1>4 DEF IInv

LEMMA TaskIInv ==
    ASSUME IInv, NEW q \in Request, NEW d \in Chunks, TaskStep(q, d)
    PROVE  IInv'
<1>0. TypeOK /\ HandlerLink(q) /\ TaskLink(q, d) /\ <<q, d>> \in Task
  BY DEF IInv, Task, Chunks
<1> USE DEF poolVars, handlerVars, frameVars, taskVars
<1>1. CASE Lock(q, d)
  <2>1. TypeOK'
    BY <1>0, <1>1 DEF TypeOK, Lock
  <2>2. ASSUME NEW r \in Request PROVE HandlerLink(r)'
    BY <1>1 DEF IInv, Lock, HandlerLink, AllReady
  <2>3. ASSUME NEW r \in Request, NEW c \in Chunks PROVE TaskLink(r, c)'
    BY <1>0, <1>1, ChunksType DEF IInv, TypeOK, Lock, MayLock, TaskLink, Task, Chunks
  <2>4. QED
    BY <2>1, <2>2, <2>3 DEF IInv
<1>2. CASE Store(q, d)
  <2>1. TypeOK'
    BY <1>0, <1>2 DEF TypeOK, Store
  <2>2. ASSUME NEW r \in Request PROVE HandlerLink(r)'
    <3>1. pc[q] # "answered"
      <4>1. <<q, d>> \notin finished /\ d \in 0..(w[q] - 1)
        BY <1>0, <1>2 DEF Store, TaskLink, TypeOK, Chunks
      <4>2. QED
        BY <1>0, <4>1 DEF HandlerLink, AllReady
    <3>2. QED
      BY <1>0, <1>2, <3>1 DEF IInv, TypeOK, Store, HandlerLink, AllReady
  <2>3. ASSUME NEW r \in Request, NEW c \in Chunks PROVE TaskLink(r, c)'
    BY <1>0, <1>2, ChunksType DEF IInv, TypeOK, Store, TaskLink, Task, Chunks
  <2>4. QED
    BY <2>1, <2>2, <2>3 DEF IInv
<1>3. CASE Return(q, d)
  <2>0. finished' = finished \union {<<q, d>>}
        /\ UNCHANGED <<accepted, closed, destroyed, handlerVars, frameVars, taskVars>>
        /\ step[<<q, d>>] = "added"
    BY <1>3 DEF Return, Pool!Finish
  <2>1. TypeOK'
    BY <1>0, <2>0 DEF TypeOK
  <2>2. ASSUME NEW r \in Request PROVE HandlerLink(r)'
    BY <2>0 DEF IInv, HandlerLink, AllReady
  <2>3. ASSUME NEW r \in Request, NEW c \in Chunks PROVE TaskLink(r, c)'
    BY <2>0 DEF IInv, TaskLink
  <2>4. QED
    BY <2>1, <2>2, <2>3 DEF IInv
<1>4. QED
  BY <1>1, <1>2, <1>3 DEF TaskStep

(* The frame of every call and its tasks agree on what was submitted, locked   *)
(* and added.                                                                  *)
THEOREM FrameInvariant == Spec => []IInv
<1>1. IInv /\ [Next]_vars => IInv'
  <2> SUFFICES ASSUME IInv, [Next]_vars PROVE IInv'
    OBVIOUS
  <2>1. CASE UNCHANGED vars
    <3> USE <2>1 DEF vars, poolVars, handlerVars, frameVars, taskVars
    <3>1. TypeOK'
      BY DEF IInv, TypeOK
    <3>2. ASSUME NEW r \in Request PROVE HandlerLink(r)'
      BY DEF IInv, HandlerLink, AllReady
    <3>3. ASSUME NEW r \in Request, NEW c \in Chunks PROVE TaskLink(r, c)'
      BY DEF IInv, TaskLink
    <3>4. QED
      BY <3>1, <3>2, <3>3 DEF IInv
  <2>2. QED
    BY <2>1, HandlerIInv, SubmitIInv, TaskIInv DEF Next, HandlerStep
<1>2. QED
  BY <1>1, InitIInv, PTL DEF Spec

\* What the loop submitted before it broke off is what it had to submit.
LEMMA LoopSubmitsAll ==
    ASSUME IInv, NEW r \in Request, pc[r] = "answered"
    PROVE  response[r] = Submitted(size[r], Workers)
<1>0. TypeOK /\ HandlerLink(r) /\ \A c \in Chunks : TaskLink(r, c)
  BY DEF IInv
<1>1. response[r] = {c \in Chunks : c < w[r]}
  <2>1. response[r] \subseteq Chunks /\ response[r] = accumulator[r] /\ w[r] \in 0..Workers
    BY <1>0 DEF TypeOK, HandlerLink
  <2>2. ASSUME NEW c \in Chunks PROVE c \in accumulator[r] <=> c < w[r]
    <3>1. c < w[r] => <<r, c>> \in finished
      BY <1>0, <2>1 DEF HandlerLink, AllReady, Chunks
    <3>2. QED
      BY <1>0, <3>1 DEF TaskLink
  <2>3. QED
    BY <2>1, <2>2
<1>2. ASSUME NEW c \in Submitted(size[r], Workers) PROVE c < w[r]
  <2> DEFINE k == Chunk(size[r], Workers)
  <2>1. k \in Nat /\ size[r] \in Nat /\ c \in Nat /\ w[r] \in Nat
    BY <1>0, ChunksReachTheEnd DEF TypeOK, Submitted
  <2>2. c * k < size[r] /\ c < Workers
    BY DEF Submitted, Start
  <2> HIDE DEF k
  <2>3. SUFFICES ASSUME w[r] <= c PROVE FALSE
    BY <2>1
  <2>4. w[r] * k <= c * k
    BY <2>1, <2>3
  <2>5. w[r] \in Submitted(size[r], Workers)
    <3>1. w[r] * k < size[r] /\ w[r] \in 0..(Workers - 1)
      <4>1. w[r] * k \in Nat /\ c * k \in Nat
        BY <2>1
      <4>2. QED
        BY <2>1, <2>2, <2>3, <2>4, <4>1
    <3>2. QED
      BY <3>1 DEF Submitted, Start, k
  <2>6. QED
    BY <1>0, <2>5 DEF HandlerLink
<1>3. Submitted(size[r], Workers) \subseteq Chunks
  BY DEF Submitted, Chunks
<1>4. \A c \in Chunks : c < w[r] => c \in Submitted(size[r], Workers)
  BY <1>0 DEF HandlerLink, TypeOK, Chunks
<1>5. QED
  BY <1>1, <1>2, <1>3, <1>4

(* Every answer adds each item of its own request up exactly once.             *)
THEOREM AnswersAreWholeSums == Spec => []AnswerIsWholeSum
<1>1. IInv => AnswerIsWholeSum
  <2> SUFFICES ASSUME IInv, NEW r \in Request, pc[r] = "answered",
                      NEW i \in 0..(size[r] - 1)
               PROVE  \E c \in response[r] :
                        /\ i \in ChunkItems(size[r], Workers, c)
                        /\ \A d \in response[r] \ {c} :
                             i \notin ChunkItems(size[r], Workers, d)
    BY DEF AnswerIsWholeSum
  <2>1. size[r] \in Nat
    BY DEF IInv, TypeOK
  <2>2. QED
    BY <2>1, LoopSubmitsAll, ChunksPartition
<1>2. QED
  BY <1>1, FrameInvariant, PTL

(* No task of a call runs on after the call has returned.                      *)
THEOREM FramesOutliveTasks == Spec => []NoDanglingReference
<1>1. IInv => NoDanglingReference
  BY DEF IInv, TypeOK, HandlerLink, TaskLink, AllReady, NoDanglingReference, Chunks
<1>2. QED
  BY <1>1, FrameInvariant, PTL
==============================================================================
