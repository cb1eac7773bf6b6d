------------------------------- MODULE Chunking -------------------------------
(* How ComputeSquareSumThreaded of services/cpp-worker/src/main.cpp splits n   *)
(* items among the threads of the pool: the chunk of thread index w, and the   *)
(* indices for which the loop submits a task before it breaks.                 *)
EXTENDS Integers

\* Mutant: the quotient rounded down.
ChunkRoundedDown(n, workers) == n \div workers

Chunk(n, workers) == (n + workers - 1) \div workers

Start(n, workers, w) == w * Chunk(n, workers)

\* Where the chunk ends before the loop clips it to the vector.
End(n, workers, w) == Start(n, workers, w) + Chunk(n, workers)

Submitted(n, workers) == {w \in 0..(workers - 1) : Start(n, workers, w) < n}

ChunkItems(n, workers, w) ==
    {i \in 0..(n - 1) : Start(n, workers, w) <= i /\ i < End(n, workers, w)}
==============================================================================
