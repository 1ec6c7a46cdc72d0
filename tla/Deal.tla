-------------------------------- MODULE Deal --------------------------------
(***************************************************************************)
(* How the frames of a text are dealt to the workers of a parallel scan    *)
(* (_parallel_batch): in contiguous chunks of one size, the last of which  *)
(* may be shorter.  Frames are numbered from 1, workers from 0; `n' is the *)
(* number of frames.                                                       *)
(***************************************************************************)
EXTENDS Integers

CONSTANT MaxInflight  \* max_inflight(): n_threads, or the size of the pool

ASSUME DealAssumption == MaxInflight \in Nat

LeastOf(a, b) == IF a <= b THEN a ELSE b

(* Tasks are told apart by the number of their chunk.                      *)
Worker == 0..(LeastOf(8, MaxInflight) - 1)

Workers(n) == LeastOf(8, LeastOf(MaxInflight, n))

(* Mutant: the division rounds down.                                       *)
ChunkSizeFloor(n) == n \div Workers(n)

ChunkSize(n) == (n + Workers(n) - 1) \div Workers(n)

FirstFrame(n, w) == w * ChunkSize(n) + 1

LastFrame(n, w) == LeastOf(w * ChunkSize(n) + ChunkSize(n), n)

(* A worker whose chunk would start behind the last frame is not run.      *)
Active(n) == {w \in 0..(Workers(n) - 1) : w * ChunkSize(n) < n}

Chunk(n, w) == FirstFrame(n, w)..LastFrame(n, w)
=============================================================================
