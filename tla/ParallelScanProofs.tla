-------------------------- MODULE ParallelScanProofs --------------------------
(***************************************************************************)
(* What the parallel scan guarantees for every text, every slice and every *)
(* number of workers: the count of the rows against the slice, the promise *)
(* of RowClaims, the order of the rows, and, for a text whose lines carry  *)
(* the same keys, that the answer is exact.                                *)
(***************************************************************************)
EXTENDS ParallelScan, FiniteSetTheorems, TLAPS

-----------------------------------------------------------------------------
(* The deal gives each frame to one worker, for every number of frames and *)
(* of workers.                                                             *)

LEMMA DivFacts ==
  ASSUME NEW a \in Nat, NEW b \in Nat \ {0}
  PROVE  /\ a \div b \in Nat
         /\ b * (a \div b) <= a
         /\ a < b * (a \div b) + b
<1>1. a \div b \in Int /\ a \div b >= 0  BY SMT
<1>2. b * (a \div b) <= a  BY SMT
<1>3. a < b * (a \div b) + b  BY SMT
<1> QED  BY <1>1, <1>2, <1>3

LEMMA MulStep ==
  ASSUME NEW a \in Nat, NEW b \in Nat, NEW c \in Nat, a < b
  PROVE  a * c + c <= b * c
<1>1. (b - a - 1) \in Nat  OBVIOUS
<1>2. (b - a - 1) * c >= 0  BY <1>1
<1>3. (b - a - 1) * c = b * c - a * c - c  OBVIOUS
<1>4. a * c \in Int /\ b * c \in Int  OBVIOUS
<1> QED  BY <1>2, <1>3, <1>4

(* Enough chunks of the computed size hold all the frames.                 *)
LEMMA DealSize ==
  ASSUME NEW n \in Nat, Workers(n) > 0
  PROVE  /\ Workers(n) \in Nat \ {0}
         /\ ChunkSize(n) \in Nat \ {0}
         /\ n <= Workers(n) * ChunkSize(n)
         /\ n > 0
<1>1. Workers(n) \in Nat \ {0} /\ n > 0 /\ Workers(n) <= n
  BY DealAssumption DEF Workers, LeastOf
<1>2. n + Workers(n) - 1 \in Nat  BY <1>1
<1>3. /\ ChunkSize(n) \in Nat
      /\ n + Workers(n) - 1 < Workers(n) * ChunkSize(n) + Workers(n)
  BY <1>1, <1>2, DivFacts DEF ChunkSize
<1>4. n <= Workers(n) * ChunkSize(n)
  <2> DEFINE W == Workers(n)  P == Workers(n) * ChunkSize(n)
  <2>1. W \in Nat /\ P \in Nat /\ n + W - 1 < P + W  BY <1>1, <1>3
  <2> HIDE DEF W, P
  <2>2. n <= P  BY <2>1
  <2> QED  BY <2>2 DEF P
<1>5. ChunkSize(n) # 0  BY <1>1, <1>3, <1>4
<1> QED  BY <1>1, <1>3, <1>4, <1>5

LEMMA ActiveWorkers ==
  ASSUME NEW n \in Nat, NEW w \in Active(n)
  PROVE  /\ Workers(n) > 0
         /\ w \in Nat /\ w \in Worker /\ w < Workers(n)
         /\ FirstFrame(n, w) \in 1..n
         /\ LastFrame(n, w) \in FirstFrame(n, w)..n
<1>1. Workers(n) \in Int /\ w \in 0..(Workers(n) - 1) /\ w * ChunkSize(n) < n
  BY DealAssumption DEF Active, Workers, LeastOf
<1>2. Workers(n) > 0 /\ w \in Nat /\ w < Workers(n)  BY <1>1
<1>3. w \in Worker
  BY <1>1, <1>2, DealAssumption DEF Worker, Workers, LeastOf
<1>4. ChunkSize(n) \in Nat \ {0}  BY <1>2, DealSize
<1>5. w * ChunkSize(n) \in Nat  BY <1>2, <1>4
<1> QED  BY <1>1, <1>2, <1>3, <1>4, <1>5 DEF FirstFrame, LastFrame, LeastOf

(* No frame is dealt to two workers.                                       *)
THEOREM ChunksDisjoint ==
  ASSUME NEW n \in Nat, NEW v \in Active(n), NEW w \in Active(n),
         NEW f \in Chunk(n, v) \cap Chunk(n, w)
  PROVE  v = w
<1>1. Workers(n) > 0 /\ v \in Nat /\ w \in Nat  BY ActiveWorkers
<1>2. ChunkSize(n) \in Nat \ {0}  BY <1>1, DealSize
<1> DEFINE C == ChunkSize(n)  V == v * C  U == w * C
<1>3. V \in Nat /\ U \in Nat  BY <1>1, <1>2
<1>4. /\ V + 1 <= f /\ f <= LeastOf(V + C, n)
      /\ U + 1 <= f /\ f <= LeastOf(U + C, n)
      /\ f \in Int
  BY <1>3, <1>2 DEF Chunk, FirstFrame, LastFrame, LeastOf
<1>5. f <= V + C /\ f <= U + C  BY <1>2, <1>3, <1>4 DEF LeastOf
<1>6. v < w => V + C <= U  BY <1>1, <1>2, MulStep
<1>7. w < v => U + C <= V  BY <1>1, <1>2, MulStep
<1>8. C \in Nat /\ V < U + C /\ U < V + C  BY <1>2, <1>3, <1>4, <1>5
<1> HIDE DEF V, U, C
<1> QED  BY <1>1, <1>3, <1>6, <1>7, <1>8

(* Every frame is dealt to some worker.                                    *)
THEOREM ChunksCover ==
  ASSUME NEW n \in Nat, Workers(n) > 0, NEW f \in 1..n
  PROVE  \E w \in Active(n) : f \in Chunk(n, w)
<1> DEFINE C == ChunkSize(n)  W == Workers(n)  w == (f - 1) \div C
<1>1. C \in Nat \ {0} /\ W \in Nat \ {0} /\ n <= W * C  BY DealSize
<1>2. f - 1 \in Nat  OBVIOUS
<1>3. w \in Nat /\ C * w <= f - 1 /\ f - 1 < C * w + C  BY <1>1, <1>2, DivFacts
<1>4. C * w = w * C  BY <1>1, <1>3
<1>5. w < W
  <2>1. SUFFICES ASSUME W <= w PROVE FALSE  BY <1>1, <1>3
  <2>2. W * C <= w * C
    <3>1. CASE W = w  BY <3>1, <1>1, <1>3
    <3>2. CASE W < w  BY <3>2, <1>1, <1>3, MulStep
    <3> QED  BY <2>1, <3>1, <3>2, <1>1, <1>3
  <2> DEFINE P == W * C  Q == w * C
  <2>3. P \in Nat /\ Q \in Nat /\ n <= P /\ P <= Q /\ Q <= f - 1
    BY <1>1, <1>3, <1>4, <2>2
  <2> HIDE DEF P, Q, W, C, w
  <2> QED  BY <2>3
<1>6. w * C < n
  <2> DEFINE Q == w * C
  <2>1. Q \in Nat /\ Q <= f - 1  BY <1>1, <1>3, <1>4
  <2> HIDE DEF Q, w, C
  <2>2. Q < n  BY <2>1
  <2> QED  BY <2>2 DEF Q
<1>7. w \in Active(n)  BY <1>1, <1>3, <1>5, <1>6 DEF Active
<1>8. f \in Chunk(n, w)
  <2> DEFINE Q == w * C
  <2>1. Q \in Nat /\ Q <= f - 1 /\ f - 1 < Q + C  BY <1>1, <1>3, <1>4
  <2>2. FirstFrame(n, w) = Q + 1 /\ LastFrame(n, w) = LeastOf(Q + C, n)
    BY DEF FirstFrame, LastFrame
  <2> HIDE DEF Q, w
  <2> QED  BY <2>1, <2>2, <1>1 DEF Chunk, LeastOf
<1> QED  BY <1>7, <1>8

(* A chunk is an interval of frames.                                       *)
LEMMA ChunkFrames ==
  ASSUME NEW n \in Nat, NEW w \in Active(n)
  PROVE  /\ Chunk(n, w) \subseteq 1..n
         /\ FirstFrame(n, w) \in Chunk(n, w)
         /\ LastFrame(n, w) \in Chunk(n, w)
         /\ \A f \in Chunk(n, w) : f = LastFrame(n, w) \/ f + 1 \in Chunk(n, w)
         /\ \A f \in Chunk(n, w) : FirstFrame(n, w) <= f /\ f <= LastFrame(n, w)
<1>1. FirstFrame(n, w) \in 1..n /\ LastFrame(n, w) \in FirstFrame(n, w)..n
  BY ActiveWorkers
<1> QED  BY <1>1 DEF Chunk

-----------------------------------------------------------------------------
(* The invariant.                                                          *)

LEMMA Sizes ==
  ASSUME TypeOK
  PROVE  /\ N \in Nat
         /\ \A f \in 1..N : Len(text[f]) \in Nat
         /\ Capped => opts.n_rows \in Nat
         /\ Active(N) \subseteq Worker
<1>1. text \in Seq(Seq(Lines))  BY DEF TypeOK
<1>2. N \in Nat /\ \A f \in 1..N : Len(text[f]) \in Nat  BY <1>1 DEF N
<1>3. Capped => opts.n_rows \in Nat  BY ScanAssumption DEF TypeOK, Capped
<1>4. Active(N) \subseteq Worker  BY <1>2, ActiveWorkers
<1> QED  BY <1>2, <1>3, <1>4

LEMMA AcceptedLines ==
  ASSUME NEW p
  PROVE  p \in Accepted <=> \E f \in 1..N : \E l \in 1..Len(text[f]) :
                               p = <<f, l>> /\ RowAt(f, l)
BY DEF Accepted

LEMMA InitInv == Init => IInv
<1> SUFFICES ASSUME Init PROVE IInv  OBVIOUS
<1>1. TypeOK
  <2>1. IsFiniteSet({})  BY FS_EmptySet
  <2> QED  BY <2>1, ScanAssumption, DealAssumption DEF Init, TypeOK
<1>2. taken \subseteq Accepted  BY DEF Init
<1>3. Active(N) \subseteq Worker  BY <1>1, Sizes
<1>4. Placed  BY <1>3 DEF Init, Placed
<1>5. BehindCursor /\ CappedFull  BY <1>3 DEF Init, BehindCursor, CappedFull
<1>6. NoneLeftBehind /\ WholeChunk
  BY <1>3 DEF Init, NoneLeftBehind, WholeChunk, Reading
<1>7. SliceRespected
  BY FS_EmptySet, <1>1, Sizes DEF Init, SliceRespected, LeastOf
<1>8. ErrorSaved /\ Quiet  BY <1>3 DEF Init, ErrorSaved, Quiet
<1> QED  BY <1>1, <1>2, <1>4, <1>5, <1>6, <1>7, <1>8 DEF IInv

(* What no step of a worker touches.                                       *)
LEMMA StepKeeps ==
  ASSUME NEW w, Step(w)
  PROVE  /\ UNCHANGED callVars
         /\ N' = N /\ Accepted' = Accepted /\ Capped' = Capped
         /\ \A p : LineAt(p)' = LineAt(p)
         /\ \A v : Active(v)' = Active(v)
<1>1. UNCHANGED callVars
  BY DEF Step, CloneHandle, SkipTask, LeaveFrame, ReadFrame, SkipLine, BadLine,
         TakeRow, RefuseRow, EndFrame, ToDf, SaveError
<1> QED  BY <1>1 DEF callVars, scanned, N, Accepted, RowAt, Capped, LineAt

LEMMA StepTypes ==
  ASSUME TypeOK, Placed, NEW w \in Active(N), Step(w)
  PROVE  TypeOK'
<1>1. /\ w \in Worker /\ N \in Nat /\ FirstFrame(N, w) \in Nat \ {0}
      /\ Capped => opts.n_rows \in Nat
  BY Sizes, ActiveWorkers
<1>2. /\ UNCHANGED callVars
      /\ frame[w] + 1 \in Nat \ {0} /\ line[w] + 1 \in Nat \ {0} /\ 1 \in Nat \ {0}
  BY <1>1, StepKeeps DEF TypeOK
<1>3. CASE CloneHandle(w)  BY <1>1, <1>2, <1>3 DEF TypeOK, CloneHandle, Fail, ErrorKinds, callVars, scanned
<1>4. CASE SkipTask(w)  BY <1>1, <1>2, <1>4 DEF TypeOK, SkipTask, callVars, scanned
<1>5. CASE LeaveFrame(w)  BY <1>1, <1>2, <1>5 DEF TypeOK, LeaveFrame, callVars, scanned
<1>6. CASE ReadFrame(w)
  <2>1. line' \in [Worker -> Nat \ {0}]  BY <1>2, <1>6 DEF TypeOK, ReadFrame
  <2>2. pc' = [pc EXCEPT ![w] = "line"] \/ pc' = [pc EXCEPT ![w] = "failed"]
    BY <1>6 DEF ReadFrame, Fail
  <2>3. error' = error \/ error' = [error EXCEPT ![w] = "read"]
    BY <1>6 DEF ReadFrame, Fail
  <2> QED  BY <1>1, <1>2, <1>6, <2>1, <2>2, <2>3 DEF TypeOK, ReadFrame, ErrorKinds, callVars, scanned
<1>7. CASE SkipLine(w)
  <2>1. line' \in [Worker -> Nat \ {0}]  BY <1>2, <1>7 DEF TypeOK, SkipLine
  <2> QED  BY <1>1, <1>2, <1>7, <2>1 DEF TypeOK, SkipLine, callVars, scanned
<1>8. CASE BadLine(w)  BY <1>1, <1>2, <1>8 DEF TypeOK, BadLine, Fail, ErrorKinds, callVars, scanned
<1>9. CASE TakeRow(w)
  <2>4. line' \in [Worker -> Nat \ {0}]  BY <1>2, <1>9 DEF TypeOK, TakeRow
  <2>1. Here(w) \in Nat \X Nat  BY <1>1 DEF TypeOK, Here
  <2>2. IsFiniteSet(taken')  BY <1>9, FS_AddElement DEF TypeOK, TakeRow
  <2>3. slots' \in Nat  BY <1>9 DEF TypeOK, TakeRow, Claim
  <2> QED  BY <1>1, <1>2, <1>9, <2>1, <2>2, <2>3, <2>4 DEF TypeOK, TakeRow, callVars, scanned
<1>10. CASE RefuseRow(w)
  BY <1>1, <1>2, <1>10 DEF TypeOK, RefuseRow, Claim, callVars, scanned
<1>11. CASE EndFrame(w)
  <2>1. CASE frame[w] = LastFrame(N, w)
    BY <1>1, <1>2, <1>11, <2>1 DEF TypeOK, EndFrame, callVars, scanned
  <2>2. CASE frame[w] # LastFrame(N, w)
    <3>1. line' \in [Worker -> Nat \ {0}]
      BY <1>2, <1>11, <2>2 DEF TypeOK, EndFrame
    <3>2. frame' \in [Worker -> Nat \ {0}]
      BY <1>2, <1>11, <2>2 DEF TypeOK, EndFrame
    <3> QED  BY <1>1, <1>2, <1>11, <2>2, <3>1, <3>2 DEF TypeOK, EndFrame, callVars, scanned
  <2> QED  BY <2>1, <2>2
<1>12. CASE ToDf(w)  BY <1>1, <1>2, <1>12 DEF TypeOK, ToDf, Fail, ErrorKinds, callVars, scanned
<1>13. CASE SaveError(w)  BY <1>1, <1>2, <1>13 DEF TypeOK, SaveError, callVars, scanned
<1> QED  BY <1>3, <1>4, <1>5, <1>6, <1>7, <1>8, <1>9, <1>10, <1>11, <1>12, <1>13 DEF Step

(* A granted row is new: no worker has taken it.                           *)
LEMMA FreshRow ==
  ASSUME IInv, NEW w \in Active(N), TakeRow(w)
  PROVE  /\ Here(w) \in Accepted
         /\ Here(w) \notin taken
         /\ frame[w] \in Chunk(N, w)
<1>1. TypeOK /\ w \in Worker  BY Sizes DEF IInv
<1>2. frame[w] \in Chunk(N, w)  BY DEF IInv, Placed, TakeRow, HasLine
<1>3. frame[w] \in 1..N  BY <1>1, <1>2, ChunkFrames, Sizes
<1>4. line[w] \in 1..Len(text[frame[w]])
  BY <1>1, <1>3, Sizes DEF TypeOK, TakeRow, HasLine
<1>5. Here(w) \in Accepted
  BY <1>3, <1>4, AcceptedLines DEF Here, TakeRow, LineAt, RowAt
<1>6. ~ Before(Here(w), Here(w))  BY <1>1 DEF Before, Here, TypeOK
<1>7. Here(w) \notin taken  BY <1>2, <1>6 DEF IInv, BehindCursor, Here
<1> QED  BY <1>2, <1>5, <1>7

(* The counter and the rows move together.                                 *)
LEMMA StepSlice ==
  ASSUME IInv, NEW w \in Active(N), Step(w)
  PROVE  SliceRespected' /\ CappedFull'
<1>1. /\ TypeOK /\ w \in Worker /\ SliceRespected /\ CappedFull
      /\ Capped => opts.n_rows \in Nat
  BY Sizes DEF IInv
<1>2. /\ UNCHANGED callVars /\ opts' = opts /\ Capped' = Capped
  BY StepKeeps DEF callVars, scanned
<1>3. CASE TakeRow(w)
  <2>1. Cardinality(taken') = Cardinality(taken) + 1
    BY <1>1, <1>3, FreshRow, FS_AddElement DEF TakeRow, TypeOK
  <2>2. SliceRespected'
    BY <1>1, <1>2, <1>3, <2>1 DEF SliceRespected, TakeRow, Claim, Granted, LeastOf, TypeOK
  <2>3. CappedFull'
    BY <1>1, <1>2, <1>3 DEF CappedFull, TakeRow, Claim, Granted, TypeOK
  <2> QED  BY <2>2, <2>3
<1>4. CASE RefuseRow(w)
  <2>1. SliceRespected'
    BY <1>1, <1>2, <1>4 DEF SliceRespected, RefuseRow, Claim, Granted, LeastOf, TypeOK
  <2>2. CappedFull'
    BY <1>1, <1>2, <1>4 DEF CappedFull, RefuseRow, Claim, Granted, TypeOK
  <2> QED  BY <2>1, <2>2
<1>5. CASE LeaveFrame(w)
  BY <1>1, <1>2, <1>5 DEF SliceRespected, CappedFull, LeaveFrame, TypeOK
<1>6. CASE /\ ~ TakeRow(w) /\ ~ RefuseRow(w) /\ ~ LeaveFrame(w)
  <2>1. UNCHANGED <<slots, taken, capped>>
    BY <1>6 DEF Step, CloneHandle, SkipTask, ReadFrame, SkipLine, BadLine,
                EndFrame, ToDf, SaveError
  <2> QED  BY <1>1, <1>2, <2>1 DEF SliceRespected, CappedFull
<1> QED  BY <1>3, <1>4, <1>5, <1>6

(* Errors are saved before their worker is done with, and a worker that    *)
(* moves has a caller waiting.                                             *)
LEMMA StepErrors ==
  ASSUME IInv, NEW w \in Active(N), Step(w)
  PROVE  ErrorSaved' /\ Quiet'
<1>1. /\ TypeOK /\ w \in Worker /\ ErrorSaved /\ Quiet /\ Active(N) \subseteq Worker
      /\ None \notin ErrorKinds
  BY Sizes, ScanAssumption, DealAssumption DEF IInv
<1>2. /\ Active(N)' = Active(N) /\ call' = call
  BY StepKeeps DEF callVars, scanned, Active
<1>3. call = "running"
  BY <1>1 DEF Quiet, Step, CloneHandle, SkipTask, LeaveFrame, ReadFrame, SkipLine,
              BadLine, TakeRow, RefuseRow, EndFrame, ToDf, SaveError, HasLine
<1>4. Quiet'  BY <1>2, <1>3 DEF Quiet
<1>5. ASSUME SkipTask(w) PROVE ErrorSaved'
  BY <1>1, <1>2, <1>5 DEF ErrorSaved, SkipTask, TypeOK
<1>6. ASSUME SaveError(w) PROVE ErrorSaved'
  BY <1>1, <1>2, <1>6 DEF ErrorSaved, SaveError, TypeOK
<1>7. ASSUME ~ SkipTask(w), ~ SaveError(w) PROVE ErrorSaved'
  <2>1. /\ saved' = saved
        /\ \A v \in Worker \ {w} : pc'[v] = pc[v] /\ error'[v] = error[v]
        /\ pc'[w] # "skipped" /\ (pc'[w] = "failed" => error'[w] \in ErrorKinds)
    <3>1. saved' = saved
      BY <1>7 DEF Step, CloneHandle, LeaveFrame, ReadFrame, SkipLine, BadLine,
                  TakeRow, RefuseRow, EndFrame, ToDf
    <3>2. \A v \in Worker \ {w} : pc'[v] = pc[v] /\ error'[v] = error[v]
      BY <1>1, <1>7 DEF Step, CloneHandle, LeaveFrame, ReadFrame, SkipLine, BadLine,
                  TakeRow, RefuseRow, EndFrame, ToDf, Fail, TypeOK
    <3>3. CASE CloneHandle(w)  BY <1>1, <3>3 DEF CloneHandle, Fail, TypeOK, ErrorKinds
    <3>4. CASE ReadFrame(w)  BY <1>1, <3>4 DEF ReadFrame, Fail, TypeOK, ErrorKinds
    <3>5. CASE BadLine(w)  BY <1>1, <3>5 DEF BadLine, Fail, TypeOK, ErrorKinds
    <3>6. CASE ToDf(w)  BY <1>1, <3>6 DEF ToDf, Fail, TypeOK, ErrorKinds
    <3>7. CASE LeaveFrame(w) \/ SkipLine(w) \/ TakeRow(w) \/ RefuseRow(w) \/ EndFrame(w)
      BY <1>1, <3>7 DEF LeaveFrame, SkipLine, TakeRow, RefuseRow, EndFrame, TypeOK, HasLine
    <3> QED  BY <1>7, <3>1, <3>2, <3>3, <3>4, <3>5, <3>6, <3>7 DEF Step
  <2> QED  BY <1>1, <1>2, <2>1 DEF ErrorSaved
<1> QED  BY <1>4, <1>5, <1>6, <1>7

(* The cursor: within a chunk, all that was accepted behind it is taken    *)
(* and all that is taken is behind it.                                     *)
CursorAt(w) ==
  /\ pc[w] \in {"frame", "line"} => frame[w] \in Chunk(N, w)
  /\ pc[w] \in {"idle", "frame"} => line[w] = 1
  /\ \A p \in taken : p[1] \in Chunk(N, w) => pc[w] # "idle" /\ Before(p, Here(w))
  /\ pc[w] \in Reading =>
       \A p \in Accepted : p[1] \in Chunk(N, w) /\ Before(p, Here(w)) => p \in taken
  /\ pc[w] \in {"to_df", "done"} =>
       \/ capped[w]
       \/ frame[w] = LastFrame(N, w) /\ line[w] > Len(text[frame[w]])

LEMMA CursorInv ==
  Placed /\ BehindCursor /\ NoneLeftBehind /\ WholeChunk <=> \A w \in Active(N) : CursorAt(w)
BY DEF Placed, BehindCursor, NoneLeftBehind, WholeChunk, CursorAt

LEMMA StepOthers ==
  ASSUME TypeOK, NEW w \in Active(N), Step(w), NEW v \in Active(N) \ {w}
  PROVE  /\ pc'[v] = pc[v] /\ frame'[v] = frame[v] /\ line'[v] = line[v]
         /\ capped'[v] = capped[v] /\ Here(v)' = Here(v)
<1>1. v \in Worker /\ w \in Worker  BY Sizes
<1>2. /\ pc'[v] = pc[v] /\ frame'[v] = frame[v] /\ line'[v] = line[v]
      /\ capped'[v] = capped[v]
  BY <1>1 DEF TypeOK, Step, CloneHandle, SkipTask, LeaveFrame, ReadFrame, SkipLine,
              BadLine, TakeRow, RefuseRow, EndFrame, ToDf, SaveError, Fail
<1> QED  BY <1>2 DEF Here

LEMMA AcceptedPairs ==
  ASSUME TypeOK, NEW p \in Accepted
  PROVE  /\ p = <<p[1], p[2]>>
         /\ p[1] \in 1..N /\ p[2] \in 1..Len(text[p[1]]) /\ p[2] \in Nat \ {0}
         /\ LineAt(p).kind = "row"
<1>1. PICK f \in 1..N : \E l \in 1..Len(text[f]) : p = <<f, l>> /\ RowAt(f, l)
  BY AcceptedLines
<1>2. PICK l \in 1..Len(text[f]) : p = <<f, l>> /\ RowAt(f, l)  BY <1>1
<1>3. f \in Nat /\ Len(text[f]) \in Nat  BY Sizes
<1> QED  BY <1>2, <1>3 DEF RowAt, LineAt

LEMMA StepOwnCursor ==
  ASSUME IInv, NEW w \in Active(N), Step(w)
  PROVE  CursorAt(w)'
<1>1. /\ TypeOK /\ w \in Worker /\ CursorAt(w) /\ taken \subseteq Accepted
      /\ frame[w] \in Nat \ {0} /\ line[w] \in Nat \ {0}
  BY Sizes, CursorInv DEF IInv, TypeOK
<1>2. /\ text' = text /\ N' = N /\ Accepted' = Accepted
      /\ Chunk(N, w)' = Chunk(N, w) /\ LastFrame(N, w)' = LastFrame(N, w)
  BY StepKeeps DEF callVars, scanned, Chunk, FirstFrame, LastFrame
<1>3. CASE CloneHandle(w)
  <2>1. \A p \in taken : p[1] \notin Chunk(N, w)
    BY <1>1, <1>3 DEF CursorAt, CloneHandle
  <2>2. taken' = taken /\ line' = line /\ line[w] = 1
    BY <1>1, <1>3 DEF CloneHandle, CursorAt
  <2>3. CASE pc' = [pc EXCEPT ![w] = "frame"]
    <3>1. pc'[w] = "frame" /\ frame'[w] = FirstFrame(N, w)
      BY <1>1, <1>3, <2>3 DEF CloneHandle, Fail, TypeOK
    <3>2. frame'[w] \in Chunk(N, w) /\ Here(w)' = <<FirstFrame(N, w), 1>>
      BY <1>1, <2>2, <3>1, ChunkFrames, Sizes DEF Here
    <3>3. \A p \in Accepted : p[1] \in Chunk(N, w) => ~ Before(p, Here(w)')
      <4> SUFFICES ASSUME NEW p \in Accepted, p[1] \in Chunk(N, w)
                   PROVE  ~ Before(p, Here(w)')
        OBVIOUS
      <4>1. /\ FirstFrame(N, w) <= p[1] /\ FirstFrame(N, w) \in Nat
            /\ p[1] \in Nat /\ p[2] \in Nat \ {0}
        BY <1>1, Sizes, ChunkFrames, ActiveWorkers, AcceptedPairs
      <4> QED  BY <3>2, <4>1 DEF Before
    <3> QED  BY <1>2, <2>1, <2>2, <3>1, <3>2, <3>3 DEF CursorAt
  <2>4. CASE pc' = [pc EXCEPT ![w] = "failed"]
    BY <1>1, <1>2, <2>1, <2>2, <2>4 DEF CursorAt, TypeOK, Reading
  <2> QED  BY <1>3, <2>3, <2>4 DEF CloneHandle, Fail
<1>4. CASE SkipTask(w)
  BY <1>1, <1>2, <1>4 DEF CursorAt, SkipTask, TypeOK, Reading
<1>5. CASE LeaveFrame(w) \/ RefuseRow(w)
  <2>1. /\ pc[w] \in {"frame", "line"} /\ pc'[w] = "to_df" /\ capped'[w] /\ taken' = taken
        /\ frame' = frame /\ line' = line
    BY <1>1, <1>5 DEF LeaveFrame, RefuseRow, HasLine, TypeOK
  <2>2. Here(w)' = Here(w)  BY <2>1 DEF Here
  <2> QED  BY <1>1, <1>2, <2>1, <2>2 DEF CursorAt, Reading
<1>6. CASE ReadFrame(w)
  <2>1. /\ pc[w] = "frame" /\ line[w] = 1 /\ line'[w] = 1 /\ frame' = frame /\ taken' = taken
        /\ pc'[w] = "line" \/ pc'[w] = "failed"
    BY <1>1, <1>6 DEF ReadFrame, Fail, CursorAt, TypeOK
  <2>2. Here(w)' = Here(w)  BY <2>1 DEF Here
  <2> QED  BY <1>1, <1>2, <2>1, <2>2 DEF CursorAt, Reading
<1>7. CASE SkipLine(w) \/ TakeRow(w)
  <2>1. /\ pc[w] = "line" /\ pc'[w] = "line" /\ frame' = frame /\ line'[w] = line[w] + 1
        /\ \/ taken' = taken \cup {Here(w)}
           \/ taken' = taken /\ LineAt(Here(w)).kind # "row"
        /\ taken \subseteq taken'
    <3>1. CASE SkipLine(w)
      BY <1>1, <3>1 DEF SkipLine, HasLine, TypeOK
    <3>2. CASE TakeRow(w)  BY <1>1, <3>2 DEF TakeRow, HasLine, TypeOK
    <3> QED  BY <1>7, <3>1, <3>2
  <2>2. Here(w)' = <<frame[w], line[w] + 1>>  BY <2>1 DEF Here
  <2>3. frame[w] \in Chunk(N, w)  BY <1>1, <2>1 DEF CursorAt
  <2>4. \A p \in taken' : p[1] \in Chunk(N, w) => Before(p, Here(w)')
    <3> SUFFICES ASSUME NEW p \in taken', p[1] \in Chunk(N, w) PROVE Before(p, Here(w)')
      OBVIOUS
    <3>1. CASE p = Here(w)  BY <1>1, <2>2, <3>1 DEF Here, Before
    <3>2. CASE p \in taken
      <4>1. p[1] \in Nat /\ p[2] \in Nat  BY <1>1, <3>2 DEF TypeOK
      <4>2. Before(p, Here(w))  BY <1>1, <3>2 DEF CursorAt
      <4> QED  BY <1>1, <2>2, <4>1, <4>2 DEF Before, Here
    <3> QED  BY <2>1, <3>1, <3>2
  <2>5. \A p \in Accepted : p[1] \in Chunk(N, w) /\ Before(p, Here(w)') => p \in taken'
    <3> SUFFICES ASSUME NEW p \in Accepted, p[1] \in Chunk(N, w), Before(p, Here(w)')
                 PROVE  p \in taken'
      OBVIOUS
    <3>1. /\ p = <<p[1], p[2]>> /\ p[1] \in Nat /\ p[2] \in Nat /\ LineAt(p).kind = "row"
      BY <1>1, AcceptedPairs, Sizes
    <3>2. Before(p, Here(w)) \/ p = Here(w)
      BY <1>1, <2>2, <3>1 DEF Before, Here
    <3>3. CASE Before(p, Here(w))  BY <1>1, <2>1, <3>3 DEF CursorAt, Reading
    <3>4. CASE p = Here(w)  BY <2>1, <3>1, <3>4
    <3> QED  BY <3>2, <3>3, <3>4
  <2> QED  BY <1>2, <2>1, <2>3, <2>4, <2>5 DEF CursorAt
<1>8. CASE BadLine(w) \/ SaveError(w)
  <2>1. /\ pc[w] # "idle" /\ pc'[w] \in {"failed", "skipped"} /\ taken' = taken
        /\ frame' = frame /\ line' = line
    BY <1>1, <1>8 DEF BadLine, SaveError, HasLine, Fail, TypeOK
  <2>2. Here(w)' = Here(w)  BY <2>1 DEF Here
  <2> QED  BY <1>1, <1>2, <2>1, <2>2 DEF CursorAt, Reading
<1>9. CASE EndFrame(w) /\ frame[w] = LastFrame(N, w)
  <2>1. /\ pc[w] = "line" /\ pc'[w] = "to_df" /\ frame' = frame /\ line' = line /\ taken' = taken
        /\ line[w] > Len(text[frame[w]])
    BY <1>1, <1>9 DEF EndFrame, TypeOK
  <2>2. Here(w)' = Here(w)  BY <2>1 DEF Here
  <2> QED  BY <1>1, <1>2, <1>9, <2>1, <2>2 DEF CursorAt, Reading
<1>10. CASE EndFrame(w) /\ frame[w] # LastFrame(N, w)
  <2>1. /\ pc[w] = "line" /\ pc'[w] = "frame" /\ frame'[w] = frame[w] + 1 /\ line'[w] = 1
        /\ taken' = taken /\ line[w] > Len(text[frame[w]])
    BY <1>1, <1>10 DEF EndFrame, TypeOK
  <2>2. Here(w)' = <<frame[w] + 1, 1>>  BY <2>1 DEF Here
  <2>3. frame[w] \in Chunk(N, w)  BY <1>1, <2>1 DEF CursorAt
  <2>4. frame'[w] \in Chunk(N, w)  BY <1>1, <1>10, <2>1, <2>3, ChunkFrames, Sizes
  <2>5. \A p \in taken : p[1] \in Chunk(N, w) => Before(p, Here(w)')
    <3> SUFFICES ASSUME NEW p \in taken, p[1] \in Chunk(N, w) PROVE Before(p, Here(w)')
      OBVIOUS
    <3>1. p[1] \in Nat /\ p[2] \in Nat  BY <1>1 DEF TypeOK
    <3>2. Before(p, Here(w))  BY <1>1 DEF CursorAt
    <3> QED  BY <1>1, <2>2, <3>1, <3>2 DEF Before, Here
  <2>6. \A p \in Accepted : p[1] \in Chunk(N, w) /\ Before(p, Here(w)') => p \in taken
    <3> SUFFICES ASSUME NEW p \in Accepted, p[1] \in Chunk(N, w), Before(p, Here(w)')
                 PROVE  p \in taken
      OBVIOUS
    <3>1. /\ p[1] \in Nat /\ p[2] \in Nat \ {0} /\ Len(text[p[1]]) \in Nat
          /\ p[2] <= Len(text[p[1]])
      BY <1>1, AcceptedPairs, Sizes
    <3>2. p[1] <= frame[w]  BY <1>1, <2>2, <3>1 DEF Before
    <3>3. Before(p, Here(w))
      <4>1. CASE p[1] = frame[w]
        <5>1. p[2] < line[w]  BY <1>1, <2>1, <3>1, <4>1
        <5> QED  BY <4>1, <5>1 DEF Before, Here
      <4>2. CASE p[1] < frame[w]  BY <4>2 DEF Before, Here
      <4> QED  BY <1>1, <3>1, <3>2, <4>1, <4>2
    <3> QED  BY <1>1, <2>1, <3>3 DEF CursorAt, Reading
  <2> QED  BY <1>2, <2>1, <2>4, <2>5, <2>6 DEF CursorAt
<1>11. CASE ToDf(w)
  <2>1. /\ pc[w] = "to_df" /\ pc'[w] \in {"done", "failed"} /\ taken' = taken
        /\ frame' = frame /\ line' = line /\ capped' = capped
    BY <1>1, <1>11 DEF ToDf, Fail, TypeOK
  <2>2. Here(w)' = Here(w)  BY <2>1 DEF Here
  <2> QED  BY <1>1, <1>2, <2>1, <2>2 DEF CursorAt, Reading
<1> QED  BY <1>3, <1>4, <1>5, <1>6, <1>7, <1>8, <1>9, <1>10, <1>11 DEF Step

(* A worker that does not move keeps its place: what the mover takes lies  *)
(* in another chunk.                                                       *)
LEMMA StepOthersCursor ==
  ASSUME IInv, NEW w \in Active(N), Step(w), NEW v \in Active(N) \ {w}
  PROVE  CursorAt(v)'
<1>1. TypeOK /\ CursorAt(v) /\ N \in Nat  BY Sizes, CursorInv DEF IInv
<1>2. /\ pc'[v] = pc[v] /\ frame'[v] = frame[v] /\ line'[v] = line[v]
      /\ capped'[v] = capped[v] /\ Here(v)' = Here(v)
  BY <1>1, StepOthers
<1>3. /\ text' = text /\ N' = N /\ Accepted' = Accepted
      /\ Chunk(N, v)' = Chunk(N, v) /\ LastFrame(N, v)' = LastFrame(N, v)
  BY StepKeeps DEF callVars, scanned, Chunk, FirstFrame, LastFrame
<1>4. /\ taken \subseteq taken'
      /\ \A p \in taken' : p \in taken \/ p[1] \notin Chunk(N, v)
  <2>1. CASE TakeRow(w)
    <3>1. frame[w] \in Chunk(N, w)  BY <2>1, FreshRow
    <3>2. frame[w] \notin Chunk(N, v)  BY <1>1, <3>1, ChunksDisjoint
    <3>3. taken' = taken \cup {Here(w)} /\ Here(w)[1] = frame[w]
      BY <2>1 DEF TakeRow, Here
    <3> QED  BY <3>2, <3>3
  <2>2. CASE ~ TakeRow(w)
    BY <2>2 DEF Step, CloneHandle, SkipTask, LeaveFrame, ReadFrame, SkipLine, BadLine,
                RefuseRow, EndFrame, ToDf, SaveError
  <2> QED  BY <2>1, <2>2
<1> QED  BY <1>1, <1>2, <1>3, <1>4 DEF CursorAt

LEMMA StepInv ==
  ASSUME IInv, NEW w \in Active(N), Step(w)
  PROVE  IInv'
<1>1. TypeOK /\ Placed  BY DEF IInv
<1>2. TypeOK'  BY <1>1, StepTypes
<1>3. taken' \subseteq Accepted'
  <2>1. Accepted' = Accepted  BY StepKeeps
  <2>2. CASE TakeRow(w)  BY <2>1, <2>2, FreshRow DEF TakeRow, IInv
  <2>3. CASE ~ TakeRow(w)
    BY <2>1, <2>3 DEF IInv, Step, CloneHandle, SkipTask, LeaveFrame, ReadFrame, SkipLine,
                      BadLine, RefuseRow, EndFrame, ToDf, SaveError
  <2> QED  BY <2>2, <2>3
<1>4. (Placed /\ BehindCursor /\ NoneLeftBehind /\ WholeChunk)'
  <2>1. Active(N)' = Active(N)  BY StepKeeps DEF Active
  <2>2. \A v \in Active(N) : CursorAt(v)'  BY StepOwnCursor, StepOthersCursor
  <2>3. (\A v \in Active(N) : CursorAt(v))'  BY <2>1, <2>2
  <2> QED  BY <2>3 DEF Placed, BehindCursor, NoneLeftBehind, WholeChunk, CursorAt
<1> QED  BY <1>2, <1>3, <1>4, StepSlice, StepErrors DEF IInv

(* The steps of the caller read what the workers left and touch none of    *)
(* it; they leave when there is nothing left to wait for.                  *)
LEMMA CallerInv ==
  ASSUME IInv, Begin \/ Collect
  PROVE  IInv'
<1>1. UNCHANGED <<scanned, workerVars, slots, saved, taken>>
  BY DEF Begin, Collect, CollectError, CollectNothing, CollectFrame
<1>2. /\ text' = text /\ opts' = opts /\ pc' = pc /\ frame' = frame /\ line' = line
      /\ capped' = capped /\ error' = error /\ slots' = slots /\ saved' = saved
      /\ taken' = taken
  BY <1>1 DEF workerVars, scanned
<1>3. call' \in {"running"} \cup Answers
  BY DEF Begin, Collect, CollectError, CollectNothing, CollectFrame, Answers
<1>4. TypeOK'  BY <1>2, <1>3 DEF IInv, TypeOK
<1>5. Quiet'
  <2>1. Active(N)' = Active(N)  BY <1>2 DEF N, Active
  <2>2. CASE Begin  BY <1>2, <2>1, <2>2 DEF IInv, Quiet, Begin
  <2>3. CASE Collect
    BY <1>2, <2>1, <2>3 DEF Quiet, Collect, CollectError, CollectNothing, CollectFrame, Finished
  <2> QED  BY <2>2, <2>3
<1>6. /\ (taken \subseteq Accepted)'
      /\ (Placed /\ BehindCursor /\ NoneLeftBehind /\ WholeChunk)'
      /\ (CappedFull /\ SliceRespected /\ ErrorSaved)'
  BY <1>2 DEF IInv, Accepted, RowAt, N, Placed, BehindCursor, NoneLeftBehind, WholeChunk,
              CappedFull, SliceRespected, ErrorSaved, Here, Capped
<1> QED  BY <1>4, <1>5, <1>6 DEF IInv

LEMMA NextInv == IInv /\ [Next]_vars => IInv'
<1> SUFFICES ASSUME IInv, [Next]_vars PROVE IInv'  OBVIOUS
<1>1. CASE Next  BY <1>1, StepInv, CallerInv DEF Next
<1>2. CASE UNCHANGED vars
  <2>1. /\ text' = text /\ opts' = opts /\ call' = call /\ pc' = pc /\ frame' = frame
        /\ line' = line /\ capped' = capped /\ error' = error /\ slots' = slots
        /\ saved' = saved /\ taken' = taken
    BY <1>2 DEF vars, callVars, scanned, workerVars
  <2>2. TypeOK'  BY <2>1 DEF IInv, TypeOK
  <2>3. Accepted' = Accepted /\ N' = N /\ Capped' = Capped
    BY <2>1 DEF Accepted, RowAt, N, Capped
  <2>4. (taken \subseteq Accepted)'  BY <2>1, <2>3 DEF IInv
  <2>5. Placed' /\ BehindCursor'  BY <2>1, <2>3 DEF IInv, Placed, BehindCursor, Here
  <2>6. NoneLeftBehind' /\ WholeChunk'
    BY <2>1, <2>3 DEF IInv, NoneLeftBehind, WholeChunk, Here
  <2>7. CappedFull' /\ SliceRespected'
    BY <2>1, <2>3 DEF IInv, CappedFull, SliceRespected
  <2>8. ErrorSaved' /\ Quiet'  BY <2>1, <2>3 DEF IInv, ErrorSaved, Quiet
  <2> QED  BY <2>2, <2>4, <2>5, <2>6, <2>7, <2>8 DEF IInv
<1> QED  BY <1>1, <1>2

LEMMA Inductive == Spec => []IInv
BY InitInv, NextInv, PTL DEF Spec

-----------------------------------------------------------------------------
(* The theorems.                                                           *)

(* The variables keep their types.                                         *)
THEOREM TypeCorrect == Spec => []TypeOK
<1>1. IInv => TypeOK  BY DEF IInv
<1> QED  BY <1>1, Inductive, PTL

(* However the workers interleave, the rows read are as many as the slots  *)
(* handed out, up to the slice.                                            *)
THEOREM SliceIsRespected == Spec => []SliceRespected
<1>1. IInv => SliceRespected  BY DEF IInv
<1> QED  BY <1>1, Inductive, PTL

LEMMA FullWhenCapped ==
  ASSUME IInv, NEW w \in Worker, capped[w]
  PROVE  Capped /\ Cardinality(taken) = opts.n_rows
<1>1. TypeOK /\ Capped /\ slots >= opts.n_rows /\ SliceRespected
  BY DEF IInv, CappedFull
<1>2. slots \in Nat /\ opts.n_rows \in Nat  BY <1>1, Sizes DEF TypeOK
<1> QED  BY <1>1, <1>2 DEF SliceRespected, LeastOf

(* No worker abandons its chunk while a place in the slice is free.        *)
THEOREM WorkersStopOnlyWhenFull == Spec => []StopsOnlyWhenFull
<1>1. IInv => StopsOnlyWhenFull  BY FullWhenCapped DEF StopsOnlyWhenFull
<1> QED  BY <1>1, Inductive, PTL

(* When every worker has come to its end, nothing is left: each accepted   *)
(* row has been taken, or the slice is full.                               *)
LEMMA NothingLeft ==
  ASSUME IInv, Finished, saved = None, Workers(N) > 0
  PROVE  taken = Accepted \/ (Capped /\ Cardinality(taken) = opts.n_rows)
<1>1. TypeOK /\ N \in Nat /\ Active(N) \subseteq Worker /\ taken \subseteq Accepted
  BY Sizes DEF IInv
<1>2. \A w \in Active(N) : pc[w] = "done"  BY DEF IInv, ErrorSaved, Finished
<1>3. Workers(N) > 0  OBVIOUS
<1>4. CASE \E w \in Active(N) : capped[w]  BY <1>1, <1>4, FullWhenCapped
<1>5. CASE \A w \in Active(N) : ~ capped[w]
  <2> SUFFICES ASSUME NEW p \in Accepted PROVE p \in taken  BY <1>1
  <2>1. /\ p[1] \in 1..N /\ p[2] \in Nat /\ p[2] <= Len(text[p[1]])
        /\ Len(text[p[1]]) \in Nat
    BY <1>1, AcceptedPairs, Sizes
  <2>2. PICK w \in Active(N) : p[1] \in Chunk(N, w)  BY <1>1, <1>3, <2>1, ChunksCover
  <2>3. frame[w] = LastFrame(N, w) /\ line[w] > Len(text[frame[w]])
    BY <1>2, <1>5 DEF IInv, WholeChunk
  <2>4. p[1] <= frame[w] /\ frame[w] \in Nat /\ line[w] \in Nat /\ p[1] \in Nat
    BY <1>1, <2>1, <2>2, <2>3, ChunkFrames, Sizes DEF TypeOK
  <2>5. CASE p[1] = frame[w]
    <3>1. p[2] < line[w]  BY <2>1, <2>3, <2>4, <2>5
    <3>2. Before(p, Here(w))  BY <2>5, <3>1 DEF Before, Here
    <3> QED  BY <1>2, <2>2, <3>2 DEF IInv, NoneLeftBehind, Reading
  <2>6. CASE p[1] < frame[w]
    <3>1. Before(p, Here(w))  BY <2>6 DEF Before, Here
    <3> QED  BY <1>2, <2>2, <3>1 DEF IInv, NoneLeftBehind, Reading
  <2> QED  BY <2>4, <2>5, <2>6
<1> QED  BY <1>4, <1>5

(* The promise counts rows the same way.                                    *)
LEMMA PromiseCounts == \A S : Promise!Cardinality(S) = Cardinality(S)
  BY DEF Promise!Cardinality, Cardinality

LEMMA StepPromise ==
  ASSUME IInv, NEW w \in Active(N), Step(w)
  PROVE  [Promise!Next]_Promise!vars
<1>1. /\ TypeOK /\ SliceRespected /\ Quiet /\ w \in Active(N)
      /\ Capped => opts.n_rows \in Nat
  BY Sizes DEF IInv
<1>2. UNCHANGED callVars /\ Accepted' = Accepted  BY StepKeeps
<1>3. opts' = opts /\ call' = call  BY <1>2 DEF callVars, scanned
<1>4. CASE TakeRow(w)
  <2>1. call = "running"  BY <1>1, <1>4 DEF Quiet, TakeRow, HasLine
  <2>2. Here(w) \in Accepted \ taken  BY <1>4, FreshRow
  <2>3. taken' = taken \cup {Here(w)}  BY <1>4 DEF TakeRow
  <2>4. opts.n_rows = None \/ Cardinality(taken) < opts.n_rows
    BY <1>1, <1>4 DEF TakeRow, Granted, Capped, SliceRespected, LeastOf, TypeOK
  <2>5. Answer = "pending" /\ Answer' = Answer  BY <1>3, <2>1 DEF Answer, Answers
  <2>6. Promise!Take(Here(w))
    BY <1>2, <1>3, <2>2, <2>3, <2>4, <2>5, PromiseCounts DEF Promise!Take, Promise!Room
  <2> QED  BY <2>2, <2>6 DEF Promise!Next
<1>5. CASE ~ TakeRow(w)
  <2>1. taken' = taken
    BY <1>5 DEF Step, CloneHandle, SkipTask, LeaveFrame, ReadFrame, SkipLine, BadLine,
                RefuseRow, EndFrame, ToDf, SaveError
  <2> QED  BY <1>2, <1>3, <2>1 DEF Promise!vars, Answer
<1> QED  BY <1>4, <1>5

LEMMA CallerPromise ==
  ASSUME IInv, Begin \/ Collect
  PROVE  [Promise!Next]_Promise!vars
<1>1. /\ text' = text /\ opts' = opts /\ taken' = taken /\ Accepted' = Accepted
  BY DEF Begin, Collect, CollectError, CollectNothing, CollectFrame, scanned, Accepted, N, RowAt
<1>2. Answer = "pending"
  BY DEF Begin, Collect, CollectError, CollectNothing, CollectFrame, Answer, Answers
<1>3. CASE call' = "frame"
  <2>1. Finished /\ saved = None /\ Parts # {}
    BY <1>3 DEF Begin, Collect, CollectError, CollectNothing, CollectFrame
  <2>2. N \in Nat /\ (Capped => opts.n_rows \in Nat)  BY Sizes DEF IInv
  <2>3. Workers(N) > 0  BY <2>1, <2>2, ActiveWorkers DEF Parts
  <2>4. taken = Accepted \/ (opts.n_rows # None /\ ~ (Cardinality(taken) < opts.n_rows))
    BY <2>1, <2>2, <2>3, NothingLeft DEF Capped
  <2>5. Promise!AnswerFrame
    <3>1. Answer' = "frame"  BY <1>3 DEF Answer, Answers
    <3> QED  BY <1>1, <1>2, <2>4, <3>1, PromiseCounts DEF Promise!AnswerFrame, Promise!Room
  <2> QED  BY <2>5 DEF Promise!Next
<1>4. CASE call' \in {"declined", "failed"}
  <2>1. Promise!GiveUp  BY <1>1, <1>2, <1>4 DEF Promise!GiveUp, Answer, Answers
  <2> QED  BY <2>1 DEF Promise!Next
<1>5. CASE call' = "running"  BY <1>1, <1>2, <1>5 DEF Promise!vars, Answer, Answers
<1> QED
  BY <1>3, <1>4, <1>5 DEF Begin, Collect, CollectError, CollectNothing, CollectFrame

(* Every run of the parallel scan, whatever the handles, the reads and the *)
(* order of the workers do, is a run of RowClaims: a frame is answered     *)
(* only when every accepted row has been taken once or the slice is full.  *)
THEOREM ScanKeepsPromise == Spec => KeepsPromise
<1>1. Init => Promise!Init  BY DEF Init, Promise!Init, Answer, Answers
<1>2. IInv /\ [Next]_vars => [Promise!Next]_Promise!vars
  <2> SUFFICES ASSUME IInv, [Next]_vars PROVE [Promise!Next]_Promise!vars  OBVIOUS
  <2>1. CASE Next  BY <2>1, StepPromise, CallerPromise DEF Next
  <2>2. CASE UNCHANGED vars
    <3>1. text' = text /\ opts' = opts /\ taken' = taken /\ call' = call
      BY <2>2 DEF vars, callVars, scanned
    <3>2. Accepted' = Accepted  BY <3>1 DEF Accepted, N, RowAt
    <3> QED  BY <3>1, <3>2 DEF Promise!vars, Answer
  <2> QED  BY <2>1, <2>2
<1> QED  BY <1>1, <1>2, Inductive, PTL DEF Spec, KeepsPromise, Promise!Spec

-----------------------------------------------------------------------------
(* Without aligned_cols_cnt no worker ever has a column to show.           *)
NoColumns ==
  ~ opts.aligned =>
    /\ column_keys \in [Worker -> {{}}]
    /\ out \in [Worker -> {EmptyFrame}]
    /\ call # "frame"

LEMMA NoColumnsStep ==
  ASSUME TypeOK, NoColumns, NEW w \in Active(N), Step(w)
  PROVE  NoColumns'
<1> SUFFICES ASSUME ~ opts'.aligned
             PROVE  /\ column_keys' \in [Worker -> {{}}]
                    /\ out' \in [Worker -> {EmptyFrame}]
                    /\ call' # "frame"
  BY DEF NoColumns
<1>1. opts' = opts /\ call' = call  BY StepKeeps DEF callVars, scanned
<1>2. /\ column_keys \in [Worker -> {{}}] /\ out \in [Worker -> {EmptyFrame}]
      /\ call # "frame" /\ ~ opts.aligned /\ w \in Worker
  BY <1>1, Sizes DEF NoColumns
<1>3. column_keys' \in [Worker -> {{}}]
  <2>1. column_keys[w] = {}  BY <1>2
  <2>2. CASE TakeRow(w)
    <3>1. ColumnKeys(w) = {}  BY <1>2, <2>1 DEF ColumnKeys
    <3>2. column_keys' = [column_keys EXCEPT ![w] = {}]  BY <2>2, <3>1 DEF TakeRow
    <3> QED  BY <1>2, <3>2
  <2>3. CASE ~ TakeRow(w)
    <3>1. column_keys' = column_keys
      BY <2>3 DEF Step, CloneHandle, SkipTask, LeaveFrame, ReadFrame, SkipLine, BadLine,
                  RefuseRow, EndFrame, ToDf, SaveError
    <3> QED  BY <1>2, <3>1
  <2> QED  BY <2>2, <2>3
<1>4. out' \in [Worker -> {EmptyFrame}]
  <2>1. CASE ToDf(w)
    <3>1. column_keys[w] = {}  BY <1>2
    <3>2. Emitted(maker[w], column_keys[w]) = EmptyFrame
      <4>1. {} \cap DOMAIN maker[w].columns = {}  OBVIOUS
      <4> QED  BY <3>1, <4>1 DEF Emitted, EmptyFrame
    <3>3. DOMAIN EmptyFrame = {}  BY DEF EmptyFrame
    <3>4. out' = out \/ out' = [out EXCEPT ![w] = EmptyFrame]
      BY <2>1, <3>2, <3>3 DEF ToDf
    <3> QED  BY <1>2, <3>4
  <2>2. CASE ~ ToDf(w)
    <3>1. out' = out
      BY <2>2 DEF Step, CloneHandle, SkipTask, LeaveFrame, ReadFrame, SkipLine, BadLine,
                  TakeRow, RefuseRow, EndFrame, SaveError
    <3> QED  BY <1>2, <3>1
  <2> QED  BY <2>1, <2>2
<1> QED  BY <1>1, <1>2, <1>3, <1>4

LEMMA NoColumnsCaller ==
  ASSUME TypeOK, NoColumns, Begin \/ Collect
  PROVE  NoColumns'
<1> SUFFICES ASSUME ~ opts'.aligned
             PROVE  /\ column_keys' \in [Worker -> {{}}]
                    /\ out' \in [Worker -> {EmptyFrame}]
                    /\ call' # "frame"
  BY DEF NoColumns
<1>1. opts' = opts /\ column_keys' = column_keys /\ out' = out
  BY DEF Begin, Collect, CollectError, CollectNothing, CollectFrame, scanned, workerVars
<1>2. out \in [Worker -> {EmptyFrame}] /\ column_keys \in [Worker -> {{}}]
  BY <1>1 DEF NoColumns
<1>3. Parts = {}
  <2>1. Active(N) \subseteq Worker  BY Sizes
  <2>2. Height(EmptyFrame) = 0  BY DEF Height, EmptyFrame
  <2>3. \A v \in Active(N) : ~ (Height(out[v]) > 0)  BY <1>2, <2>1, <2>2
  <2> QED  BY <2>3 DEF Parts
<1>4. call' # "frame"
  BY <1>3 DEF Begin, Collect, CollectError, CollectNothing, CollectFrame
<1> QED  BY <1>1, <1>2, <1>4

LEMMA ColumnsStayEmpty == Spec => []NoColumns
<1>1. Init => NoColumns  BY DEF Init, NoColumns
<1>2. TypeOK /\ NoColumns /\ [Next]_vars => NoColumns'
  <2> SUFFICES ASSUME TypeOK, NoColumns, [Next]_vars PROVE NoColumns'  OBVIOUS
  <2>1. CASE Next  BY <2>1, NoColumnsStep, NoColumnsCaller DEF Next
  <2>2. CASE UNCHANGED vars
    BY <2>2 DEF vars, callVars, scanned, workerVars, NoColumns
  <2> QED  BY <2>1, <2>2
<1> QED  BY <1>1, <1>2, TypeCorrect, PTL DEF Spec

(* A scan without aligned_cols_cnt leaves every text to the                *)
(* single-threaded path, for any number of workers and any faults.         *)
THEOREM UnalignedNeverAnswers == Spec => []UnalignedDeclines
<1>1. NoColumns => UnalignedDeclines  BY DEF NoColumns, UnalignedDeclines
<1> QED  BY <1>1, ColumnsStayEmpty, PTL

-----------------------------------------------------------------------------
(* Frames of cells: the columns are of one height, the values of one row   *)
(* are of one line, and the lines of the rows ascend.                      *)
Cells == (Nat \X Nat) \cup {None}

Columns(df) == \A k \in DOMAIN df : df[k] \in Seq(Cells)

Sorted(df) ==
  \A j, k \in DOMAIN df : \A a \in 1..Len(df[j]), b \in 1..Len(df[k]) :
    df[j][a] # None /\ df[k][b] # None =>
      /\ a = b => df[j][a] = df[k][b]
      /\ a < b => Before(df[j][a], df[k][b])

Ordered(df) == Columns(df) /\ Rectangular(df) /\ Sorted(df)

CellsOf(df) == {p \in Nat \X Nat : \E k \in DOMAIN df : \E a \in 1..Len(df[k]) : p = df[k][a]}

LEMMA HeightIs ==
  ASSUME NEW df, Columns(df), Rectangular(df)
  PROVE  /\ Height(df) \in Nat
         /\ \A k \in DOMAIN df : Len(df[k]) = Height(df) /\ DOMAIN df[k] = 1..Height(df)
<1>1. CASE DOMAIN df = {}  BY <1>1 DEF Height
<1>2. CASE DOMAIN df # {}
  <2>1. PICK c \in DOMAIN df : Height(df) = Len(df[c])  BY <1>2 DEF Height
  <2>2. \A k \in DOMAIN df : df[k] \in Seq(Cells)  BY DEF Columns
  <2>3. \A k \in DOMAIN df : Len(df[k]) = Len(df[c])  BY <2>1 DEF Rectangular
  <2> HIDE DEF Cells
  <2> QED  BY <2>1, <2>2, <2>3
<1> QED  BY <1>1, <1>2

LEMMA PairCells ==
  ASSUME NEW p \in Nat \X Nat
  PROVE  p \in Cells /\ p # None /\ p[1] \in Nat /\ p[2] \in Nat
  BY ScanAssumption DEF Cells

LEMMA CellPairs ==
  ASSUME NEW p \in Cells, p # None
  PROVE  p \in Nat \X Nat /\ p[1] \in Nat /\ p[2] \in Nat /\ p = <<p[1], p[2]>>
  BY DEF Cells

(* The members of a finite set of numbers, and of positions, counted from  *)
(* the first.                                                              *)
LEMMA NthAscends ==
  ASSUME NEW h \in Nat, NEW S \in SUBSET (1..h)
  PROVE  /\ Cardinality(S) \in Nat
         /\ \A k \in 1..Cardinality(S) : Nth(S, k) \in S
         /\ \A k, l \in 1..Cardinality(S) : k < l => Nth(S, k) < Nth(S, l)
         /\ \A i \in S : \E k \in 1..Cardinality(S) : i = Nth(S, k)
<1> DEFINE c == Cardinality(S)
           upto(i) == {j \in S : j <= i}
           rank == [i \in S |-> Cardinality(upto(i))]
<1>1. IsFiniteSet(S) /\ c \in Nat
  <2>1. IsFiniteSet(1..h)  BY FS_Interval
  <2>2. IsFiniteSet(S)  BY <2>1, FS_Subset
  <2> QED  BY <2>2, FS_CardinalityType
<1>2. ASSUME NEW i \in S
      PROVE  IsFiniteSet(upto(i)) /\ Cardinality(upto(i)) \in 1..c
  <2>1. upto(i) \in SUBSET S /\ i \in upto(i)  OBVIOUS
  <2>2. IsFiniteSet(upto(i)) /\ Cardinality(upto(i)) <= c  BY <1>1, <2>1, FS_Subset
  <2>3. Cardinality(upto(i)) \in Nat  BY <2>2, FS_CardinalityType
  <2>4. Cardinality(upto(i)) # 0  BY <2>1, <2>2, FS_EmptySet
  <2> QED  BY <1>1, <2>2, <2>3, <2>4
<1>3. ASSUME NEW i \in S, NEW j \in S, i < j
      PROVE  rank[i] < rank[j]
  <2>0. i \in Nat /\ j \in Nat /\ \A l \in S : l \in Nat  OBVIOUS
  <2>1. upto(i) \in SUBSET upto(j)
    <3>1. ASSUME NEW l \in S, l <= i PROVE l <= j  BY <1>3, <2>0, <3>1
    <3> QED  BY <3>1
  <2>2. upto(i) # upto(j)
    <3>1. j \in upto(j) /\ j \notin upto(i)  BY <1>3, <2>0
    <3> QED  BY <3>1
  <2>3. IsFiniteSet(upto(i)) /\ IsFiniteSet(upto(j))  BY <1>2
  <2>4. Cardinality(upto(i)) <= Cardinality(upto(j)) /\ Cardinality(upto(i)) # Cardinality(upto(j))
    BY <2>1, <2>2, <2>3, FS_Subset
  <2>5. Cardinality(upto(i)) \in Nat /\ Cardinality(upto(j)) \in Nat  BY <1>2
  <2>6. rank[i] = Cardinality(upto(i)) /\ rank[j] = Cardinality(upto(j))  OBVIOUS
  <2> QED  BY <2>4, <2>5, <2>6
<1>4. rank \in [S -> 1..c] /\ \A i \in S : rank[i] \in Nat
  BY <1>1, <1>2
<1>5. \A i, j \in S : rank[i] = rank[j] => i = j
  <2> TAKE i, j \in S
  <2>1. i < j \/ j < i \/ i = j  OBVIOUS
  <2> QED  BY <1>3, <1>4, <2>1
<1>6. \A k \in 1..c : \E i \in S : rank[i] = k
  <2>1. rank \in Injection(S, 1..c)  BY <1>4, <1>5 DEF Injection, IsInjective
  <2>2. IsFiniteSet(1..c) /\ Cardinality(1..c) = c
    <3>1. c \in Int /\ (1 > c => c = 0)  BY <1>1
    <3> QED  BY <3>1, FS_Interval
  <2>3. rank \in Surjection(S, 1..c)  BY <2>1, <2>2, FS_Injection
  <2> QED  BY <2>3 DEF Surjection
<1>7. ASSUME NEW k \in 1..c PROVE Nth(S, k) \in S /\ rank[Nth(S, k)] = k
  <2>1. \E i \in S : Cardinality({j \in S : j <= i}) = k  BY <1>6
  <2>2. Nth(S, k) \in S /\ Cardinality({j \in S : j <= Nth(S, k)}) = k  BY <2>1 DEF Nth
  <2> QED  BY <2>2
<1>8. ASSUME NEW k \in 1..c, NEW l \in 1..c, k < l PROVE Nth(S, k) < Nth(S, l)
  <2>1. /\ Nth(S, k) \in S /\ rank[Nth(S, k)] = k
        /\ Nth(S, l) \in S /\ rank[Nth(S, l)] = l
    BY <1>7
  <2> HIDE DEF rank
  <2>2. PICK i \in S, j \in S : i = Nth(S, k) /\ j = Nth(S, l)  BY <2>1
  <2>3. ~ (j < i) /\ i # j  BY <1>3, <1>8, <2>1, <2>2
  <2> QED  BY <2>2, <2>3
<1>9. ASSUME NEW i \in S PROVE \E k \in 1..c : i = Nth(S, k)
  <2>1. PICK k \in 1..c : rank[i] = k  BY <1>4
  <2>2. Nth(S, k) \in S /\ rank[Nth(S, k)] = k  BY <1>7
  <2> HIDE DEF rank
  <2> QED  BY <1>5, <2>1, <2>2
<1> QED  BY <1>1, <1>7, <1>8, <1>9

LEMMA RowsAscend ==
  ASSUME NEW S \in SUBSET (Nat \X Nat), IsFiniteSet(S)
  PROVE  /\ Cardinality(S) \in Nat
         /\ \A k \in 1..Cardinality(S) : NthRow(S, k) \in S
         /\ \A k, l \in 1..Cardinality(S) : k < l => Before(NthRow(S, k), NthRow(S, l))
         /\ \A p \in S : \E k \in 1..Cardinality(S) : p = NthRow(S, k)
<1> DEFINE c == Cardinality(S)
           upto(p) == {q \in S : q = p \/ Before(q, p)}
           rank == [p \in S |-> Cardinality(upto(p))]
<1>1. c \in Nat  BY FS_CardinalityType
<1>0. \A p \in S : p[1] \in Nat /\ p[2] \in Nat /\ p = <<p[1], p[2]>>  OBVIOUS
<1>2. ASSUME NEW p \in S
      PROVE  IsFiniteSet(upto(p)) /\ Cardinality(upto(p)) \in 1..c
  <2>1. upto(p) \in SUBSET S /\ p \in upto(p)  OBVIOUS
  <2>2. IsFiniteSet(upto(p)) /\ Cardinality(upto(p)) <= c  BY <1>1, <2>1, FS_Subset
  <2>3. Cardinality(upto(p)) \in Nat  BY <2>2, FS_CardinalityType
  <2>4. Cardinality(upto(p)) # 0  BY <2>1, <2>2, FS_EmptySet
  <2> QED  BY <1>1, <2>2, <2>3, <2>4
<1>3. ASSUME NEW p \in S, NEW q \in S, Before(p, q)
      PROVE  rank[p] < rank[q]
  <2>1. upto(p) \in SUBSET upto(q)
    <3>1. ASSUME NEW r \in S, r = p \/ Before(r, p) PROVE Before(r, q)
      BY <1>0, <1>3, <3>1 DEF Before
    <3> QED  BY <3>1
  <2>2. upto(p) # upto(q)
    <3>1. q \in upto(q)  OBVIOUS
    <3>2. q # p /\ ~ Before(q, p)  BY <1>0, <1>3 DEF Before
    <3> QED  BY <3>1, <3>2
  <2>3. IsFiniteSet(upto(p)) /\ IsFiniteSet(upto(q))  BY <1>2
  <2>4. Cardinality(upto(p)) <= Cardinality(upto(q)) /\ Cardinality(upto(p)) # Cardinality(upto(q))
    BY <2>1, <2>2, <2>3, FS_Subset
  <2>5. Cardinality(upto(p)) \in Nat /\ Cardinality(upto(q)) \in Nat  BY <1>2
  <2>6. rank[p] = Cardinality(upto(p)) /\ rank[q] = Cardinality(upto(q))  OBVIOUS
  <2> QED  BY <2>4, <2>5, <2>6
<1>4. rank \in [S -> 1..c] /\ \A p \in S : rank[p] \in Nat
  BY <1>1, <1>2
<1>5. \A p, q \in S : rank[p] = rank[q] => p = q
  <2> TAKE p, q \in S
  <2>1. Before(p, q) \/ Before(q, p) \/ p = q
    <3>1. p[1] \in Nat /\ p[2] \in Nat /\ p = <<p[1], p[2]>>  BY <1>0
    <3>2. q[1] \in Nat /\ q[2] \in Nat /\ q = <<q[1], q[2]>>  BY <1>0
    <3>3. (p[1] = q[1] /\ p[2] = q[2]) => p = q  BY <3>1, <3>2
    <3> QED  BY <3>1, <3>2, <3>3 DEF Before
  <2> HIDE DEF rank
  <2>2. rank[p] \in Nat /\ rank[q] \in Nat  BY <1>4
  <2> QED  BY <1>3, <2>1, <2>2
<1>6. \A k \in 1..c : \E p \in S : rank[p] = k
  <2>1. rank \in Injection(S, 1..c)  BY <1>4, <1>5 DEF Injection, IsInjective
  <2>2. IsFiniteSet(1..c) /\ Cardinality(1..c) = c
    <3>1. c \in Int /\ (1 > c => c = 0)  BY <1>1
    <3> QED  BY <3>1, FS_Interval
  <2>3. rank \in Surjection(S, 1..c)  BY <2>1, <2>2, FS_Injection
  <2> QED  BY <2>3 DEF Surjection
<1>7. ASSUME NEW k \in 1..c PROVE NthRow(S, k) \in S /\ rank[NthRow(S, k)] = k
  <2>1. \E p \in S : Cardinality({q \in S : q = p \/ Before(q, p)}) = k  BY <1>6
  <2>2. NthRow(S, k) \in S
        /\ Cardinality({q \in S : q = NthRow(S, k) \/ Before(q, NthRow(S, k))}) = k
    BY <2>1 DEF NthRow
  <2> QED  BY <2>2
<1>8. ASSUME NEW k \in 1..c, NEW l \in 1..c, k < l PROVE Before(NthRow(S, k), NthRow(S, l))
  <2>1. /\ NthRow(S, k) \in S /\ rank[NthRow(S, k)] = k
        /\ NthRow(S, l) \in S /\ rank[NthRow(S, l)] = l
    BY <1>7
  <2> HIDE DEF rank
  <2>2. PICK p \in S, q \in S : p = NthRow(S, k) /\ q = NthRow(S, l)  BY <2>1
  <2>3. ~ Before(q, p) /\ p # q  BY <1>3, <1>8, <2>1, <2>2
  <2>4. p[1] \in Nat /\ p[2] \in Nat /\ p = <<p[1], p[2]>>  BY <1>0
  <2>5. q[1] \in Nat /\ q[2] \in Nat /\ q = <<q[1], q[2]>>  BY <1>0
  <2>6. ~ (p[1] = q[1] /\ p[2] = q[2])  BY <2>3, <2>4, <2>5
  <2>7. Before(p, q)  BY <2>3, <2>4, <2>5, <2>6 DEF Before
  <2> QED  BY <2>2, <2>7
<1>9. ASSUME NEW p \in S PROVE \E k \in 1..c : p = NthRow(S, k)
  <2>1. PICK k \in 1..c : rank[p] = k  BY <1>4
  <2>2. NthRow(S, k) \in S /\ rank[NthRow(S, k)] = k  BY <1>7
  <2> HIDE DEF rank
  <2> QED  BY <1>5, <2>1, <2>2
<1> QED  BY <1>1, <1>7, <1>8, <1>9

(* A line with each key once adds one cell to each column.                 *)
Held(df, k) == IF k \in DOMAIN df THEN df[k] ELSE <<>>

Grown(old, names, hit, id) ==
  [k \in names |-> Held(old, k) \o <<IF k \in hit THEN id ELSE None>>]

HitKeys(keys, ks) == {ks[i] : i \in Hits(keys, ks)}

KeysOnce(ks) == /\ Len(ks) \in Nat /\ DOMAIN ks = 1..Len(ks)
                /\ \A i, j \in DOMAIN ks : ks[i] = ks[j] => i = j

LEMMA PushOne ==
  ASSUME NEW m, NEW keys, NEW ks, NEW id, IsFiniteSet(DOMAIN m.columns),
         KeysOnce(ks)
  PROVE  /\ IsFiniteSet(DOMAIN PushLine(m, keys, ks, id).columns)
         /\ PushLine(m, keys, ks, id).columns =
              Grown(m.columns, DOMAIN m.columns \cup HitKeys(keys, ks), HitKeys(keys, ks), id)
<1> DEFINE hits == Hits(keys, ks)
           img == HitKeys(keys, ks)
           names == DOMAIN m.columns \cup img
           taken_(k) == {i \in hits : ks[i] = k}
           ragged == Cardinality(hits) < Cardinality(names)
           cells(k) == IF taken_(k) # {} THEN [i \in 1..Cardinality(taken_(k)) |-> id]
                       ELSE IF ragged THEN <<None>> ELSE <<>>
<1> USE DEF KeysOnce
<1>1. IsFiniteSet(hits) /\ \A i, j \in hits : ks[i] = ks[j] => i = j
  <2>1. hits \in SUBSET (1..Len(ks))  BY DEF Hits
  <2>2. IsFiniteSet(1..Len(ks))  BY FS_Interval
  <2> QED  BY <2>1, <2>2, FS_Subset
<1>2. IsFiniteSet(img) /\ Cardinality(img) = Cardinality(hits)
  <2>1. [i \in hits |-> ks[i]] \in Surjection(hits, img)  BY DEF Surjection, HitKeys
  <2>2. [i \in hits |-> ks[i]] \in Injection(hits, img)
    BY <1>1, <2>1 DEF Injection, IsInjective, Surjection
  <2> QED  BY <1>1, <2>1, <2>2, FS_Surjection
<1>3. IsFiniteSet(names)  BY <1>2, FS_Union
<1>4. ASSUME NEW k \in names PROVE cells(k) = <<IF k \in img THEN id ELSE None>>
  <2>1. CASE k \in img
    <3>1. PICK i \in hits : ks[i] = k  BY <2>1 DEF HitKeys
    <3>2. taken_(k) = {i}  BY <1>1, <3>1
    <3>3. Cardinality(taken_(k)) = 1  BY <3>2, FS_Singleton
    <3>4. [j \in 1..1 |-> id] = <<id>>  OBVIOUS
    <3> QED  BY <2>1, <3>2, <3>3, <3>4
  <2>2. CASE k \notin img
    <3>1. taken_(k) = {}  BY <2>2 DEF HitKeys
    <3>2. ragged
      <4>1. IsFiniteSet(names \ {k}) /\ Cardinality(names \ {k}) = Cardinality(names) - 1
        BY <1>3, FS_RemoveElement
      <4>2. img \in SUBSET (names \ {k})  BY <2>2
      <4>3. Cardinality(img) <= Cardinality(names \ {k})  BY <4>1, <4>2, FS_Subset
      <4>4. Cardinality(names) \in Nat /\ Cardinality(img) \in Nat
        BY <1>2, <1>3, FS_CardinalityType
      <4> QED  BY <1>2, <4>1, <4>3, <4>4
    <3> QED  BY <2>2, <3>1, <3>2
  <2> QED  BY <2>1, <2>2
<1>5. PushLine(m, keys, ks, id).columns = [k \in names |-> Held(m.columns, k) \o cells(k)]
  BY DEF PushLine, Held, HitKeys
<1>6. PushLine(m, keys, ks, id).columns =
        [k \in names |-> Held(m.columns, k) \o <<IF k \in img THEN id ELSE None>>]
  <2> HIDE DEF cells, names, img
  <2> QED  BY <1>4, <1>5
<1>7. DOMAIN PushLine(m, keys, ks, id).columns = names
  <2> HIDE DEF names, img
  <2> QED  BY <1>6
<1>8. PushLine(m, keys, ks, id).columns = Grown(m.columns, names, img, id)
  <2> HIDE DEF names, img
  <2> QED  BY <1>6 DEF Grown
<1> QED  BY <1>3, <1>7, <1>8

(* The columns of a worker: counted from the end, the values of one row    *)
(* are of one line, and the lines of the rows ascend.                      *)
Trailing(df) ==
  \A j, k \in DOMAIN df : \A a \in 1..Len(df[j]), b \in 1..Len(df[k]) :
    df[j][a] # None /\ df[k][b] # None =>
      /\ Len(df[j]) - a = Len(df[k]) - b => df[j][a] = df[k][b]
      /\ Len(df[j]) - a > Len(df[k]) - b => Before(df[j][a], df[k][b])

LEMMA ColumnFacts ==
  ASSUME NEW df, Columns(df), NEW k \in DOMAIN df
  PROVE  /\ df[k] \in Seq(Cells) /\ Len(df[k]) \in Nat /\ DOMAIN df[k] = 1..Len(df[k])
         /\ \A a \in 1..Len(df[k]) : df[k][a] \in Cells
         /\ \A a \in 1..Len(df[k]) : df[k][a] # None => df[k][a] \in CellsOf(df)
<1>1. df[k] \in Seq(Cells)  BY DEF Columns
<1>2. /\ Len(df[k]) \in Nat /\ DOMAIN df[k] = 1..Len(df[k])
      /\ \A a \in 1..Len(df[k]) : df[k][a] \in Cells
  <2> HIDE DEF Cells
  <2> QED  BY <1>1
<1> QED  BY <1>1, <1>2 DEF CellsOf, Cells

LEMMA OneMore ==
  ASSUME NEW S, NEW h \in Seq(S), NEW c \in S
  PROVE  /\ Len(h) \in Nat /\ h \o <<c>> \in Seq(S) /\ Len(h \o <<c>>) = Len(h) + 1
         /\ (h \o <<c>>)[Len(h) + 1] = c
         /\ \A a \in 1..Len(h) : (h \o <<c>>)[a] = h[a]
  OBVIOUS

LEMMA TrailingOneMore ==
  ASSUME NEW old, Trailing(old), NEW id,
         \A p \in CellsOf(old) : Before(p, id),
         NEW new,
         \A k \in DOMAIN new : Len(new[k]) \in Nat,
         \A k \in DOMAIN new : \A a \in 1..Len(new[k]) : new[k][a] # None =>
           \/ a = Len(new[k]) /\ new[k][a] = id
           \/ /\ k \in DOMAIN old /\ a \in 1..Len(old[k]) /\ new[k][a] = old[k][a]
              /\ a < Len(new[k]) /\ Len(new[k]) = Len(old[k]) + 1 /\ Len(old[k]) \in Nat
              /\ old[k][a] \in CellsOf(old)
  PROVE  Trailing(new)
<1> SUFFICES ASSUME NEW j \in DOMAIN new, NEW k \in DOMAIN new, NEW a \in 1..Len(new[j]),
                    NEW b \in 1..Len(new[k]), new[j][a] # None, new[k][b] # None
             PROVE  /\ Len(new[j]) - a = Len(new[k]) - b => new[j][a] = new[k][b]
                    /\ Len(new[j]) - a > Len(new[k]) - b => Before(new[j][a], new[k][b])
  BY DEF Trailing
<1>1. Len(new[j]) \in Nat /\ Len(new[k]) \in Nat /\ a \in Nat /\ b \in Nat
      /\ a <= Len(new[j]) /\ b <= Len(new[k])
  OBVIOUS
<1>2. CASE a = Len(new[j]) /\ new[j][a] = id
  <2>1. CASE b = Len(new[k]) /\ new[k][b] = id  BY <1>1, <1>2, <2>1
  <2>2. CASE b < Len(new[k])  BY <1>1, <1>2, <2>2
  <2> QED  BY <2>1, <2>2
<1>3. CASE /\ j \in DOMAIN old /\ a \in 1..Len(old[j]) /\ new[j][a] = old[j][a]
           /\ a < Len(new[j]) /\ Len(new[j]) = Len(old[j]) + 1 /\ Len(old[j]) \in Nat
           /\ old[j][a] \in CellsOf(old)
  <2>1. CASE b = Len(new[k]) /\ new[k][b] = id  BY <1>1, <1>3, <2>1
  <2>2. CASE /\ k \in DOMAIN old /\ b \in 1..Len(old[k]) /\ new[k][b] = old[k][b]
             /\ b < Len(new[k]) /\ Len(new[k]) = Len(old[k]) + 1 /\ Len(old[k]) \in Nat
    <3>1. old[j][a] # None /\ old[k][b] # None  BY <1>3, <2>2
    <3>2. /\ Len(old[j]) - a = Len(old[k]) - b => old[j][a] = old[k][b]
          /\ Len(old[j]) - a > Len(old[k]) - b => Before(old[j][a], old[k][b])
      BY <1>3, <2>2, <3>1 DEF Trailing
    <3>3. PICK x \in Nat, y \in Nat : x = Len(old[j]) /\ y = Len(old[k])  BY <1>3, <2>2
    <3>4. Len(new[j]) = x + 1 /\ Len(new[k]) = y + 1  BY <1>3, <2>2, <3>3
    <3>5. /\ (x + 1) - a = (y + 1) - b => x - a = y - b
          /\ (x + 1) - a > (y + 1) - b => x - a > y - b
      BY <1>1
    <3>6. /\ x - a = y - b => old[j][a] = old[k][b]
          /\ x - a > y - b => Before(old[j][a], old[k][b])
      BY <3>2, <3>3
    <3>7. new[j][a] = old[j][a] /\ new[k][b] = old[k][b]  BY <1>3, <2>2
    <3> QED  BY <3>4, <3>5, <3>6, <3>7
  <2> QED  BY <2>1, <2>2
<1> QED  BY <1>2, <1>3

LEMMA PushTrailing ==
  ASSUME NEW old, Columns(old), Trailing(old), NEW id \in Nat \X Nat,
         \A p \in CellsOf(old) : Before(p, id),
         NEW names, NEW hit,
         NEW new, new = Grown(old, names, hit, id)
  PROVE  Columns(new) /\ Trailing(new) /\ CellsOf(new) \subseteq CellsOf(old) \cup {id}
<1> USE DEF Grown, Held
<1> DEFINE held(k) == IF k \in DOMAIN old THEN old[k] ELSE <<>>
           x(k) == IF k \in hit THEN id ELSE None
<1>1. DOMAIN new = names  OBVIOUS
<1>2. \A k : x(k) \in Cells /\ (x(k) # None => x(k) = id)  BY PairCells DEF Cells
<1>3. ASSUME NEW k \in names
      PROVE  /\ held(k) \in Seq(Cells) /\ Len(held(k)) \in Nat
             /\ new[k] \in Seq(Cells) /\ Len(new[k]) = Len(held(k)) + 1
             /\ new[k][Len(held(k)) + 1] = x(k)
             /\ \A a \in 1..Len(held(k)) : new[k][a] = held(k)[a] /\ k \in DOMAIN old
  <2>1. held(k) \in Seq(Cells)  BY ColumnFacts
  <2>2. x(k) \in Cells  BY <1>2
  <2>3. new[k] = held(k) \o <<x(k)>>  OBVIOUS
  <2>4. k \notin DOMAIN old => held(k) = <<>>  OBVIOUS
  <2> HIDE DEF held, x, Cells
  <2>5. PICK h, c : h = held(k) /\ c = x(k)  OBVIOUS
  <2>6. h \in Seq(Cells) /\ c \in Cells /\ new[k] = h \o <<c>>  BY <2>1, <2>2, <2>3, <2>5
  <2>8. /\ Len(h) \in Nat /\ new[k] \in Seq(Cells) /\ Len(new[k]) = Len(h) + 1
        /\ new[k][Len(h) + 1] = c /\ \A a \in 1..Len(h) : new[k][a] = h[a]
    BY ONLY <2>6, OneMore
  <2>9. \A a \in 1..Len(h) : k \in DOMAIN old  BY <2>4, <2>5
  <2> QED  BY <2>1, <2>5, <2>8, <2>9
<1>4. Columns(new)  BY <1>1, <1>3 DEF Columns
<1>5. ASSUME NEW k \in names, NEW a \in 1..Len(new[k]), new[k][a] # None
      PROVE  \/ a = Len(new[k]) /\ new[k][a] = id
             \/ /\ k \in DOMAIN old /\ a \in 1..Len(old[k]) /\ new[k][a] = old[k][a]
                /\ a < Len(new[k]) /\ Len(new[k]) = Len(old[k]) + 1 /\ Len(old[k]) \in Nat
                /\ old[k][a] \in CellsOf(old)
  <2>1. CASE a = Len(held(k)) + 1  BY <1>2, <1>3, <1>5, <2>1
  <2>2. CASE a # Len(held(k)) + 1
    <3>1. a \in 1..Len(held(k))  BY <1>3, <2>2
    <3>2. k \in DOMAIN old /\ new[k][a] = old[k][a] /\ held(k) = old[k]  BY <1>3, <3>1
    <3>3. old[k][a] \in CellsOf(old)  BY <1>5, <3>1, <3>2, ColumnFacts
    <3> QED  BY <1>3, <3>1, <3>2, <3>3
  <2> QED  BY <2>1, <2>2
<1>6. Trailing(new)
  <2> HIDE DEF held, x
  <2>1. \A k \in DOMAIN new : Len(new[k]) \in Nat
    <3>1. ASSUME NEW k \in DOMAIN new PROVE Len(new[k]) \in Nat
      <4>1. k \in names  BY <1>1
      <4> QED  BY <1>3, <4>1
    <3> QED  BY <3>1
  <2>2. \A k \in DOMAIN new : \A a \in 1..Len(new[k]) : new[k][a] # None =>
           \/ a = Len(new[k]) /\ new[k][a] = id
           \/ /\ k \in DOMAIN old /\ a \in 1..Len(old[k]) /\ new[k][a] = old[k][a]
              /\ a < Len(new[k]) /\ Len(new[k]) = Len(old[k]) + 1 /\ Len(old[k]) \in Nat
              /\ old[k][a] \in CellsOf(old)
    <3> TAKE k \in DOMAIN new
    <3> TAKE a \in 1..Len(new[k])
    <3>1. k \in names  BY <1>1
    <3> QED  BY <1>5, <3>1
  <2>3. Trailing(old) /\ \A p \in CellsOf(old) : Before(p, id)  OBVIOUS
  <2> QED  BY ONLY <2>1, <2>2, <2>3, TrailingOneMore
<1>7. CellsOf(new) \subseteq CellsOf(old) \cup {id}
  <2> HIDE DEF held, x
  <2> SUFFICES ASSUME NEW p \in CellsOf(new) PROVE p \in CellsOf(old) \cup {id}  OBVIOUS
  <2>1. PICK k \in names : \E a \in 1..Len(new[k]) : p = new[k][a]  BY <1>1 DEF CellsOf
  <2>2. PICK a \in 1..Len(new[k]) : p = new[k][a]  BY <2>1
  <2>3. p # None  BY PairCells DEF CellsOf
  <2> QED  BY <1>5, <2>2, <2>3
<1> QED  BY <1>4, <1>6, <1>7

(* Those of its columns that are emitted, if they are of one height.       *)
LEMMA TrailingOrdered ==
  ASSUME NEW m, Columns(m.columns), Trailing(m.columns), NEW keys,
         Rectangular(Emitted(m, keys))
  PROVE  /\ Ordered(Emitted(m, keys)) /\ CellsOf(Emitted(m, keys)) \subseteq CellsOf(m.columns)
         /\ DOMAIN Emitted(m, keys) = keys \cap DOMAIN m.columns
<1> DEFINE df == Emitted(m, keys)
<1>1. /\ DOMAIN df = keys \cap DOMAIN m.columns
      /\ \A k \in DOMAIN df : df[k] = m.columns[k] /\ k \in DOMAIN m.columns
  BY DEF Emitted
<1> HIDE DEF df
<1>2. Columns(df)  BY <1>1 DEF Columns
<1>3. CellsOf(df) \subseteq CellsOf(m.columns)  BY <1>1 DEF CellsOf
<1>4. Sorted(df)
  <2> SUFFICES ASSUME NEW j \in DOMAIN df, NEW k \in DOMAIN df, NEW a \in 1..Len(df[j]),
                      NEW b \in 1..Len(df[k]), df[j][a] # None, df[k][b] # None
               PROVE  (a = b => df[j][a] = df[k][b]) /\ (a < b => Before(df[j][a], df[k][b]))
    BY DEF Sorted
  <2>1. Len(df[j]) = Len(df[k]) /\ Len(df[j]) \in Nat  BY <1>2, ColumnFacts DEF Rectangular, df
  <2>2. /\ Len(df[j]) - a = Len(df[k]) - b => df[j][a] = df[k][b]
        /\ Len(df[j]) - a > Len(df[k]) - b => Before(df[j][a], df[k][b])
    <3>1. PICK cols : cols = m.columns  OBVIOUS
    <3>2. /\ j \in DOMAIN cols /\ k \in DOMAIN cols /\ df[j] = cols[j] /\ df[k] = cols[k]
          /\ Trailing(cols)
      BY <1>1, <3>1
    <3>3. a \in 1..Len(cols[j]) /\ b \in 1..Len(cols[k]) /\ cols[j][a] # None /\ cols[k][b] # None
      BY <3>2
    <3>4. /\ Len(cols[j]) - a = Len(cols[k]) - b => cols[j][a] = cols[k][b]
          /\ Len(cols[j]) - a > Len(cols[k]) - b => Before(cols[j][a], cols[k][b])
      BY <3>2, <3>3 DEF Trailing
    <3> QED  BY <3>2, <3>4
  <2> QED  BY <2>1, <2>2
<1> QED  BY <1>1, <1>2, <1>3, <1>4 DEF Ordered, df

(* Rows picked from a frame in ascending order are a frame in order, and   *)
(* so is what a predicate and a projection leave of one.                   *)
Picked(df, names, c, pick) == [k \in names |-> [n \in 1..c |-> df[k][pick[n]]]]

Ascending(c, pick) == \A n, l \in 1..c : n < l => pick[n] < pick[l]

LEMMA PickedOrdered ==
  ASSUME NEW df, Ordered(df), NEW names, names \subseteq DOMAIN df,
         NEW c \in Nat, NEW pick \in [1..c -> 1..Height(df)],
         Ascending(c, pick), NEW new, new = Picked(df, names, c, pick)
  PROVE  Ordered(new) /\ CellsOf(new) \subseteq CellsOf(df)
<1> USE DEF Picked, Ascending
<1>1. /\ Height(df) \in Nat
      /\ \A k \in DOMAIN df : Len(df[k]) = Height(df) /\ DOMAIN df[k] = 1..Height(df)
  BY HeightIs DEF Ordered
<1>2. \A k \in names : \A n \in 1..c :
        /\ k \in DOMAIN df /\ pick[n] \in 1..Len(df[k]) /\ df[k][pick[n]] \in Cells
        /\ new[k][n] = df[k][pick[n]]
  <2> TAKE k \in names
  <2> TAKE n \in 1..c
  <2>1. k \in DOMAIN df /\ pick[n] \in 1..Len(df[k])  BY <1>1
  <2>2. df[k][pick[n]] \in Cells  BY <2>1, ColumnFacts DEF Ordered
  <2> QED  BY <2>1, <2>2
<1>3. \A k \in names : new[k] \in Seq(Cells) /\ Len(new[k]) = c
  <2> TAKE k \in names
  <2>1. new[k] = [n \in 1..c |-> df[k][pick[n]]]  OBVIOUS
  <2>2. \A n \in 1..c : df[k][pick[n]] \in Cells  BY <1>2
  <2> HIDE DEF Cells
  <2> QED  BY <2>1, <2>2
<1>4. DOMAIN new = names  OBVIOUS
<1>5. Columns(new) /\ Rectangular(new)  BY <1>3, <1>4 DEF Columns, Rectangular
<1>6. Sorted(new)
  <2>1. ASSUME NEW j \in names, NEW k \in names, NEW a \in 1..c, NEW b \in 1..c,
               new[j][a] # None, new[k][b] # None
        PROVE  /\ a = b => new[j][a] = new[k][b]
               /\ a < b => Before(new[j][a], new[k][b])
    <3>1. PICK x \in 1..Len(df[j]), y \in 1..Len(df[k]) : x = pick[a] /\ y = pick[b]
      BY <1>2
    <3>2. j \in DOMAIN df /\ k \in DOMAIN df /\ new[j][a] = df[j][x] /\ new[k][b] = df[k][y]
      BY <1>2, <3>1
    <3>3. /\ x = y => df[j][x] = df[k][y]
          /\ x < y => Before(df[j][x], df[k][y])
      BY <2>1, <3>2 DEF Ordered, Sorted
    <3>4. (a = b => x = y) /\ (a < b => x < y)  BY <3>1
    <3> QED  BY <3>2, <3>3, <3>4
  <2>2. ASSUME NEW j \in DOMAIN new, NEW k \in DOMAIN new, NEW a \in 1..Len(new[j]),
               NEW b \in 1..Len(new[k]), new[j][a] # None, new[k][b] # None
        PROVE  /\ a = b => new[j][a] = new[k][b]
               /\ a < b => Before(new[j][a], new[k][b])
    <3>1. j \in names /\ k \in names  BY <1>4
    <3>2. a \in 1..c /\ b \in 1..c  BY <1>3, <3>1
    <3> QED  BY <2>1, <2>2, <3>1, <3>2
  <2> QED  BY <2>2 DEF Sorted
<1>7. CellsOf(new) \subseteq CellsOf(df)
  <2> SUFFICES ASSUME NEW p \in CellsOf(new) PROVE p \in CellsOf(df)  OBVIOUS
  <2>1. PICK k \in names : \E a \in 1..Len(new[k]) : p = new[k][a]  BY <1>4 DEF CellsOf
  <2>2. PICK a \in 1..c : p = new[k][a]  BY <1>3, <2>1
  <2> QED  BY <1>2, <2>2 DEF CellsOf
<1> QED  BY <1>3, <1>5, <1>6, <1>7 DEF Ordered

LEMMA PushdownOrdered ==
  ASSUME NEW df, Ordered(df), NEW pred, NEW cols, NEW passing, ~ PushdownFails(df, pred, cols),
         NEW new, new = ApplyPushdown(df, pred, cols, passing)
  PROVE  /\ Ordered(new) /\ CellsOf(new) \subseteq CellsOf(df)
         /\ DOMAIN new = IF cols = {} THEN DOMAIN df ELSE cols
         /\ DOMAIN new \subseteq DOMAIN df
         /\ Cardinality(Keep(df, pred, passing)) \in Nat
         /\ \A k \in DOMAIN new : Len(new[k]) = Cardinality(Keep(df, pred, passing))
         /\ \A k \in DOMAIN new : \A n \in 1..Len(new[k]) :
              /\ Nth(Keep(df, pred, passing), n) \in Keep(df, pred, passing)
              /\ new[k][n] = df[k][Nth(Keep(df, pred, passing), n)]
         /\ \A i \in Keep(df, pred, passing) :
              \E n \in 1..Cardinality(Keep(df, pred, passing)) : i = Nth(Keep(df, pred, passing), n)
<1> DEFINE kept == Keep(df, pred, passing)
           c == Cardinality(kept)
           names == IF cols = {} THEN DOMAIN df ELSE cols
           pick == [n \in 1..c |-> Nth(kept, n)]
<1>1. Height(df) \in Nat /\ kept \in SUBSET (1..Height(df))
  BY HeightIs DEF Ordered, Keep
<1>2. /\ c \in Nat
      /\ \A k \in 1..c : Nth(kept, k) \in kept
      /\ \A k, l \in 1..c : k < l => Nth(kept, k) < Nth(kept, l)
      /\ \A i \in kept : \E k \in 1..c : i = Nth(kept, k)
  <2> HIDE DEF kept
  <2> QED  BY <1>1, NthAscends
<1>3. names \subseteq DOMAIN df  BY DEF PushdownFails
<1>4. pick \in [1..c -> 1..Height(df)] /\ \A n, l \in 1..c : n < l => pick[n] < pick[l]
  <2> HIDE DEF kept, c
  <2> QED  BY <1>1, <1>2
<1>5. new = Picked(df, names, c, pick)
  BY DEF ApplyPushdown, Picked
<1>6. /\ Ordered(new) /\ CellsOf(new) \subseteq CellsOf(df)
      /\ \A k \in names : Len(new[k]) = c
  <2> HIDE DEF kept, c, pick, names
  <2>0. PICK d \in Nat : d = c  BY <1>2
  <2>1. PICK g, ns : g = pick /\ ns = names  OBVIOUS
  <2>2. /\ Ordered(df) /\ ns \subseteq DOMAIN df /\ d \in Nat /\ g \in [1..d -> 1..Height(df)]
        /\ Ascending(d, g) /\ new = Picked(df, ns, d, g)
    BY <1>2, <1>3, <1>4, <1>5, <2>0, <2>1 DEF Ascending
  <2>3. Ordered(new) /\ CellsOf(new) \subseteq CellsOf(df)  BY <2>2, PickedOrdered
  <2>4. \A k \in ns : new[k] = [n \in 1..d |-> df[k][g[n]]]  BY <2>2 DEF Picked
  <2>5. ASSUME NEW k \in ns PROVE Len(new[k]) = d
    <3>1. k \in DOMAIN new  BY <2>2 DEF Picked
    <3>2. Len(new[k]) \in Nat /\ DOMAIN new[k] = 1..Len(new[k])
      BY <2>3, <3>1, ColumnFacts DEF Ordered
    <3>3. DOMAIN new[k] = 1..d  BY <2>4
    <3> QED  BY <3>2, <3>3
  <2> QED  BY <2>0, <2>1, <2>3, <2>5
<1>7. DOMAIN new = names  BY <1>5 DEF Picked
<1>8. \A k \in names : \A n \in 1..c : new[k][n] = df[k][Nth(kept, n)]
  <2> HIDE DEF kept, c, names
  <2> QED  BY <1>5 DEF Picked
<1>9. \A k \in DOMAIN new : \A n \in 1..Len(new[k]) :
         Nth(kept, n) \in kept /\ new[k][n] = df[k][Nth(kept, n)]
  <2> HIDE DEF kept, c, names
  <2> QED  BY <1>2, <1>6, <1>7, <1>8
<1> HIDE DEF pick, c
<1> QED  BY <1>2, <1>3, <1>6, <1>7, <1>9 DEF c

(* The chunks of the workers ascend with them.                             *)
LEMMA ChunksAscend ==
  ASSUME NEW n \in Nat, NEW v \in Active(n), NEW w \in Active(n), v < w,
         NEW f \in Chunk(n, v), NEW g \in Chunk(n, w)
  PROVE  f < g
<1>1. Workers(n) > 0 /\ v \in Nat /\ w \in Nat  BY ActiveWorkers
<1>2. ChunkSize(n) \in Nat \ {0}  BY <1>1, DealSize
<1>3. v * ChunkSize(n) + ChunkSize(n) <= w * ChunkSize(n)  BY <1>1, <1>2, MulStep
<1>4. v * ChunkSize(n) \in Nat /\ w * ChunkSize(n) \in Nat  BY <1>1, <1>2
<1>5. f \in Int /\ f <= v * ChunkSize(n) + ChunkSize(n)
  BY <1>2, <1>4 DEF Chunk, FirstFrame, LastFrame, LeastOf
<1>6. g \in Int /\ w * ChunkSize(n) + 1 <= g
  BY <1>2, <1>4 DEF Chunk, FirstFrame, LastFrame, LeastOf
<1> QED  BY <1>2, <1>3, <1>4, <1>5, <1>6

(* The frames `o' of the workers P joined: the rows are numbered in their  *)
(* order, and the frame that comes of it is in order if the frames are.    *)
RowsOf(P, o) == UNION {{w} \X (1..Height(o[w])) : w \in P}

Joined(P, o) ==
  [k \in UNION {DOMAIN o[w] : w \in P} |-> [n \in 1..Cardinality(RowsOf(P, o)) |->
     o[NthRow(RowsOf(P, o), n)[1]][k][NthRow(RowsOf(P, o), n)[2]]]]

LEMMA AccumulatedIs == Accumulated = Joined(Parts, out)
  BY DEF Accumulated, Joined, RowsOf

LEMMA RowsFacts ==
  ASSUME NEW n \in Nat, NEW P \in SUBSET Active(n), NEW o, \A w \in P : Ordered(o[w])
  PROVE  /\ RowsOf(P, o) \in SUBSET (Nat \X Nat) /\ IsFiniteSet(RowsOf(P, o))
         /\ \A r \in RowsOf(P, o) : /\ r[1] \in P /\ r[1] \in Nat
                                    /\ r[2] \in 1..Height(o[r[1]]) /\ r[2] \in Nat
         /\ \A w \in P : \A i \in 1..Height(o[w]) : <<w, i>> \in RowsOf(P, o)
<1>1. \A w \in P : w \in Nat /\ Height(o[w]) \in Nat  BY ActiveWorkers, HeightIs DEF Ordered
<1>2. \A r \in RowsOf(P, o) : /\ r[1] \in P /\ r[1] \in Nat /\ r \in Nat \X Nat
                              /\ r[2] \in 1..Height(o[r[1]]) /\ r[2] \in Nat
  <2> SUFFICES ASSUME NEW r \in RowsOf(P, o)
               PROVE  /\ r[1] \in P /\ r[1] \in Nat /\ r \in Nat \X Nat
                      /\ r[2] \in 1..Height(o[r[1]]) /\ r[2] \in Nat
    OBVIOUS
  <2>1. PICK w \in P : r \in {w} \X (1..Height(o[w]))  BY DEF RowsOf
  <2>2. PICK i \in 1..Height(o[w]) : r = <<w, i>>  BY <2>1
  <2>3. i \in Nat  OBVIOUS
  <2> QED  BY <1>1, <2>2, <2>3
<1>3. \A w \in P : \A i \in 1..Height(o[w]) : <<w, i>> \in RowsOf(P, o)
  BY DEF RowsOf
<1>4. IsFiniteSet(P)
  <2>1. Workers(n) \in Int  BY DealAssumption DEF Workers, LeastOf
  <2>2. IsFiniteSet(0..(Workers(n) - 1))  BY <2>1, FS_Interval
  <2>3. P \in SUBSET (0..(Workers(n) - 1))  BY DEF Active
  <2> QED  BY <2>2, <2>3, FS_Subset
<1>5. IsFiniteSet(RowsOf(P, o))
  <2> DEFINE spans == {1..Height(o[w]) : w \in P}
  <2>1. [w \in P |-> 1..Height(o[w])] \in Surjection(P, spans)  BY DEF Surjection
  <2>2. IsFiniteSet(spans)  BY <1>4, <2>1, FS_Surjection
  <2>3. \A T \in spans : IsFiniteSet(T)
    <3>1. \A w \in P : IsFiniteSet(1..Height(o[w]))
      <4> TAKE w \in P
      <4>1. PICK h \in Nat : h = Height(o[w])  BY <1>1
      <4>2. IsFiniteSet(1..h)  BY FS_Interval
      <4> QED  BY <4>1, <4>2
    <3> QED  BY <3>1
  <2>4. IsFiniteSet(UNION spans)  BY <2>2, <2>3, FS_UNION
  <2>5. IsFiniteSet(P \X UNION spans)  BY <1>4, <2>4, FS_Product
  <2>6. RowsOf(P, o) \in SUBSET (P \X UNION spans)
    <3>1. ASSUME NEW r \in RowsOf(P, o) PROVE r \in P \X UNION spans
      <4>1. r[1] \in P /\ r = <<r[1], r[2]>> /\ r[2] \in 1..Height(o[r[1]])  BY <1>2
      <4> QED  BY <4>1
    <3> QED  BY <3>1
  <2> QED  BY <2>5, <2>6, FS_Subset
<1> QED  BY <1>2, <1>3, <1>5

LEMMA JoinedOrdered ==
  ASSUME NEW n \in Nat, NEW P \in SUBSET Active(n), NEW o,
         \A w \in P : Ordered(o[w]) /\ \A p \in CellsOf(o[w]) : p[1] \in Chunk(n, w),
         \A v, w \in P : DOMAIN o[v] = DOMAIN o[w]
  PROVE  /\ Ordered(Joined(P, o))
         /\ CellsOf(Joined(P, o)) \subseteq UNION {CellsOf(o[w]) : w \in P}
         /\ \A k \in DOMAIN Joined(P, o) : Len(Joined(P, o)[k]) = Cardinality(RowsOf(P, o))
<1> DEFINE rows == RowsOf(P, o)
           c == Cardinality(rows)
           at(i) == NthRow(rows, i)
           new == Joined(P, o)
           names == UNION {DOMAIN o[w] : w \in P}
<1>1. \A w \in P : Ordered(o[w])  OBVIOUS
<1>2. /\ rows \in SUBSET (Nat \X Nat) /\ IsFiniteSet(rows)
      /\ \A r \in rows : /\ r[1] \in P /\ r[1] \in Nat
                         /\ r[2] \in 1..Height(o[r[1]]) /\ r[2] \in Nat
  BY <1>1, RowsFacts
<1>3. /\ c \in Nat
      /\ \A k \in 1..c : at(k) \in rows
      /\ \A k, l \in 1..c : k < l => Before(at(k), at(l))
  <2> HIDE DEF rows
  <2> QED  BY <1>2, RowsAscend
<1>4. \A w \in P : \A k \in names :
        /\ k \in DOMAIN o[w] /\ Height(o[w]) \in Nat /\ DOMAIN o[w][k] = 1..Height(o[w])
        /\ Len(o[w][k]) = Height(o[w])
        /\ \A a \in 1..Height(o[w]) : o[w][k][a] \in Cells
        /\ \A a \in 1..Height(o[w]) : o[w][k][a] # None => o[w][k][a] \in CellsOf(o[w])
  <2> TAKE w \in P
  <2> TAKE k \in names
  <2>1. k \in DOMAIN o[w]  OBVIOUS
  <2>2. PICK df : df = o[w]  OBVIOUS
  <2>3. Ordered(df) /\ k \in DOMAIN df  BY <2>1, <2>2
  <2>4. Height(df) \in Nat /\ Len(df[k]) = Height(df) /\ DOMAIN df[k] = 1..Height(df)
    BY <2>3, HeightIs DEF Ordered
  <2>5. /\ \A a \in 1..Len(df[k]) : df[k][a] \in Cells
        /\ \A a \in 1..Len(df[k]) : df[k][a] # None => df[k][a] \in CellsOf(df)
    BY <2>3, ColumnFacts DEF Ordered
  <2> QED  BY <2>2, <2>3, <2>4, <2>5
<1>5. DOMAIN new = names /\ \A w \in P : names = DOMAIN o[w]
  BY DEF Joined
<1>6. \A k \in names : new[k] = [i \in 1..c |-> o[at(i)[1]][k][at(i)[2]]]
  BY DEF Joined
<1> HIDE DEF rows, new, names
<1>7. \A k \in names : \A i \in 1..c :
        /\ new[k][i] = o[at(i)[1]][k][at(i)[2]] /\ new[k][i] \in Cells
        /\ new[k][i] # None => new[k][i] \in CellsOf(o[at(i)[1]])
  <2> TAKE k \in names
  <2> TAKE i \in 1..c
  <2>1. at(i) \in rows  BY <1>3
  <2>2. PICK w \in P, a \in Nat : w = at(i)[1] /\ a = at(i)[2] /\ a \in 1..Height(o[w])
    BY <1>2, <2>1
  <2>3. new[k][i] = o[w][k][a]
    <3>1. new[k] = [l \in 1..c |-> o[at(l)[1]][k][at(l)[2]]]  BY <1>6
    <3>2. new[k][i] = o[at(i)[1]][k][at(i)[2]]
      <4> HIDE DEF c, at
      <4> QED  BY <3>1
    <3> QED  BY <2>2, <3>2
  <2> QED  BY <1>4, <2>2, <2>3
<1>8. \A k \in names : new[k] \in Seq(Cells) /\ Len(new[k]) = c
  <2> TAKE k \in names
  <2>1. DOMAIN new[k] = 1..c  BY <1>6
  <2>2. new[k] = [i \in 1..c |-> new[k][i]]  BY <1>6, <2>1
  <2>3. \A i \in 1..c : new[k][i] \in Cells  BY <1>7
  <2> HIDE DEF Cells
  <2>0. PICK d \in Nat : d = c  BY <1>3
  <2>4. PICK s : d = c /\ s = new[k]  BY <2>0
  <2>5. s = [i \in 1..d |-> s[i]] /\ \A i \in 1..d : s[i] \in Cells  BY <2>2, <2>3, <2>4
  <2>6. s \in Seq(Cells) /\ Len(s) = d  BY <2>5
  <2> QED  BY <2>4, <2>6
<1>9. Columns(new) /\ Rectangular(new)
  <2> HIDE DEF c
  <2> QED  BY <1>5, <1>8 DEF Columns, Rectangular
<1>10. ASSUME NEW j \in names, NEW k \in names, NEW a \in 1..c, NEW b \in 1..c,
              new[j][a] # None, new[k][b] # None
       PROVE  /\ a = b => new[j][a] = new[k][b]
              /\ a < b => Before(new[j][a], new[k][b])
  <2>1. at(a) \in rows /\ at(b) \in rows  BY <1>3
  <2>2. PICK v \in P, x \in Nat : v = at(a)[1] /\ x = at(a)[2] /\ x \in 1..Height(o[v])
    BY <1>2, <2>1
  <2>3. PICK w \in P, y \in Nat : w = at(b)[1] /\ y = at(b)[2] /\ y \in 1..Height(o[w])
    BY <1>2, <2>1
  <2>4. PICK p, q : p = new[j][a] /\ q = new[k][b]  OBVIOUS
  <2>5. p = o[v][j][x] /\ q = o[w][k][y] /\ p # None /\ q # None
    BY <1>7, <1>10, <2>2, <2>3, <2>4
  <2>6. p \in CellsOf(o[v]) /\ q \in CellsOf(o[w])
    <3>1. p \in CellsOf(o[v])  BY <1>4, <2>2, <2>5
    <3>2. q \in CellsOf(o[w])  BY <1>4, <2>3, <2>5
    <3> QED  BY <3>1, <3>2
  <2>7. p[1] \in Chunk(n, v) /\ q[1] \in Chunk(n, w) /\ v \in Active(n) /\ w \in Active(n)
    BY <2>6
  <2>8. v \in Nat /\ w \in Nat /\ x \in Nat /\ y \in Nat  BY <2>7, ActiveWorkers
  <2>9. CASE v = w
    <3>1. PICK df : df = o[v]  OBVIOUS
    <3>2. Sorted(df) /\ j \in DOMAIN df /\ k \in DOMAIN df /\ x \in 1..Len(df[j]) /\ y \in 1..Len(df[k])
      <4>1. Sorted(df)  BY <3>1 DEF Ordered
      <4>2. j \in DOMAIN df /\ x \in 1..Len(df[j])  BY <1>4, <2>2, <3>1
      <4>3. k \in DOMAIN df /\ y \in 1..Len(df[k])  BY <1>4, <2>3, <2>9, <3>1
      <4> QED  BY <4>1, <4>2, <4>3
    <3>3. df[j][x] = p /\ df[k][y] = q  BY <2>5, <2>9, <3>1
    <3>4. /\ x = y => p = q
          /\ x < y => Before(p, q)
      BY <2>5, <3>2, <3>3 DEF Sorted
    <3>5. a < b => x < y
      <4>1. a < b => Before(at(a), at(b))  BY <1>3
      <4> QED  BY <2>2, <2>3, <2>8, <2>9, <4>1 DEF Before
    <3>6. a = b => x = y  BY <2>2, <2>3
    <3> QED  BY <2>4, <3>4, <3>5, <3>6
  <2>10. CASE v # w
    <3>1. a # b  BY <2>2, <2>3, <2>10
    <3>2. a < b => v < w
      <4>1. a < b => Before(at(a), at(b))  BY <1>3
      <4> QED  BY <2>2, <2>3, <2>8, <2>10, <4>1 DEF Before
    <3>3. a < b => p[1] < q[1]  BY <2>7, <3>2, ChunksAscend
    <3> QED  BY <2>4, <3>1, <3>3 DEF Before
  <2> QED  BY <2>9, <2>10
<1>11. Sorted(new)
  <2>1. ASSUME NEW j \in DOMAIN new, NEW k \in DOMAIN new, NEW a \in 1..Len(new[j]),
               NEW b \in 1..Len(new[k]), new[j][a] # None, new[k][b] # None
        PROVE  /\ a = b => new[j][a] = new[k][b]
               /\ a < b => Before(new[j][a], new[k][b])
    <3>1. j \in names /\ k \in names  BY <1>5
    <3>2. a \in 1..c /\ b \in 1..c  BY <1>8, <3>1
    <3> QED  BY <1>10, <2>1, <3>1, <3>2
  <2> QED  BY <2>1 DEF Sorted
<1>12. CellsOf(new) \subseteq UNION {CellsOf(o[w]) : w \in P}
  <2> SUFFICES ASSUME NEW p \in CellsOf(new) PROVE p \in UNION {CellsOf(o[w]) : w \in P}
    OBVIOUS
  <2>1. PICK k \in names : \E a \in 1..Len(new[k]) : p = new[k][a]  BY <1>5 DEF CellsOf
  <2>2. PICK a \in 1..c : p = new[k][a]  BY <1>8, <2>1
  <2>3. p # None  BY PairCells DEF CellsOf
  <2>4. p \in CellsOf(o[at(a)[1]])  BY <1>7, <2>2, <2>3
  <2>5. at(a)[1] \in P  BY <1>2, <1>3
  <2> QED  BY <2>4, <2>5
<1>13. \A k \in DOMAIN new : Len(new[k]) = c  BY <1>5, <1>8
<1> HIDE DEF c
<1> QED  BY <1>5, <1>9, <1>11, <1>12, <1>13 DEF Ordered, new, c, rows

-----------------------------------------------------------------------------
(* Rows in the order of the file.  While no line names a key twice, the    *)
(* columns of a worker hold rows of its own chunk in the order it read     *)
(* them, and the frames that come of them are in order, up to the answer.  *)
Own(w) == {p \in taken : p[1] \in Chunk(N, w)}

MakerInOrder(w) ==
  /\ IsFiniteSet(DOMAIN maker[w].columns)
  /\ Columns(maker[w].columns) /\ Trailing(maker[w].columns)
  /\ CellsOf(maker[w].columns) \subseteq Own(w)

OutInOrder(w) == Ordered(out[w]) /\ CellsOf(out[w]) \subseteq Own(w)

PerWorker == DOMAIN maker = Worker /\ DOMAIN out = Worker

FramesInOrder ==
  /\ PerWorker
  /\ DistinctKeys => /\ \A w \in Active(N) : MakerInOrder(w) /\ OutInOrder(w)
                     /\ call = "frame" => Ordered(batch)

LEMMA EmptyOrdered ==
  /\ IsFiniteSet(DOMAIN EmptyFrame) /\ Ordered(EmptyFrame) /\ Trailing(EmptyFrame)
  /\ CellsOf(EmptyFrame) = {} /\ Columns(EmptyFrame)
<1>1. DOMAIN EmptyFrame = {}  BY DEF EmptyFrame
<1>2. IsFiniteSet(DOMAIN EmptyFrame)  BY <1>1, FS_EmptySet
<1>3. Columns(EmptyFrame) /\ Rectangular(EmptyFrame) /\ Sorted(EmptyFrame) /\ Trailing(EmptyFrame)
  BY <1>1 DEF Columns, Rectangular, Sorted, Trailing
<1>4. CellsOf(EmptyFrame) = {}  BY <1>1 DEF CellsOf
<1> QED  BY <1>2, <1>3, <1>4 DEF Ordered

LEMMA DistinctLine ==
  ASSUME TypeOK, DistinctKeys, NEW p \in Accepted, NEW ks, ks = LineAt(p).keys
  PROVE  /\ KeysOnce(ks)
         /\ KeysOf(p) = {ks[i] : i \in DOMAIN ks} /\ IsFiniteSet(KeysOf(p))
<1>1. p[1] \in 1..N /\ p[2] \in 1..Len(text[p[1]])  BY AcceptedPairs
<1>2. LineAt(p) \in Lines
  <2>1. text \in Seq(Seq(Lines))  BY DEF TypeOK
  <2>2. text[p[1]] \in Seq(Lines)  BY <1>1, <2>1 DEF N
  <2> QED  BY <1>1, <2>2 DEF LineAt
<1>3. KeysOf(p) = {ks[i] : i \in DOMAIN ks}  BY DEF KeysOf
<1>4. ks \in Seq(KeysOf(p))  BY <1>2, <1>3, ScanAssumption
<1>5. Len(ks) \in Nat /\ DOMAIN ks = 1..Len(ks)  BY <1>4
<1>6. Cardinality(KeysOf(p)) = Len(ks)  BY DEF DistinctKeys
<1>7. IsFiniteSet(1..Len(ks)) /\ Cardinality(1..Len(ks)) = Len(ks)
  <2>1. PICK n \in Nat : n = Len(ks)  BY <1>5
  <2>2. n \in Int /\ (1 > n => n = 0) /\ n - 1 + 1 = n  OBVIOUS
  <2>3. IsFiniteSet(1..n) /\ Cardinality(1..n) = n  BY <2>2, FS_Interval
  <2> QED  BY <2>1, <2>3
<1>8. [i \in 1..Len(ks) |-> ks[i]] \in Surjection(1..Len(ks), KeysOf(p))
  BY <1>3, <1>5 DEF Surjection
<1>9. IsFiniteSet(KeysOf(p))  BY <1>7, <1>8, FS_Surjection
<1>10. [i \in 1..Len(ks) |-> ks[i]] \in Injection(1..Len(ks), KeysOf(p))
  BY <1>6, <1>7, <1>8, FS_Surjection
<1>11. \A i, j \in DOMAIN ks : ks[i] = ks[j] => i = j
  BY <1>5, <1>10 DEF Injection, IsInjective
<1> QED  BY <1>3, <1>5, <1>9, <1>11 DEF KeysOnce

LEMMA OrderInit == Init => FramesInOrder
<1> SUFFICES ASSUME Init PROVE FramesInOrder  OBVIOUS
<1>1. TypeOK /\ Active(N) \subseteq Worker  BY InitInv, Sizes DEF IInv
<1>2. PerWorker  BY DEF PerWorker, Init
<1>3. ASSUME NEW w \in Active(N) PROVE MakerInOrder(w) /\ OutInOrder(w)
  <2>1. maker[w].columns = EmptyFrame /\ out[w] = EmptyFrame  BY <1>1 DEF Init, NewMaker
  <2> QED  BY <2>1, EmptyOrdered DEF MakerInOrder, OutInOrder
<1>4. call # "frame"  BY DEF Init
<1> QED  BY <1>2, <1>3, <1>4 DEF FramesInOrder

(* What a step of a worker leaves of another's, and of its own.            *)
LEMMA OrderKept ==
  ASSUME IInv, FramesInOrder, DistinctKeys, NEW w \in Active(N), Step(w), NEW v \in Active(N)
  PROVE  /\ (v # w \/ ~ TakeRow(w)) => MakerInOrder(v)'
         /\ (v # w \/ ~ ToDf(w)) => OutInOrder(v)'
<1>1. taken \subseteq taken'
  BY DEF Step, CloneHandle, SkipTask, LeaveFrame, ReadFrame, SkipLine, BadLine,
         TakeRow, RefuseRow, EndFrame, ToDf, SaveError
<1>2. text' = text /\ N' = N  BY StepKeeps DEF callVars, scanned
<1>3. v \in Worker /\ w \in Worker  BY Sizes DEF IInv
<1>4. (v # w \/ ~ TakeRow(w)) => maker'[v] = maker[v]
  <2>1. CASE TakeRow(w)  BY <1>3, <2>1 DEF TakeRow, FramesInOrder, PerWorker
  <2>2. CASE ~ TakeRow(w)
    BY <2>2 DEF Step, CloneHandle, SkipTask, LeaveFrame, ReadFrame, SkipLine, BadLine,
         RefuseRow, EndFrame, ToDf, SaveError
  <2> QED  BY <2>1, <2>2
<1>5. (v # w \/ ~ ToDf(w)) => out'[v] = out[v]
  <2>1. CASE ToDf(w)  BY <1>3, <2>1 DEF ToDf, FramesInOrder, PerWorker, Fail
  <2>2. CASE ~ ToDf(w)
    BY <2>2 DEF Step, CloneHandle, SkipTask, LeaveFrame, ReadFrame, SkipLine, BadLine,
         RefuseRow, EndFrame, TakeRow, SaveError
  <2> QED  BY <2>1, <2>2
<1>6. PICK u : u = v  OBVIOUS
<1>7. MakerInOrder(u) /\ OutInOrder(u)  BY <1>6 DEF FramesInOrder
<1>8. maker'[u] = maker[u] => MakerInOrder(u)'
  BY <1>1, <1>2, <1>7 DEF MakerInOrder, Own, N
<1>9. out'[u] = out[u] => OutInOrder(u)'
  BY <1>1, <1>2, <1>7 DEF OutInOrder, Own, N
<1> QED  BY <1>4, <1>5, <1>6, <1>8, <1>9

LEMMA OrderTakeRow ==
  ASSUME IInv, FramesInOrder, DistinctKeys, NEW w \in Active(N), TakeRow(w)
  PROVE  MakerInOrder(w)'
<1>1. /\ Here(w) \in Accepted /\ frame[w] \in Chunk(N, w) /\ Here(w) \in Nat \X Nat
  <2>1. w \in Worker  BY Sizes DEF IInv
  <2>2. frame[w] \in Nat /\ line[w] \in Nat  BY <2>1 DEF IInv, TypeOK
  <2> QED  BY <2>2, FreshRow DEF Here
<1>2. PICK old, ks, id, keys : /\ old = maker[w] /\ ks = LineAt(Here(w)).keys /\ id = Here(w)
                               /\ keys = ColumnKeys(w)
  OBVIOUS
<1>3. w \in Worker  BY Sizes DEF IInv
<1>4. maker'[w] = PushLine(old, keys, ks, id)
  BY <1>2, <1>3 DEF TakeRow, FramesInOrder, PerWorker
<1>5. /\ IsFiniteSet(DOMAIN old.columns) /\ Columns(old.columns) /\ Trailing(old.columns)
      /\ CellsOf(old.columns) \subseteq Own(w)
  BY <1>2 DEF FramesInOrder, MakerInOrder
<1>6. KeysOnce(ks)  BY <1>1, <1>2, DistinctLine DEF IInv
<1>7. PICK cols, new : cols = old.columns /\ new = PushLine(old, keys, ks, id).columns  OBVIOUS
<1>8. /\ IsFiniteSet(DOMAIN new)
      /\ new = Grown(cols, DOMAIN cols \cup HitKeys(keys, ks), HitKeys(keys, ks), id)
  <2>1. IsFiniteSet(DOMAIN old.columns)  BY <1>5
  <2>2. /\ IsFiniteSet(DOMAIN PushLine(old, keys, ks, id).columns)
        /\ PushLine(old, keys, ks, id).columns =
              Grown(old.columns, DOMAIN old.columns \cup HitKeys(keys, ks), HitKeys(keys, ks), id)
    BY <1>6, <2>1, PushOne
  <2> QED  BY <1>7, <2>2
<1>9. \A p \in CellsOf(cols) : Before(p, id)
  <2>1. ASSUME NEW p \in CellsOf(cols) PROVE Before(p, id)
    <3>1. p \in taken /\ p[1] \in Chunk(N, w)  BY <1>5, <1>7 DEF Own
    <3> QED  BY <1>2, <3>1 DEF IInv, BehindCursor
  <2> QED  BY <2>1
<1>10. Columns(new) /\ Trailing(new) /\ CellsOf(new) \subseteq CellsOf(cols) \cup {id}
  <2>1. id \in Nat \X Nat /\ Columns(cols) /\ Trailing(cols)  BY <1>1, <1>2, <1>5, <1>7
  <2>2. PICK names, hit : /\ names = DOMAIN cols \cup HitKeys(keys, ks)
                          /\ hit = HitKeys(keys, ks)
    OBVIOUS
  <2>3. new = Grown(cols, names, hit, id)  BY <1>8, <2>2
  <2> QED  BY <1>9, <2>1, <2>3, PushTrailing
<1>11. taken' = taken \cup {id} /\ N' = N  BY <1>2 DEF TakeRow, callVars, scanned, N
<1>12. PICK v : v = w  OBVIOUS
<1>13. CellsOf(new) \subseteq Own(v)'
  <2>1. id[1] = frame[w]  BY <1>2 DEF Here
  <2> QED  BY <1>1, <1>5, <1>7, <1>10, <1>11, <1>12, <2>1 DEF Own
<1>14. maker'[v].columns = new  BY <1>4, <1>7, <1>12
<1> QED  BY <1>8, <1>10, <1>12, <1>13, <1>14 DEF MakerInOrder

LEMMA OrderToDf ==
  ASSUME IInv, FramesInOrder, DistinctKeys, NEW w \in Active(N), ToDf(w)
  PROVE  OutInOrder(w)'
<1>1. PICK m, keys, df : m = maker[w] /\ keys = column_keys[w] /\ df = Emitted(m, keys)
  OBVIOUS
<1>2. Columns(m.columns) /\ Trailing(m.columns) /\ CellsOf(m.columns) \subseteq Own(w)
  BY <1>1 DEF FramesInOrder, MakerInOrder
<1>3. w \in Worker  BY Sizes DEF IInv
<1>4. PICK pushed : pushed = ApplyPushdown(df, opts.predicate, opts.columns, Passing)  OBVIOUS
<1>5. \/ out' = out
      \/ Rectangular(df) /\ out' = [out EXCEPT ![w] = df]
      \/ /\ Rectangular(df) /\ ~ PushdownFails(df, opts.predicate, opts.columns)
         /\ out' = [out EXCEPT ![w] = pushed]
  BY <1>1, <1>4 DEF ToDf
<1>6. Ordered(out'[w]) /\ CellsOf(out'[w]) \subseteq Own(w)
  <2>1. CASE out' = out  BY <2>1 DEF FramesInOrder, OutInOrder
  <2>2. CASE Rectangular(df)
    <3>1. Ordered(df) /\ CellsOf(df) \subseteq Own(w)
      BY <1>1, <1>2, <2>2, TrailingOrdered
    <3>2. CASE out' = [out EXCEPT ![w] = df]
      <4>1. out'[w] = df  BY <1>3, <3>2 DEF FramesInOrder, PerWorker
      <4> QED  BY <3>1, <4>1
    <3>3. CASE /\ ~ PushdownFails(df, opts.predicate, opts.columns)
               /\ out' = [out EXCEPT ![w] = pushed]
      <4>1. out'[w] = pushed  BY <1>3, <3>3 DEF FramesInOrder, PerWorker
      <4>2. PICK pred, cols, passing : /\ pred = opts.predicate /\ cols = opts.columns
                                       /\ passing = Passing
        OBVIOUS
      <4>3. /\ ~ PushdownFails(df, pred, cols) /\ pushed = ApplyPushdown(df, pred, cols, passing)
        BY <1>4, <3>3, <4>2
      <4>4. Ordered(pushed) /\ CellsOf(pushed) \subseteq CellsOf(df)
        BY <3>1, <4>3, PushdownOrdered
      <4> QED  BY <3>1, <4>1, <4>4
    <3> QED  BY <1>5, <2>1, <3>2, <3>3
  <2> QED  BY <1>5, <2>1, <2>2
<1>7. taken' = taken /\ N' = N  BY DEF ToDf, callVars, scanned, N
<1>8. PICK v : v = w  OBVIOUS
<1> QED  BY <1>6, <1>7, <1>8 DEF OutInOrder, Own

LEMMA OrderCaller ==
  ASSUME IInv, FramesInOrder, Begin \/ Collect
  PROVE  FramesInOrder'
<1>1. /\ text' = text /\ taken' = taken /\ maker' = maker /\ out' = out /\ N' = N
      /\ Accepted' = Accepted
  BY DEF Begin, Collect, CollectError, CollectNothing, CollectFrame, scanned, workerVars,
         N, Accepted, RowAt
<1>2. PerWorker'  BY <1>1 DEF FramesInOrder, PerWorker
<1>3. DistinctKeys' <=> DistinctKeys  BY <1>1 DEF DistinctKeys, KeysOf, LineAt
<1>4. ASSUME DistinctKeys, NEW w \in Active(N)
      PROVE  MakerInOrder(w)' /\ OutInOrder(w)'
  <2>1. MakerInOrder(w) /\ OutInOrder(w)  BY <1>4 DEF FramesInOrder
  <2>2. PICK v : v = w  OBVIOUS
  <2>3. MakerInOrder(v) /\ OutInOrder(v)  BY <2>1, <2>2
  <2>4. MakerInOrder(v)' /\ OutInOrder(v)'
    BY <1>1, <2>3 DEF MakerInOrder, OutInOrder, Own
  <2> QED  BY <2>2, <2>4
<1>5. ASSUME DistinctKeys, call' = "frame" PROVE Ordered(batch')
  <2>1. CASE CollectFrame
    <3>1. SameColumns /\ Parts \in SUBSET Active(N)  BY <2>1 DEF CollectFrame, Parts
    <3>0. PICK n \in Nat : n = N  BY Sizes DEF IInv
    <3>2. PICK P, o : P = Parts /\ o = out /\ n = N  BY <3>0
    <3>3. /\ P \in SUBSET Active(n) /\ \A v, w \in P : DOMAIN o[v] = DOMAIN o[w]
      BY <3>1, <3>2 DEF SameColumns
    <3>4. \A w \in P : Ordered(o[w]) /\ \A p \in CellsOf(o[w]) : p[1] \in Chunk(n, w)
      BY <1>5, <3>1, <3>2 DEF FramesInOrder, OutInOrder, Own
    <3>5. PICK acc : acc = Accumulated  OBVIOUS
    <3>6. Ordered(acc)  BY <3>2, <3>3, <3>4, <3>5, JoinedOrdered, AccumulatedIs
    <3>7. PICK pred, cols, passing : /\ pred = opts.predicate /\ cols = opts.columns
                                     /\ passing = Passing
      OBVIOUS
    <3>8. \/ batch' = acc
          \/ ~ PushdownFails(acc, pred, cols) /\ batch' = ApplyPushdown(acc, pred, cols, passing)
      BY <1>5, <2>1, <3>5, <3>7 DEF CollectFrame
    <3>9. PICK new : new = batch'  OBVIOUS
    <3> QED  BY <3>6, <3>8, <3>9, PushdownOrdered
  <2>2. CASE ~ CollectFrame
    <3>1. batch' = batch /\ call = "frame"
      BY <1>5, <2>2 DEF Begin, Collect, CollectError, CollectNothing
    <3> QED  BY <1>5, <3>1 DEF FramesInOrder
  <2> QED  BY <2>1, <2>2
<1>6. Active(N)' = Active(N)  BY <1>1
<1>7. ASSUME DistinctKeys
      PROVE  (\A w \in Active(N) : MakerInOrder(w) /\ OutInOrder(w))'
  BY <1>4, <1>6, <1>7
<1> QED  BY <1>2, <1>3, <1>5, <1>7 DEF FramesInOrder

LEMMA OrderStep ==
  ASSUME IInv, FramesInOrder, NEW w \in Active(N), Step(w)
  PROVE  FramesInOrder'
<1>1. /\ N' = N /\ Accepted' = Accepted /\ text' = text /\ call' = call /\ batch' = batch
      /\ Active(N)' = Active(N)
  BY StepKeeps DEF callVars, scanned
<1>2. DistinctKeys' <=> DistinctKeys  BY <1>1 DEF DistinctKeys, KeysOf, LineAt
<1>3. PerWorker'
  BY DEF Step, CloneHandle, SkipTask, LeaveFrame, ReadFrame, SkipLine, BadLine,
         TakeRow, RefuseRow, EndFrame, ToDf, SaveError, Fail, FramesInOrder, PerWorker
<1>4. ASSUME DistinctKeys, NEW v \in Active(N)
      PROVE  MakerInOrder(v)' /\ OutInOrder(v)'
  <2>1. CASE v # w  BY <1>4, <2>1, OrderKept
  <2>2. CASE v = w
    <3>1. PICK u \in Active(N) : u = w  OBVIOUS
    <3>2. MakerInOrder(u)'
      <4>1. Step(u)  BY <3>1
      <4> QED  BY <1>4, <4>1, OrderKept, OrderTakeRow
    <3>3. OutInOrder(u)'
      <4>1. Step(u)  BY <3>1
      <4> QED  BY <1>4, <4>1, OrderKept, OrderToDf
    <3> QED  BY <2>2, <3>1, <3>2, <3>3
  <2> QED  BY <2>1, <2>2
<1>5. ASSUME DistinctKeys
      PROVE  (\A v \in Active(N) : MakerInOrder(v) /\ OutInOrder(v))'
  BY <1>1, <1>4, <1>5
<1> QED  BY <1>1, <1>2, <1>3, <1>5 DEF FramesInOrder

LEMMA OrderStutter ==
  ASSUME FramesInOrder, UNCHANGED vars
  PROVE  FramesInOrder'
<1>1. /\ text' = text /\ taken' = taken /\ maker' = maker /\ out' = out /\ N' = N
      /\ Accepted' = Accepted /\ call' = call /\ batch' = batch
  BY DEF vars, callVars, scanned, workerVars, N, Accepted, RowAt
<1>2. PerWorker'  BY <1>1 DEF FramesInOrder, PerWorker
<1>3. DistinctKeys' <=> DistinctKeys  BY <1>1 DEF DistinctKeys, KeysOf, LineAt
<1>4. ASSUME DistinctKeys, NEW w \in Active(N)
      PROVE  MakerInOrder(w)' /\ OutInOrder(w)'
  <2>1. PICK v : v = w  OBVIOUS
  <2>2. MakerInOrder(v) /\ OutInOrder(v)  BY <1>4, <2>1 DEF FramesInOrder
  <2>3. MakerInOrder(v)' /\ OutInOrder(v)'
    BY <1>1, <2>2 DEF MakerInOrder, OutInOrder, Own
  <2> QED  BY <2>1, <2>3
<1>5. Active(N)' = Active(N)  BY <1>1
<1>6. ASSUME DistinctKeys
      PROVE  (\A w \in Active(N) : MakerInOrder(w) /\ OutInOrder(w))'
  BY <1>4, <1>5, <1>6
<1> QED  BY <1>1, <1>2, <1>3, <1>6 DEF FramesInOrder

(* The frames stay in order.                                               *)
THEOREM FramesKeepOrder == Spec => []FramesInOrder
<1>1. IInv /\ FramesInOrder /\ [Next]_vars => FramesInOrder'
  <2> SUFFICES ASSUME IInv, FramesInOrder, [Next]_vars PROVE FramesInOrder'  OBVIOUS
  <2>1. CASE Begin \/ Collect  BY <2>1, OrderCaller
  <2>2. CASE \E w \in Active(N) : Step(w)  BY <2>2, OrderStep
  <2>3. CASE UNCHANGED vars  BY <2>3, OrderStutter
  <2> QED  BY <2>1, <2>2, <2>3 DEF Next
<1> QED  BY <1>1, OrderInit, Inductive, PTL DEF Spec

LEMMA OrderedRows ==
  ASSUME NEW df, Ordered(df)
  PROVE  /\ Height(df) \in Nat
         /\ \A i \in 1..Height(df) : \A p, q \in RowLines(df, i) : p = q
         /\ \A i, j \in 1..Height(df) : i < j =>
              \A p \in RowLines(df, i), q \in RowLines(df, j) : Before(p, q)
<1>1. /\ Height(df) \in Nat
      /\ \A k \in DOMAIN df : Len(df[k]) = Height(df)
  BY HeightIs DEF Ordered
<1>2. ASSUME NEW i \in 1..Height(df), NEW j \in 1..Height(df),
             NEW p \in RowLines(df, i), NEW q \in RowLines(df, j)
      PROVE  (i = j => p = q) /\ (i < j => Before(p, q))
  <2>1. PICK k \in DOMAIN df : p = df[k][i] /\ p # None  BY DEF RowLines
  <2>2. PICK l \in DOMAIN df : q = df[l][j] /\ q # None  BY DEF RowLines
  <2>3. i \in 1..Len(df[k]) /\ j \in 1..Len(df[l])  BY <1>1
  <2> QED  BY <2>1, <2>2, <2>3 DEF Ordered, Sorted
<1>3. \A i \in 1..Height(df) : \A p, q \in RowLines(df, i) : p = q
  <2> TAKE i \in 1..Height(df)
  <2> QED  BY <1>2
<1>4. \A i, j \in 1..Height(df) : i < j =>
              \A p \in RowLines(df, i), q \in RowLines(df, j) : Before(p, q)
  <2> TAKE i, j \in 1..Height(df)
  <2> QED  BY <1>2
<1> QED  BY <1>1, <1>3, <1>4

(* The rows handed to the caller are in the order of the file, no row      *)
(* twice, whichever worker was quicker (contiguous chunks, joined in the   *)
(* order of the workers).                                                  *)
THEOREM RowsKeepFileOrder == Spec => []FileOrder
<1>1. FramesInOrder => FileOrder  BY OrderedRows DEF FramesInOrder, FileOrder
<1> QED  BY <1>1, FramesKeepOrder, PTL

(* The values of one row are of one line, however ragged the text (the     *)
(* null fill of push_line, the refusal of columns of unequal height).      *)
THEOREM RowsAreNotMixed == Spec => []RowsNotMixedOnDistinctKeys
<1>1. ASSUME FramesInOrder, call = "frame", DistinctKeys, NEW i \in 1..Height(batch)
      PROVE  Cardinality(RowLines(batch, i)) <= 1
  <2>1. \A p, q \in RowLines(batch, i) : p = q  BY <1>1, OrderedRows DEF FramesInOrder
  <2>2. CASE RowLines(batch, i) = {}  BY <2>2, FS_EmptySet
  <2>3. CASE RowLines(batch, i) # {}
    <3>1. PICK p : RowLines(batch, i) = {p}  BY <2>1, <2>3
    <3>2. Cardinality({p}) = 1  BY FS_Singleton
    <3> QED  BY <3>1, <3>2
  <2> QED  BY <2>2, <2>3
<1>2. FramesInOrder => RowsNotMixedOnDistinctKeys
  BY <1>1 DEF RowsNotMixedOnDistinctKeys, RowsNotMixed
<1> QED  BY <1>2, FramesKeepOrder, PTL

-----------------------------------------------------------------------------
(* Text whose accepted lines all carry the same keys.  Each column of a    *)
(* worker holds exactly the rows it has read, and each column it hands     *)
(* over those of them that pass the predicate, or, with a slice, which is  *)
(* filtered later, all of them.                                            *)
Exact(df, S) ==
  \A k \in DOMAIN df : /\ \A a \in 1..Len(df[k]) : df[k][a] \in S
                       /\ \A p \in S : \E a \in 1..Len(df[k]) : p = df[k][a]

Wants(p) == opts.predicate = None \/ p \in Passing

Due(w) == IF Capped THEN Own(w) ELSE {p \in Own(w) : Wants(p)}

MakerExact(w) ==
  /\ column_keys[w] = DOMAIN maker[w].columns
  /\ Exact(maker[w].columns, Own(w))
  /\ Own(w) = {} => column_keys[w] = {} /\ first_row[w] = None
  /\ Own(w) # {} => \A p \in Accepted : column_keys[w] = KeysOf(p)

OutExact(w) ==
  pc[w] = "done" =>
    /\ Exact(out[w], Due(w))
    /\ DOMAIN out[w] = IF ~ Capped /\ Own(w) # {} /\ opts.columns # {}
                       THEN opts.columns ELSE column_keys[w]

ErrorsReal == /\ \A w \in Active(N) : error[w] # None => faults # {}
              /\ saved # None => faults # {}

UniformExact ==
  /\ DOMAIN column_keys = Worker /\ DOMAIN first_row = Worker
  /\ Uniform => /\ ErrorsReal
                /\ opts.aligned => \A w \in Active(N) : MakerExact(w) /\ OutExact(w)
  /\ ExactOnUniformText

(* Such a column is as high as its rows are many.                          *)
LEMMA ExactHeight ==
  ASSUME NEW df, Columns(df), NEW S \in SUBSET (Nat \X Nat), Exact(df, S), NEW k \in DOMAIN df,
         Trailing(df) \/ Sorted(df)
  PROVE  IsFiniteSet(S) /\ Len(df[k]) = Cardinality(S) /\ Cardinality(S) \in Nat
<1>0. PICK n \in Nat : n = Len(df[k])  BY ColumnFacts
<1>1. PICK s : s = df[k] /\ n = Len(df[k])  BY <1>0
<1>2. /\ \A a \in 1..n : s[a] \in S
      /\ \A p \in S : \E a \in 1..n : p = s[a]
  BY <1>1 DEF Exact
<1>3. \A p \in S : p # None /\ p[1] \in Nat /\ p[2] \in Nat  BY PairCells
<1>4. \A a, b \in 1..n : a < b => Before(s[a], s[b])
  <2> TAKE a, b \in 1..n
  <2>1. a \in 1..Len(df[k]) /\ b \in 1..Len(df[k]) /\ df[k][a] # None /\ df[k][b] # None
        /\ Len(df[k]) \in Nat
    BY <1>1, <1>2, <1>3
  <2>2. CASE Trailing(df)
    <3>1. Len(df[k]) - a > Len(df[k]) - b => Before(df[k][a], df[k][b])
      BY <2>1, <2>2 DEF Trailing
    <3>2. a < b => n - a > n - b  OBVIOUS
    <3> QED  BY <1>1, <3>1, <3>2
  <2>3. CASE Sorted(df)
    <3>1. a < b => Before(df[k][a], df[k][b])  BY <2>1, <2>3 DEF Sorted
    <3> QED  BY <1>1, <3>1
  <2> QED  BY <2>2, <2>3
<1>5. \A a, b \in 1..n : s[a] = s[b] => a = b
  <2> TAKE a, b \in 1..n
  <2>1. a < b \/ b < a \/ a = b  OBVIOUS
  <2>2. s[a] \in S /\ s[b] \in S  BY <1>2
  <2> QED  BY <1>3, <1>4, <2>1, <2>2 DEF Before
<1> DEFINE f == [a \in 1..n |-> s[a]]
<1>6. f \in Surjection(1..n, S)  BY <1>2 DEF Surjection
<1>7. f \in Injection(1..n, S)  BY <1>2, <1>5 DEF Injection, IsInjective
<1>8. IsFiniteSet(1..n) /\ Cardinality(1..n) = n
  <2>1. n \in Int /\ (1 > n => n = 0) /\ n - 1 + 1 = n  OBVIOUS
  <2> QED  BY <2>1, FS_Interval
<1>9. IsFiniteSet(S) /\ Cardinality(S) = n
  <2> HIDE DEF f
  <2> QED  BY <1>6, <1>7, <1>8, FS_Surjection
<1> QED  BY <1>1, <1>9

LEMMA ExactGrown ==
  ASSUME NEW old, Columns(old), NEW S, Exact(old, S), NEW id, NEW names,
         \A k \in names : k \in DOMAIN old \/ S = {},
         NEW new, new = Grown(old, names, names, id)
  PROVE  DOMAIN new = names /\ Exact(new, S \cup {id})
<1>1. DOMAIN new = names  BY DEF Grown
<1>2. ASSUME NEW k \in names
      PROVE  /\ \A a \in 1..Len(new[k]) : new[k][a] \in S \cup {id}
             /\ \A p \in S \cup {id} : \E a \in 1..Len(new[k]) : p = new[k][a]
  <2>1. new[k] = Held(old, k) \o <<id>>  BY DEF Grown
  <2>2. PICK h, T : h = Held(old, k) /\ h \in Seq(T) /\ id \in T
    <3>1. \E T : Held(old, k) \in Seq(T) /\ id \in T
      <4>1. CASE k \in DOMAIN old
        <5>1. old[k] \in Seq(Cells)  BY <4>1, ColumnFacts
        <5>2. old[k] \in Seq(Cells \cup {id})
          <6> HIDE DEF Cells
          <6> QED  BY <5>1
        <5>3. id \in Cells \cup {id}  OBVIOUS
        <5> QED  BY <4>1, <5>2, <5>3 DEF Held
      <4>2. CASE k \notin DOMAIN old
        <5>1. <<>> \in Seq({id})  OBVIOUS
        <5> QED  BY <4>2, <5>1 DEF Held
      <4> QED  BY <4>1, <4>2
    <3> QED  BY <3>1
  <2>3. /\ Len(h) \in Nat /\ Len(new[k]) = Len(h) + 1 /\ new[k][Len(h) + 1] = id
        /\ \A a \in 1..Len(h) : new[k][a] = h[a]
    BY <2>1, <2>2, OneMore
  <2>4. /\ \A a \in 1..Len(h) : h[a] \in S
        /\ \A p \in S : \E a \in 1..Len(h) : p = h[a]
    <3>1. CASE k \in DOMAIN old  BY <2>2, <3>1 DEF Held, Exact
    <3>2. CASE k \notin DOMAIN old
      <4>1. h = <<>> /\ S = {}  BY <2>2, <3>2 DEF Held
      <4>2. 1..Len(h) = {}  BY <4>1
      <4> QED  BY <4>1, <4>2
    <3> QED  BY <3>1, <3>2
  <2>5. PICK n \in Nat : n = Len(h)  BY <2>3
  <2>6. \A a \in 1..(n + 1) : a \in 1..n \/ a = n + 1  OBVIOUS
  <2>7. \A a \in 1..n : a \in 1..(n + 1)  OBVIOUS
  <2>8. n + 1 \in 1..(n + 1)  OBVIOUS
  <2> QED  BY <2>3, <2>4, <2>5, <2>6, <2>7, <2>8
<1> QED  BY <1>1, <1>2 DEF Exact

LEMMA ExactPushdown ==
  ASSUME NEW df, Ordered(df), NEW S \in SUBSET (Nat \X Nat), Exact(df, S),
         NEW pred, NEW cols, NEW passing, ~ PushdownFails(df, pred, cols),
         NEW new, new = ApplyPushdown(df, pred, cols, passing)
  PROVE  Exact(new, {p \in S : pred = None \/ p \in passing})
<1> DEFINE kept == Keep(df, pred, passing)
           due == {p \in S : pred = None \/ p \in passing}
<1>1. /\ DOMAIN new \subseteq DOMAIN df
      /\ Cardinality(kept) \in Nat
      /\ \A k \in DOMAIN new : Len(new[k]) = Cardinality(kept)
      /\ \A k \in DOMAIN new : \A n \in 1..Len(new[k]) :
           Nth(kept, n) \in kept /\ new[k][n] = df[k][Nth(kept, n)]
      /\ \A i \in kept : \E n \in 1..Cardinality(kept) : i = Nth(kept, n)
  BY PushdownOrdered
<1>2. /\ \A k \in DOMAIN df : Len(df[k]) = Height(df)
      /\ \A i \in 1..Height(df) : \A j, k \in DOMAIN df : df[j][i] = df[k][i]
      /\ \A k \in DOMAIN df : \A i \in 1..Height(df) : df[k][i] \in S
      /\ pred = None \/ pred \in DOMAIN df
  <2>1. \A k \in DOMAIN df : Len(df[k]) = Height(df)  BY HeightIs DEF Ordered
  <2>2. \A k \in DOMAIN df : \A i \in 1..Height(df) : df[k][i] \in S /\ df[k][i] # None
    <3>1. \A p \in S : p # None  BY PairCells
    <3> QED  BY <2>1, <3>1 DEF Exact
  <2>3. ASSUME NEW i \in 1..Height(df), NEW j \in DOMAIN df, NEW k \in DOMAIN df
        PROVE  df[j][i] = df[k][i]
    <3>1. i \in 1..Len(df[j]) /\ i \in 1..Len(df[k])  BY <2>1
    <3> QED  BY <2>2, <3>1 DEF Ordered, Sorted
  <2> QED  BY <2>1, <2>2, <2>3 DEF PushdownFails
<1>3. \A i \in 1..Height(df) : \A k \in DOMAIN df : i \in kept <=> df[k][i] \in due
  <2> TAKE i \in 1..Height(df)
  <2> TAKE k \in DOMAIN df
  <2>1. i \in kept <=> (pred = None \/ df[pred][i] \in passing)  BY DEF Keep
  <2>2. df[k][i] \in S  BY <1>2
  <2>3. pred # None => df[pred][i] = df[k][i]  BY <1>2
  <2> QED  BY <2>1, <2>2, <2>3
<1>4. kept \subseteq 1..Height(df)  BY DEF Keep
<1> HIDE DEF kept
<1> SUFFICES ASSUME NEW k \in DOMAIN new
             PROVE  /\ \A a \in 1..Len(new[k]) : new[k][a] \in due
                    /\ \A p \in due : \E a \in 1..Len(new[k]) : p = new[k][a]
  BY DEF Exact
<1>5. ASSUME NEW a \in 1..Len(new[k]) PROVE new[k][a] \in due
  <2>1. PICK i \in kept : i = Nth(kept, a) /\ new[k][a] = df[k][i]  BY <1>1
  <2> QED  BY <1>1, <1>3, <1>4, <2>1
<1>6. ASSUME NEW p \in due PROVE \E a \in 1..Len(new[k]) : p = new[k][a]
  <2>1. k \in DOMAIN df /\ p \in S  BY <1>1
  <2>2. PICK i \in 1..Height(df) : p = df[k][i]  BY <1>2, <2>1 DEF Exact
  <2>3. i \in kept  BY <1>3, <2>1, <2>2
  <2>4. PICK n \in 1..Cardinality(kept) : i = Nth(kept, n)  BY <1>1, <2>3
  <2>5. n \in 1..Len(new[k]) /\ new[k][n] = p  BY <1>1, <2>2, <2>4
  <2> QED  BY <2>5
<1> QED  BY <1>5, <1>6

LEMMA ExactJoined ==
  ASSUME NEW n \in Nat, NEW P \in SUBSET Active(n), NEW o, NEW E,
         \A w \in P : Ordered(o[w]) /\ Exact(o[w], E[w]),
         \A v, w \in P : DOMAIN o[v] = DOMAIN o[w],
         \A k \in DOMAIN Joined(P, o) : Len(Joined(P, o)[k]) = Cardinality(RowsOf(P, o))
  PROVE  Exact(Joined(P, o), UNION {E[w] : w \in P})
<1> DEFINE rows == RowsOf(P, o)
           c == Cardinality(rows)
           at(i) == NthRow(rows, i)
           new == Joined(P, o)
           all == UNION {E[w] : w \in P}
<1>1. \A w \in P : Ordered(o[w]) /\ Exact(o[w], E[w])  OBVIOUS
<1>2. /\ rows \in SUBSET (Nat \X Nat) /\ IsFiniteSet(rows)
      /\ \A r \in rows : r[1] \in P /\ r[2] \in 1..Height(o[r[1]])
      /\ \A w \in P : \A i \in 1..Height(o[w]) : <<w, i>> \in rows
  BY <1>1, RowsFacts
<1>3. /\ \A k \in 1..c : at(k) \in rows
      /\ \A p \in rows : \E k \in 1..c : p = at(k)
  <2> HIDE DEF rows
  <2> QED  BY <1>2, RowsAscend
<1>4. \A w \in P : DOMAIN new = DOMAIN o[w]
  <2> TAKE w \in P
  <2>1. DOMAIN new = UNION {DOMAIN o[v] : v \in P}  BY DEF Joined
  <2> QED  BY <2>1
<1>5. \A w \in P : \A k \in DOMAIN o[w] : Len(o[w][k]) = Height(o[w])
  BY HeightIs DEF Ordered
<1>6. \A k \in DOMAIN new : new[k] = [i \in 1..c |-> o[at(i)[1]][k][at(i)[2]]]
  BY DEF Joined
<1>7. \A k \in DOMAIN new : Len(new[k]) = c  OBVIOUS
<1> HIDE DEF rows, new, c, at
<1>8. \A k \in DOMAIN new : \A i \in 1..c : new[k][i] = o[at(i)[1]][k][at(i)[2]]
  <2> TAKE k \in DOMAIN new
  <2>1. new[k] = [i \in 1..c |-> o[at(i)[1]][k][at(i)[2]]]  BY <1>6
  <2> TAKE i \in 1..c
  <2> QED  BY <2>1
<1> SUFFICES ASSUME NEW k \in DOMAIN new
             PROVE  /\ \A a \in 1..Len(new[k]) : new[k][a] \in all
                    /\ \A p \in all : \E a \in 1..Len(new[k]) : p = new[k][a]
  BY DEF Exact, new
<1>9. ASSUME NEW a \in 1..Len(new[k]) PROVE new[k][a] \in all
  <2>1. a \in 1..c /\ at(a) \in rows  BY <1>3, <1>7
  <2>2. PICK w \in P, x \in Nat : w = at(a)[1] /\ x = at(a)[2] /\ x \in 1..Height(o[w])
    BY <1>2, <2>1
  <2>3. new[k][a] = o[w][k][x]  BY <1>8, <2>1, <2>2
  <2>4. o[w][k][x] \in E[w]  BY <1>1, <1>4, <1>5, <2>2 DEF Exact
  <2> QED  BY <2>3, <2>4
<1>10. ASSUME NEW p \in all PROVE \E a \in 1..Len(new[k]) : p = new[k][a]
  <2>1. PICK w \in P : p \in E[w]  OBVIOUS
  <2>2. k \in DOMAIN o[w]  BY <1>4
  <2>3. PICK x \in 1..Height(o[w]) : p = o[w][k][x]  BY <1>1, <1>5, <2>1, <2>2 DEF Exact
  <2>4. <<w, x>> \in rows  BY <1>2
  <2>5. PICK a \in 1..c : <<w, x>> = at(a)  BY <1>3, <2>4
  <2>6. at(a)[1] = w /\ at(a)[2] = x  BY <2>5
  <2>7. a \in 1..Len(new[k]) /\ new[k][a] = p  BY <1>7, <1>8, <2>3, <2>5, <2>6
  <2> QED  BY <2>7
<1> QED  BY <1>9, <1>10

LEMMA ExactRows ==
  ASSUME NEW df, Ordered(df), NEW S \in SUBSET (Nat \X Nat), Exact(df, S), DOMAIN df # {}
  PROVE  /\ UNION {RowLines(df, i) : i \in 1..Height(df)} = S
         /\ Height(df) = Cardinality(S)
<1>1. \A k \in DOMAIN df : Len(df[k]) = Height(df)  BY HeightIs DEF Ordered
<1>2. PICK k \in DOMAIN df : TRUE  OBVIOUS
<1>3. Height(df) = Cardinality(S)  BY <1>1, <1>2, ExactHeight DEF Ordered
<1>4. \A p \in S : p # None  BY PairCells
<1>5. ASSUME NEW i \in 1..Height(df), NEW p \in RowLines(df, i) PROVE p \in S
  <2>1. PICK j \in DOMAIN df : p = df[j][i]  BY DEF RowLines
  <2>2. i \in 1..Len(df[j])  BY <1>1
  <2> QED  BY <2>1, <2>2 DEF Exact
<1>6. ASSUME NEW p \in S PROVE \E i \in 1..Height(df) : p \in RowLines(df, i)
  <2>1. PICK i \in 1..Height(df) : p = df[k][i]  BY <1>1, <1>2 DEF Exact
  <2>2. p \in RowLines(df, i)  BY <1>2, <1>4, <2>1 DEF RowLines
  <2> QED  BY <2>2
<1> QED  BY <1>3, <1>5, <1>6

LEMMA UniformRows ==
  ASSUME TypeOK, Uniform, NEW p \in Accepted
  PROVE  /\ DistinctKeys /\ KeysOf(p) # {} /\ KeysOf(p) # None
         /\ Asked \subseteq KeysOf(p) /\ \A q \in Accepted : KeysOf(q) = KeysOf(p)
<1>1. p[1] \in 1..N /\ p[2] \in 1..Len(text[p[1]])  BY AcceptedPairs
<1>2. LineAt(p) \in Lines
  <2>1. text \in Seq(Seq(Lines))  BY DEF TypeOK
  <2>2. text[p[1]] \in Seq(Lines)  BY <1>1, <2>1 DEF N
  <2> QED  BY <1>1, <2>2 DEF LineAt
<1>3. KeysOf(p) # None  BY <1>2, ScanAssumption DEF KeysOf
<1> QED  BY <1>3 DEF Uniform

LEMMA SmallPairs ==
  ASSUME TypeOK, NEW w
  PROVE  Own(w) \in SUBSET (Nat \X Nat) /\ Due(w) \in SUBSET (Nat \X Nat)
<1>1. taken \subseteq Nat \X Nat  BY DEF TypeOK
<1>2. Own(w) \subseteq taken  BY DEF Own
<1>3. Due(w) \subseteq Own(w)  BY DEF Due
<1> QED  BY <1>1, <1>2, <1>3

LEMMA UniformInit == Init => UniformExact
<1> SUFFICES ASSUME Init PROVE UniformExact  OBVIOUS
<1>1. TypeOK /\ Active(N) \subseteq Worker  BY InitInv, Sizes DEF IInv
<1>2. DOMAIN column_keys = Worker /\ DOMAIN first_row = Worker  BY DEF Init
<1>3. ErrorsReal  BY <1>1 DEF Init, ErrorsReal
<1>4. ASSUME NEW w \in Active(N) PROVE MakerExact(w) /\ OutExact(w)
  <2>1. /\ column_keys[w] = {} /\ first_row[w] = None /\ maker[w].columns = EmptyFrame
        /\ pc[w] = "idle" /\ taken = {}
    BY <1>1 DEF Init, NewMaker
  <2>2. DOMAIN EmptyFrame = {} /\ Own(w) = {}  BY <2>1 DEF EmptyFrame, Own
  <2>3. Exact(EmptyFrame, Own(w))  BY <2>2 DEF Exact
  <2> QED  BY <2>1, <2>2, <2>3 DEF MakerExact, OutExact
<1>5. ExactOnUniformText  BY DEF Init, ExactOnUniformText, Answers
<1> QED  BY <1>2, <1>3, <1>4, <1>5 DEF UniformExact

(* A worker takes steps only while the caller waits.                       *)
LEMMA StepRunning ==
  ASSUME IInv, NEW w \in Active(N), Step(w)
  PROVE  call = "running"
  BY DEF IInv, Quiet, Step, CloneHandle, SkipTask, LeaveFrame, ReadFrame, SkipLine, BadLine,
         TakeRow, RefuseRow, EndFrame, ToDf, SaveError, HasLine

(* What a step of a worker leaves of the rows of another, and of its own.  *)
LEMMA OwnKept ==
  ASSUME IInv, NEW w \in Active(N), Step(w), NEW v \in Active(N), v # w \/ ~ TakeRow(w)
  PROVE  /\ Own(v)' = Own(v) /\ Due(v)' = Due(v)
         /\ opts' = opts /\ Accepted' = Accepted /\ Capped' = Capped /\ N' = N
         /\ \A p : KeysOf(p)' = KeysOf(p)
<1>1. /\ opts' = opts /\ text' = text /\ Accepted' = Accepted /\ Capped' = Capped /\ N' = N
  BY StepKeeps DEF callVars, scanned
<1>2. \A p : KeysOf(p)' = KeysOf(p)  BY <1>1 DEF KeysOf, LineAt
<1>3. \/ taken' = taken
      \/ v # w /\ taken' = taken \cup {Here(w)} /\ Here(w)[1] \in Chunk(N, w)
  <2>1. CASE TakeRow(w)
    <3>1. Here(w)[1] \in Chunk(N, w)  BY <2>1, FreshRow DEF Here
    <3> QED  BY <2>1, <3>1 DEF TakeRow
  <2>2. CASE ~ TakeRow(w)
    BY <2>2 DEF Step, CloneHandle, SkipTask, LeaveFrame, ReadFrame, SkipLine, BadLine,
         RefuseRow, EndFrame, ToDf, SaveError
  <2> QED  BY <2>1, <2>2
<1>4. PICK n \in Nat : n = N  BY Sizes DEF IInv
<1>5. \A p \in taken' : p[1] \in Chunk(n, v) => p \in taken
  <2>1. v # w => Here(w)[1] \notin Chunk(n, v) \/ Here(w)[1] \notin Chunk(n, w)
    BY <1>4, ChunksDisjoint
  <2> QED  BY <1>3, <1>4, <2>1
<1>6. taken \subseteq taken'  BY <1>3
<1>7. PICK u : u = v  OBVIOUS
<1>8. Own(u)' = Own(u)  BY <1>1, <1>4, <1>5, <1>6, <1>7 DEF Own
<1>9. \A p \in taken : p \in Passing' <=> p \in Passing  BY <1>1, <1>6 DEF Passing, LineAt
<1>10. Due(u)' = Due(u)
  <2>1. \A p \in Own(u) : Wants(p)' <=> Wants(p)
    <3> TAKE p \in Own(u)
    <3>1. p \in taken  BY DEF Own
    <3> QED  BY <1>1, <1>9, <3>1 DEF Wants
  <2> QED  BY <1>1, <1>8, <2>1 DEF Due
<1> QED  BY <1>1, <1>2, <1>7, <1>8, <1>10

LEMMA ExactKept ==
  ASSUME IInv, PerWorker, UniformExact, Uniform, opts.aligned,
         NEW w \in Active(N), Step(w), NEW v \in Active(N)
  PROVE  /\ (v # w \/ ~ TakeRow(w)) => MakerExact(v)'
         /\ (v # w \/ ~ ToDf(w)) => OutExact(v)'
<1>1. v \in Worker /\ w \in Worker  BY Sizes DEF IInv
<1>2. MakerExact(v) /\ OutExact(v)  BY DEF UniformExact
<1>3. ASSUME v # w \/ ~ TakeRow(w)
      PROVE  /\ maker'[v] = maker[v] /\ column_keys'[v] = column_keys[v]
             /\ first_row'[v] = first_row[v] \/ first_row'[v] = None
  <2>1. CASE TakeRow(w)  BY <1>1, <1>3, <2>1 DEF TakeRow, PerWorker, UniformExact
  <2>2. CASE ~ TakeRow(w)
    BY <1>1, <2>2 DEF Step, CloneHandle, SkipTask, LeaveFrame, ReadFrame, SkipLine, BadLine,
         RefuseRow, EndFrame, ToDf, SaveError, UniformExact
  <2> QED  BY <2>1, <2>2
<1>4. ASSUME v # w \/ ~ TakeRow(w)
      PROVE  MakerExact(v)'
  <2>1. PICK u : u = v  OBVIOUS
  <2>2. Own(v)' = Own(v) /\ Accepted' = Accepted /\ \A p : KeysOf(p)' = KeysOf(p)
    BY <1>4, OwnKept
  <2>3. MakerExact(u)'  BY <1>2, <1>3, <1>4, <2>1, <2>2 DEF MakerExact
  <2> QED  BY <2>1, <2>3
<1>5. ASSUME v # w \/ ~ ToDf(w), pc'[v] = "done"
      PROVE  /\ v # w /\ pc[v] = "done" /\ out'[v] = out[v]
             /\ column_keys'[v] = column_keys[v]
  <2>1. pc \in [Worker -> {"idle", "frame", "line", "to_df", "done", "failed", "skipped"}]
    BY DEF IInv, TypeOK
  <2>2. v # w
    BY <1>1, <1>5, <2>1 DEF Step, CloneHandle, SkipTask, LeaveFrame, ReadFrame, SkipLine, BadLine,
         RefuseRow, EndFrame, TakeRow, SaveError, Fail, HasLine
  <2>3. pc'[v] = pc[v] /\ out'[v] = out[v]
    BY <1>1, <2>1, <2>2 DEF Step, CloneHandle, SkipTask, LeaveFrame, ReadFrame, SkipLine, BadLine,
         RefuseRow, EndFrame, TakeRow, ToDf, SaveError, Fail, PerWorker
  <2> QED  BY <1>3, <1>5, <2>2, <2>3
<1>6. ASSUME v # w \/ ~ ToDf(w)
      PROVE  OutExact(v)'
  <2>1. PICK u : u = v  OBVIOUS
  <2>2. CASE pc'[v] = "done"
    <3>1. v # w /\ pc[v] = "done" /\ out'[v] = out[v] /\ column_keys'[v] = column_keys[v]
      BY <1>5, <1>6, <2>2
    <3>2. Own(v)' = Own(v) /\ Due(v)' = Due(v) /\ opts' = opts /\ Capped' = Capped
      BY <3>1, OwnKept
    <3>3. OutExact(u)'  BY <1>2, <2>1, <3>1, <3>2 DEF OutExact
    <3> QED  BY <2>1, <3>3
  <2>3. CASE pc'[v] # "done"
    <3>1. OutExact(u)'  BY <2>1, <2>3 DEF OutExact
    <3> QED  BY <2>1, <3>1
  <2> QED  BY <2>2, <2>3
<1> QED  BY <1>4, <1>6

LEMMA ExactTakeRow ==
  ASSUME IInv, FramesInOrder, UniformExact, Uniform, opts.aligned,
         NEW w \in Active(N), TakeRow(w)
  PROVE  MakerExact(w)'
<1>1. w \in Worker /\ TypeOK  BY Sizes DEF IInv
<1>2. PICK old, ks, id, keys : /\ old = maker[w] /\ ks = LineAt(Here(w)).keys /\ id = Here(w)
                               /\ keys = ColumnKeys(w)
  OBVIOUS
<1>3. /\ id \in Accepted /\ frame[w] \in Chunk(N, w) /\ id[1] = frame[w]
  BY <1>2, FreshRow DEF Here
<1>4. /\ maker'[w] = PushLine(old, keys, ks, id)
      /\ column_keys'[w] = keys
  BY <1>1, <1>2 DEF TakeRow, FramesInOrder, PerWorker, UniformExact
<1>5. MakerExact(w)  BY DEF UniformExact
<1>6. DistinctKeys /\ KeysOf(id) # {} /\ KeysOf(id) # None /\ \A q \in Accepted : KeysOf(q) = KeysOf(id)
  BY <1>1, <1>3, UniformRows
<1>7. keys = KeysOf(id) /\ (DOMAIN old.columns = KeysOf(id) \/ Own(w) = {})
  <2>1. CASE Own(w) = {}
    <3>1. column_keys[w] = {} /\ first_row[w] = None  BY <1>5, <2>1 DEF MakerExact
    <3>2. FirstRow(w) = KeysOf(id)  BY <1>2, <3>1 DEF FirstRow, KeysOf
    <3> QED  BY <1>2, <1>6, <2>1, <3>1, <3>2 DEF ColumnKeys
  <2>2. CASE Own(w) # {}
    <3>1. column_keys[w] = KeysOf(id) /\ DOMAIN old.columns = KeysOf(id)
      BY <1>2, <1>3, <1>5, <2>2 DEF MakerExact
    <3> QED  BY <1>2, <1>6, <3>1 DEF ColumnKeys
  <2> QED  BY <2>1, <2>2
<1>8. KeysOf(id) = {ks[i] : i \in DOMAIN ks} /\ KeysOnce(ks)
  <2>1. ks = LineAt(id).keys /\ id \in Accepted  BY <1>2, <1>3
  <2>2. TypeOK /\ DistinctKeys  BY <1>1, <1>6
  <2>3. KeysOnce(ks)  BY <2>1, <2>2, DistinctLine
  <2>4. KeysOf(id) = {ks[i] : i \in DOMAIN ks}  BY <2>1 DEF KeysOf
  <2> QED  BY <2>3, <2>4
<1>9. HitKeys(keys, ks) = KeysOf(id)  BY <1>7, <1>8 DEF HitKeys, Hits
<1>10. Columns(old.columns) /\ IsFiniteSet(DOMAIN old.columns)
  BY <1>2, <1>6 DEF FramesInOrder, MakerInOrder
<1>11. PICK cols, new, names : /\ cols = old.columns /\ names = KeysOf(id)
                               /\ new = PushLine(old, keys, ks, id).columns
  OBVIOUS
<1>12. DOMAIN cols \cup names = names
  <2>1. Own(w) = {} => DOMAIN cols = {}  BY <1>2, <1>5, <1>11 DEF MakerExact
  <2> QED  BY <1>7, <1>11, <2>1
<1>13. new = Grown(cols, names, names, id)
  <2>1. PushLine(old, keys, ks, id).columns =
          Grown(old.columns, DOMAIN old.columns \cup HitKeys(keys, ks), HitKeys(keys, ks), id)
    <3>1. IsFiniteSet(DOMAIN old.columns) /\ KeysOnce(ks)  BY <1>8, <1>10
    <3> QED  BY <3>1, PushOne
  <2> QED  BY <1>9, <1>11, <1>12, <2>1
<1>14. PICK S : S = Own(w)  OBVIOUS
<1>15. Exact(cols, S) /\ \A k \in names : k \in DOMAIN cols \/ S = {}
  BY <1>2, <1>5, <1>7, <1>11, <1>14 DEF MakerExact
<1>16. DOMAIN new = names /\ Exact(new, S \cup {id})
  <2>1. Columns(cols)  BY <1>10, <1>11
  <2> QED  BY <1>13, <1>15, <2>1, ExactGrown
<1>17. /\ taken' = taken \cup {id} /\ N' = N /\ Accepted' = Accepted
       /\ text' = text
  BY <1>2 DEF TakeRow, callVars, scanned, N, Accepted, RowAt
<1>18. PICK v : v = w  OBVIOUS
<1>19. Own(v)' = S \cup {id}  BY <1>3, <1>14, <1>17, <1>18 DEF Own
<1>20. \A p \in Accepted' : KeysOf(p)' = names  BY <1>6, <1>11, <1>17 DEF KeysOf, LineAt
<1>21. /\ maker'[v].columns = new /\ column_keys'[v] = names
  BY <1>4, <1>7, <1>11, <1>18
<1>22. MakerExact(v)'  BY <1>16, <1>19, <1>20, <1>21 DEF MakerExact
<1> QED  BY <1>18, <1>22

(* What a worker turns into a frame.                                       *)
LEMMA EmittedExact ==
  ASSUME IInv, FramesInOrder, UniformExact, Uniform, opts.aligned, NEW w \in Active(N),
         NEW df, df = Emitted(maker[w], column_keys[w])
  PROVE  /\ Ordered(df) /\ Exact(df, Own(w)) /\ DOMAIN df = column_keys[w]
         /\ Own(w) = {} <=> DOMAIN df = {}
         /\ DOMAIN df # {} => ~ PushdownFails(df, opts.predicate, opts.columns)
<1>1. MakerExact(w)  BY DEF UniformExact
<1>2. PICK m, keys, S : m = maker[w] /\ keys = column_keys[w] /\ S = Own(w)  OBVIOUS
<1>3. keys = DOMAIN m.columns /\ Exact(m.columns, S)  BY <1>1, <1>2 DEF MakerExact
<1>4. Columns(m.columns) /\ Trailing(m.columns)
  BY <1>2 DEF FramesInOrder, MakerInOrder, Uniform
<1>5. DOMAIN df = keys /\ \A k \in keys : df[k] = m.columns[k]
  BY <1>2, <1>3 DEF Emitted
<1>6. Rectangular(df)
  <2>1. S \in SUBSET (Nat \X Nat)  BY <1>2, SmallPairs DEF IInv
  <2>2. PICK cols : cols = m.columns  OBVIOUS
  <2>3. \A k \in DOMAIN cols : Len(cols[k]) = Cardinality(S)
    BY <1>3, <1>4, <2>1, <2>2, ExactHeight
  <2> QED  BY <1>3, <1>5, <2>2, <2>3 DEF Rectangular
<1>7. Ordered(df)  BY <1>2, <1>4, <1>6, TrailingOrdered
<1>8. Exact(df, S)  BY <1>3, <1>5 DEF Exact
<1>9. S = {} => DOMAIN df = {}  BY <1>1, <1>2, <1>5 DEF MakerExact
<1>10. ASSUME S # {}
       PROVE  DOMAIN df # {} /\ ~ PushdownFails(df, opts.predicate, opts.columns)
  <2>1. PICK p \in S : TRUE  BY <1>10
  <2>2. p \in Accepted  BY <1>2 DEF Own, IInv
  <2>3. KeysOf(p) # {} /\ Asked \subseteq KeysOf(p)  BY <2>2, UniformRows DEF IInv
  <2>4. DOMAIN df = KeysOf(p)  BY <1>1, <1>2, <1>5, <1>10, <2>2 DEF MakerExact
  <2> QED  BY <2>3, <2>4 DEF PushdownFails, Asked
<1> QED  BY <1>2, <1>5, <1>7, <1>8, <1>9, <1>10

LEMMA ExactToDf ==
  ASSUME IInv, FramesInOrder, UniformExact, Uniform, opts.aligned,
         NEW w \in Active(N), ToDf(w)
  PROVE  OutExact(w)' /\ error' = error
<1>1. PICK df : df = Emitted(maker[w], column_keys[w])  OBVIOUS
<1>2. /\ Ordered(df) /\ Exact(df, Own(w)) /\ DOMAIN df = column_keys[w]
      /\ Own(w) = {} <=> DOMAIN df = {}
      /\ DOMAIN df # {} => ~ PushdownFails(df, opts.predicate, opts.columns)
  BY <1>1, EmittedExact
<1>3. PICK pred, cols, passing, S : /\ pred = opts.predicate /\ cols = opts.columns
                                    /\ passing = Passing /\ S = Own(w)
  OBVIOUS
<1>4. PICK new : new = IF DOMAIN df # {} /\ ~ Capped THEN ApplyPushdown(df, pred, cols, passing)
                       ELSE df
  OBVIOUS
<1>5. out' = [out EXCEPT ![w] = new] /\ error' = error
  BY <1>1, <1>2, <1>3, <1>4 DEF ToDf, Ordered
<1>6. w \in Worker  BY Sizes DEF IInv
<1>7. out'[w] = new  BY <1>5, <1>6 DEF FramesInOrder, PerWorker
<1>8. PICK v : v = w  OBVIOUS
<1>9. /\ Own(v)' = S /\ Due(v)' = Due(v) /\ opts' = opts /\ (Capped' <=> Capped)
      /\ column_keys' = column_keys
  <2>1. ~ TakeRow(w)
    <3>1. pc[w] = "to_df"  BY DEF ToDf
    <3> QED  BY <3>1 DEF TakeRow, HasLine
  <2>2. Step(w)  BY DEF Step
  <2>3. Own(w)' = Own(w) /\ Due(w)' = Due(w) /\ opts' = opts /\ Capped' = Capped
    BY <2>1, <2>2, OwnKept
  <2>4. column_keys' = column_keys  BY DEF ToDf
  <2> QED  BY <1>3, <1>8, <2>3, <2>4
<1>10. /\ Exact(new, Due(w))
       /\ DOMAIN new = IF ~ Capped /\ S # {} /\ cols # {} THEN cols ELSE column_keys[w]
  <2>1. CASE Capped
    <3>1. new = df /\ Due(w) = S  BY <1>3, <1>4, <2>1 DEF Due
    <3> QED  BY <1>2, <1>3, <2>1, <3>1
  <2>2. CASE ~ Capped /\ DOMAIN df = {}
    <3>1. new = df /\ S = {}  BY <1>2, <1>3, <1>4, <2>2
    <3>2. Exact(df, Due(w))  BY <2>2 DEF Exact
    <3> QED  BY <1>2, <3>1, <3>2
  <2>3. CASE ~ Capped /\ DOMAIN df # {}
    <3>1. new = ApplyPushdown(df, pred, cols, passing)  BY <1>4, <2>3
    <3>2. ~ PushdownFails(df, pred, cols)  BY <1>2, <1>3, <2>3
    <3>3. S # {} /\ Ordered(df) /\ Exact(df, S)  BY <1>2, <1>3, <2>3
    <3>4. S \in SUBSET (Nat \X Nat)  BY <1>3, SmallPairs DEF IInv
    <3>5. Exact(new, {p \in S : pred = None \/ p \in passing})
      BY <3>1, <3>2, <3>3, <3>4, ExactPushdown
    <3>6. Due(w) = {p \in S : pred = None \/ p \in passing}  BY <1>3, <2>3 DEF Due, Wants
    <3>7. DOMAIN new = IF cols = {} THEN DOMAIN df ELSE cols
      BY <3>1, <3>2, <3>3, PushdownOrdered
    <3> QED  BY <1>2, <2>3, <3>3, <3>5, <3>6, <3>7
  <2> QED  BY <2>1, <2>2, <2>3
<1>11. OutExact(v)'
  <2>1. out'[v] = new /\ column_keys'[v] = column_keys[w]  BY <1>7, <1>8, <1>9
  <2>2. Exact(new, Due(v))  BY <1>8, <1>10
  <2> QED  BY <1>3, <1>9, <1>10, <2>1, <2>2 DEF OutExact
<1> QED  BY <1>5, <1>8, <1>11

LEMMA ErrorsStep ==
  ASSUME IInv, NoColumns, FramesInOrder, UniformExact, Uniform, NEW w \in Active(N), Step(w)
  PROVE  ErrorsReal'
<1>1. /\ faults' = faults /\ Active(N)' = Active(N) /\ w \in Worker
      /\ error \in [Worker -> ErrorKinds \cup {None}]
  BY StepKeeps, Sizes DEF callVars, scanned, IInv, TypeOK
<1>2. ErrorsReal  BY DEF UniformExact
<1>3. \/ error' = error
      \/ faults # {} /\ \E kind : error' = [error EXCEPT ![w] = kind]
  <2>1. CASE CloneHandle(w)  BY <2>1 DEF CloneHandle, Fail
  <2>2. CASE ReadFrame(w)  BY <2>2 DEF ReadFrame, Fail
  <2>3. ~ BadLine(w)
    <3>1. SUFFICES ASSUME BadLine(w) PROVE FALSE  OBVIOUS
    <3>2. pc[w] = "line" /\ line[w] <= Len(text[frame[w]]) /\ text[frame[w]][line[w]].kind = "bad"
      BY <3>1 DEF BadLine, HasLine, LineAt, Here
    <3>3. frame[w] \in Chunk(N, w)  BY <3>2 DEF IInv, Placed
    <3>4. frame[w] \in 1..N  BY <3>3, ChunkFrames, Sizes DEF IInv
    <3>5. line[w] \in 1..Len(text[frame[w]])
      <4>1. line[w] \in Nat \ {0} /\ Len(text[frame[w]]) \in Nat
        BY <1>1, <3>4, Sizes DEF IInv, TypeOK
      <4> QED  BY <3>2, <4>1
    <3> QED  BY <3>2, <3>4, <3>5 DEF Uniform
  <2>4. CASE ToDf(w)
    <3>1. CASE opts.aligned  BY <2>4, <3>1, ExactToDf
    <3>2. CASE ~ opts.aligned
      <4>1. column_keys[w] = {}  BY <1>1, <3>2 DEF NoColumns
      <4>2. DOMAIN Emitted(maker[w], column_keys[w]) = {}  BY <4>1 DEF Emitted
      <4>3. Rectangular(Emitted(maker[w], column_keys[w]))  BY <4>2 DEF Rectangular
      <4> QED  BY <2>4, <4>2, <4>3 DEF ToDf
    <3> QED  BY <3>1, <3>2
  <2>5. CASE ~ (CloneHandle(w) \/ ReadFrame(w) \/ BadLine(w) \/ ToDf(w))
    BY <2>5 DEF Step, SkipTask, LeaveFrame, SkipLine, TakeRow, RefuseRow, EndFrame, SaveError
  <2> QED  BY <2>1, <2>2, <2>3, <2>4, <2>5
<1>4. saved' = saved \/ saved' = error[w]
  BY DEF Step, CloneHandle, SkipTask, LeaveFrame, ReadFrame, SkipLine, BadLine,
         TakeRow, RefuseRow, EndFrame, ToDf, SaveError
<1>5. \A v \in Active(N) : error'[v] # None => faults # {}
  BY <1>1, <1>2, <1>3 DEF ErrorsReal
<1>6. saved' # None => faults # {}  BY <1>2, <1>4 DEF ErrorsReal
<1> QED  BY <1>1, <1>5, <1>6 DEF ErrorsReal

LEMMA UniformSame ==
  ASSUME text' = text, opts' = opts
  PROVE  (Uniform' <=> Uniform) /\ (DistinctKeys' <=> DistinctKeys) /\ Accepted' = Accepted /\ N' = N
<1>1. Accepted' = Accepted /\ N' = N  BY DEF Accepted, N, RowAt
<1>2. DistinctKeys' <=> DistinctKeys  BY <1>1 DEF DistinctKeys, KeysOf, LineAt
<1>3. Asked' = Asked  BY DEF Asked
<1>4. \A p : KeysOf(p)' = KeysOf(p)  BY DEF KeysOf, LineAt
<1> QED  BY <1>1, <1>2, <1>3, <1>4 DEF Uniform

LEMMA UniformStep ==
  ASSUME IInv, NoColumns, FramesInOrder, UniformExact, NEW w \in Active(N), Step(w)
  PROVE  UniformExact'
<1>1. /\ text' = text /\ opts' = opts /\ call' = call /\ Active(N)' = Active(N)
  BY StepKeeps DEF callVars, scanned
<1>2. Uniform' <=> Uniform  BY <1>1, UniformSame
<1>3. DOMAIN column_keys' = Worker /\ DOMAIN first_row' = Worker
  BY DEF Step, CloneHandle, SkipTask, LeaveFrame, ReadFrame, SkipLine, BadLine,
         TakeRow, RefuseRow, EndFrame, ToDf, SaveError, UniformExact
<1>4. call' \notin Answers  BY <1>1, StepRunning DEF Answers
<1>5. ASSUME Uniform, opts.aligned, NEW v \in Active(N)
      PROVE  MakerExact(v)' /\ OutExact(v)'
  <2>0. PerWorker  BY DEF FramesInOrder
  <2>1. CASE v # w  BY <1>5, <2>0, <2>1, ExactKept
  <2>2. CASE v = w
    <3>1. PICK u \in Active(N) : u = w  OBVIOUS
    <3>2. Step(u)  BY <3>1
    <3>3. MakerExact(u)'  BY <1>5, <2>0, <3>2, ExactKept, ExactTakeRow
    <3>4. OutExact(u)'  BY <1>5, <2>0, <3>2, ExactKept, ExactToDf
    <3> QED  BY <2>2, <3>1, <3>3, <3>4
  <2> QED  BY <2>1, <2>2
<1>6. ASSUME Uniform, opts.aligned
      PROVE  (\A v \in Active(N) : MakerExact(v) /\ OutExact(v))'
  BY <1>1, <1>5, <1>6
<1>7. Uniform => ErrorsReal'  BY ErrorsStep
<1>8. ExactOnUniformText'  BY <1>4 DEF ExactOnUniformText
<1> QED  BY <1>1, <1>2, <1>3, <1>6, <1>7, <1>8 DEF UniformExact

-----------------------------------------------------------------------------
(* The answer.                                                             *)

(* The frame of a worker that is done.                                     *)
LEMMA OutFacts ==
  ASSUME IInv, FramesInOrder, UniformExact, Uniform, opts.aligned, NEW w \in Active(N),
         pc[w] = "done", NEW df, df = out[w]
  PROVE  /\ Ordered(df) /\ Exact(df, Due(w)) /\ Height(df) \in Nat
         /\ Height(df) > 0 <=> Due(w) # {}
         /\ Due(w) # {} => \A p \in Accepted :
              DOMAIN df = IF ~ Capped /\ opts.columns # {} THEN opts.columns ELSE KeysOf(p)
<1>1. MakerExact(w) /\ OutExact(w)  BY DEF UniformExact
<1>2. Ordered(df)  BY DEF FramesInOrder, OutInOrder, Uniform
<1>3. Height(df) \in Nat /\ \A k \in DOMAIN df : Len(df[k]) = Height(df)
  BY <1>2, HeightIs DEF Ordered
<1>4. /\ Exact(df, Due(w))
      /\ DOMAIN df = IF ~ Capped /\ Own(w) # {} /\ opts.columns # {}
                       THEN opts.columns ELSE column_keys[w]
  BY <1>1 DEF OutExact
<1>5. Due(w) \subseteq Own(w) /\ Own(w) \subseteq Accepted  BY DEF Due, Own, IInv
<1>6. ASSUME Own(w) # {}, NEW p \in Accepted
      PROVE  /\ DOMAIN df = IF ~ Capped /\ opts.columns # {} THEN opts.columns ELSE KeysOf(p)
             /\ DOMAIN df # {}
  <2>1. column_keys[w] = KeysOf(p)  BY <1>1, <1>6 DEF MakerExact
  <2>2. KeysOf(p) # {}  BY <1>6, UniformRows DEF IInv
  <2> QED  BY <1>4, <1>6, <2>1, <2>2
<1>7. ASSUME Due(w) # {} PROVE Height(df) > 0
  <2>1. DOMAIN df # {}  BY <1>5, <1>6, <1>7
  <2>2. PICK k \in DOMAIN df, p \in Due(w) : TRUE  BY <1>7, <2>1
  <2>3. \E a \in 1..Len(df[k]) : p = df[k][a]  BY <1>4, <2>2 DEF Exact
  <2> QED  BY <1>3, <2>2, <2>3
<1>8. ASSUME Due(w) = {} PROVE ~ (Height(df) > 0)
  <2>1. CASE DOMAIN df = {}  BY <2>1 DEF Height
  <2>2. CASE DOMAIN df # {}
    <3>1. PICK k \in DOMAIN df : TRUE  BY <2>2
    <3>2. \A a \in 1..Len(df[k]) : FALSE  BY <1>4, <1>8, <3>1 DEF Exact
    <3>3. PICK h \in Nat : h = Height(df) /\ Len(df[k]) = h  BY <1>3, <3>1
    <3>4. h > 0 => 1 \in 1..h  OBVIOUS
    <3> QED  BY <3>2, <3>3, <3>4
  <2> QED  BY <2>1, <2>2
<1> QED  BY <1>2, <1>3, <1>4, <1>5, <1>6, <1>7, <1>8

LEMMA AcceptedFinite ==
  ASSUME TypeOK
  PROVE  IsFiniteSet(Accepted)
<1>1. N \in Nat /\ \A f \in 1..N : Len(text[f]) \in Nat  BY Sizes
<1> DEFINE rowsOf(f) == {<<f, l>> : l \in {i \in 1..Len(text[f]) : RowAt(f, i)}}
           all == {rowsOf(f) : f \in 1..N}
<1>2. IsFiniteSet(1..N)
  <2>1. PICK n \in Nat : n = N  BY <1>1
  <2>2. IsFiniteSet(1..n)  BY FS_Interval
  <2> QED  BY <2>1, <2>2
<1>3. [f \in 1..N |-> rowsOf(f)] \in Surjection(1..N, all)  BY DEF Surjection
<1>4. IsFiniteSet(all)  BY <1>2, <1>3, FS_Surjection
<1>5. ASSUME NEW f \in 1..N PROVE IsFiniteSet(rowsOf(f))
  <2> DEFINE ls == {i \in 1..Len(text[f]) : RowAt(f, i)}
  <2>1. PICK n \in Nat : n = Len(text[f])  BY <1>1
  <2>2. IsFiniteSet(1..n)  BY FS_Interval
  <2>3. IsFiniteSet(ls)
    <3>1. ls \in SUBSET (1..n)  BY <2>1
    <3> QED  BY <2>2, <3>1, FS_Subset
  <2>4. [l \in ls |-> <<f, l>>] \in Surjection(ls, rowsOf(f))  BY DEF Surjection
  <2> QED  BY <2>3, <2>4, FS_Surjection
<1>6. IsFiniteSet(UNION all)  BY <1>4, <1>5, FS_UNION
<1> QED  BY <1>6 DEF Accepted

LEMMA TakenOwned ==
  ASSUME IInv, MaxInflight > 0 \/ Workers(N) > 0
  PROVE  \A p \in Accepted : p \in taken => \E w \in Active(N) : p \in Own(w)
<1> SUFFICES ASSUME NEW p \in Accepted, p \in taken PROVE \E w \in Active(N) : p \in Own(w)
  OBVIOUS
<1>1. N \in Nat /\ p[1] \in 1..N  BY AcceptedPairs, Sizes DEF IInv
<1>2. N > 0  BY <1>1
<1>3. Workers(N) > 0  BY <1>1, <1>2, DealAssumption DEF Workers, LeastOf
<1> QED  BY <1>1, <1>3, ChunksCover DEF Own

LEMMA DeclinedRight ==
  ASSUME IInv, FramesInOrder, UniformExact, Uniform, opts.aligned, MaxInflight > 0,
         CollectNothing
  PROVE  IF Capped THEN Accepted = {} \/ opts.n_rows = 0
         ELSE \A p \in Accepted : opts.predicate # None /\ ~ LineAt(p).passes
<1>1. Finished /\ saved = None /\ (Parts = {} \/ ~ SameColumns)  BY DEF CollectNothing
<1>2. \A w \in Active(N) : pc[w] = "done"  BY <1>1 DEF IInv, ErrorSaved, Finished
<1>3. \A w \in Active(N) : /\ Height(out[w]) > 0 <=> Due(w) # {}
                           /\ Due(w) # {} => \A p \in Accepted : DOMAIN out[w] =
                                IF ~ Capped /\ opts.columns # {} THEN opts.columns ELSE KeysOf(p)
  BY <1>2, OutFacts
<1>4. \A w \in Active(N) : Due(w) \subseteq Accepted /\ Own(w) \subseteq taken
  BY DEF Due, Own, IInv
<1>5. SameColumns
  <2> SUFFICES ASSUME NEW v \in Parts, NEW w \in Parts PROVE DOMAIN out[v] = DOMAIN out[w]
    BY DEF SameColumns
  <2>1. v \in Active(N) /\ w \in Active(N) /\ Due(v) # {} /\ Due(w) # {}
    BY <1>3 DEF Parts
  <2>2. PICK p \in Accepted : TRUE  BY <1>4, <2>1
  <2> QED  BY <1>3, <2>1, <2>2
<1>6. \A w \in Active(N) : Due(w) = {}  BY <1>1, <1>2, <1>3, <1>5 DEF Parts
<1>7. Accepted = {} \/ taken = Accepted \/ (Capped /\ Cardinality(taken) = opts.n_rows)
  <2>1. CASE Accepted = {}  BY <2>1
  <2>2. CASE Accepted # {}
    <3>1. PICK p \in Accepted : TRUE  BY <2>2
    <3>2. N \in Nat /\ p[1] \in 1..N  BY AcceptedPairs, Sizes DEF IInv
    <3>3. N > 0  BY <3>2
    <3>4. Workers(N) > 0  BY <3>2, <3>3, DealAssumption DEF Workers, LeastOf
    <3> QED  BY <1>1, <3>4, NothingLeft
  <2> QED  BY <2>1, <2>2
<1>8. CASE Capped
  <2>1. \A w \in Active(N) : Own(w) = {}  BY <1>6, <1>8 DEF Due
  <2>2. taken = {}  BY <2>1, TakenOwned DEF IInv
  <2>3. Cardinality(taken) = 0  BY <2>2, FS_EmptySet
  <2> QED  BY <1>7, <1>8, <2>2, <2>3
<1>9. CASE ~ Capped
  <2> SUFFICES ASSUME NEW p \in Accepted PROVE opts.predicate # None /\ ~ LineAt(p).passes
    BY <1>9
  <2>1. p \in taken  BY <1>7, <1>9
  <2>2. PICK w \in Active(N) : p \in Own(w)  BY <2>1, TakenOwned
  <2>3. ~ Wants(p)  BY <1>6, <1>9, <2>2 DEF Due
  <2> QED  BY <2>1, <2>3 DEF Wants, Passing
<1> QED  BY <1>8, <1>9

LEMMA FrameRight ==
  ASSUME IInv, FramesInOrder, UniformExact, Uniform, opts.aligned, CollectFrame
  PROVE  /\ call' = "frame"
         /\ Cardinality(taken) = IF Capped THEN LeastOf(opts.n_rows, Cardinality(Accepted))
                                           ELSE Cardinality(Accepted)
         /\ UNION {RowLines(batch', i) : i \in 1..Height(batch')} = Wanted
         /\ Height(batch') = Cardinality(Wanted)
<1>1. Finished /\ saved = None /\ Parts # {} /\ SameColumns  BY DEF CollectFrame
<1>2. \A w \in Active(N) : pc[w] = "done"  BY <1>1 DEF IInv, ErrorSaved, Finished
<1>3. PICK n \in Nat : n = N  BY Sizes DEF IInv
<1>4. PICK P, o, E : P = Parts /\ o = out /\ E = [w \in Active(N) |-> Due(w)]  OBVIOUS
<1>5. \A w \in Active(n) : /\ Ordered(o[w]) /\ Exact(o[w], E[w])
                           /\ Height(o[w]) > 0 <=> E[w] # {}
                           /\ E[w] # {} => \A p \in Accepted : DOMAIN o[w] =
                                IF ~ Capped /\ opts.columns # {} THEN opts.columns ELSE KeysOf(p)
                           /\ E[w] = Due(w)
  BY <1>2, <1>3, <1>4, OutFacts
<1>6. P \in SUBSET Active(n) /\ \A w \in Active(n) : w \in P <=> E[w] # {}
  BY <1>2, <1>3, <1>4, <1>5 DEF Parts
<1>7. Workers(N) > 0
  <2>1. PICK w \in Active(N) : TRUE  BY <1>1 DEF Parts
  <2> QED  BY <1>3, <2>1, ActiveWorkers
<1>8. taken = Accepted \/ (Capped /\ Cardinality(taken) = opts.n_rows)
  BY <1>1, <1>7, NothingLeft
<1>9. Cardinality(taken) = IF Capped THEN LeastOf(opts.n_rows, Cardinality(Accepted))
                                     ELSE Cardinality(Accepted)
  <2>1. taken \in SUBSET Accepted /\ IsFiniteSet(taken) /\ IsFiniteSet(Accepted)
    BY AcceptedFinite DEF IInv, TypeOK
  <2>2. Cardinality(taken) <= Cardinality(Accepted)  BY <2>1, FS_Subset
  <2>3. Cardinality(taken) \in Nat /\ Cardinality(Accepted) \in Nat  BY <2>1, FS_CardinalityType
  <2>4. Capped => Cardinality(taken) <= opts.n_rows /\ opts.n_rows \in Nat
    <3>1. SUFFICES ASSUME Capped PROVE Cardinality(taken) <= opts.n_rows /\ opts.n_rows \in Nat
      OBVIOUS
    <3>2. opts.n_rows \in Nat /\ slots \in Nat  BY <3>1, Sizes DEF IInv, TypeOK
    <3>3. Cardinality(taken) = LeastOf(slots, opts.n_rows)  BY <3>1 DEF IInv, SliceRespected
    <3> QED  BY <3>2, <3>3 DEF LeastOf
  <2> QED  BY <1>8, <2>2, <2>3, <2>4 DEF LeastOf
<1>10. PICK acc, all : acc = Accumulated /\ all = UNION {E[w] : w \in P}  OBVIOUS
<1>11. acc = Joined(P, o)  BY <1>4, <1>10, AccumulatedIs
<1>12. /\ \A v, w \in P : DOMAIN o[v] = DOMAIN o[w]
       /\ \A w \in P : Ordered(o[w]) /\ \A p \in CellsOf(o[w]) : p[1] \in Chunk(n, w)
  <2>1. \A v, w \in P : DOMAIN o[v] = DOMAIN o[w]  BY <1>1, <1>4 DEF SameColumns
  <2>2. \A w \in P : \A p \in CellsOf(o[w]) : p[1] \in Chunk(n, w)
    BY <1>3, <1>4, <1>6 DEF FramesInOrder, OutInOrder, Own, Uniform
  <2> QED  BY <1>5, <1>6, <2>1, <2>2
<1>13. /\ Ordered(acc)
       /\ \A w \in P : DOMAIN acc = DOMAIN o[w]
       /\ \A k \in DOMAIN Joined(P, o) : Len(Joined(P, o)[k]) = Cardinality(RowsOf(P, o))
  <2>1. Ordered(Joined(P, o))  BY <1>6, <1>12, JoinedOrdered
  <2>2. \A w \in P : DOMAIN Joined(P, o) = DOMAIN o[w]
    <3> TAKE w \in P
    <3>1. DOMAIN Joined(P, o) = UNION {DOMAIN o[v] : v \in P}  BY DEF Joined
    <3> QED  BY <1>12, <3>1
  <2>3. \A k \in DOMAIN Joined(P, o) : Len(Joined(P, o)[k]) = Cardinality(RowsOf(P, o))
    BY <1>6, <1>12, JoinedOrdered
  <2> QED  BY <1>11, <2>1, <2>2, <2>3
<1>14. Exact(acc, all)
  <2>1. \A w \in P : Ordered(o[w]) /\ Exact(o[w], E[w])  BY <1>5, <1>6
  <2> QED  BY <1>6, <1>10, <1>11, <1>12, <1>13, <2>1, ExactJoined
<1>15. all = IF Capped THEN taken ELSE Wanted
  <2>1. ASSUME NEW p \in all PROVE p \in taken /\ (~ Capped => p \in Wanted)
    <3>1. PICK w \in P : p \in Due(w)  BY <1>5, <1>6, <1>10
    <3>2. p \in taken /\ (~ Capped => Wants(p))  BY <3>1 DEF Due, Own
    <3> QED  BY <3>2 DEF Wanted, Wants
  <2>2. ASSUME NEW p \in taken, ~ Capped => p \in Wanted PROVE p \in all
    <3>1. PICK w \in Active(N) : p \in Own(w)  BY <1>7, TakenOwned DEF IInv
    <3>2. p \in Due(w)  BY <2>2, <3>1 DEF Due, Wanted, Wants
    <3>3. E[w] # {} /\ p \in E[w]  BY <1>3, <1>5, <3>2
    <3> QED  BY <1>3, <1>6, <1>10, <3>3
  <2>3. Wanted \subseteq taken  BY DEF Wanted
  <2> QED  BY <2>1, <2>2, <2>3
<1>16. all \in SUBSET (Nat \X Nat) /\ all # {}
  <2>1. all \subseteq taken  BY <1>15 DEF Wanted
  <2>2. PICK w \in P : E[w] # {}  BY <1>1, <1>4, <1>6
  <2> QED  BY <1>10, <2>1, <2>2 DEF IInv, TypeOK
<1>17. PICK p \in Accepted : p \in all
  <2>1. all \subseteq taken  BY <1>15 DEF Wanted
  <2> QED  BY <1>16, <2>1 DEF IInv
<1>18. KeysOf(p) # {} /\ Asked \subseteq KeysOf(p)  BY <1>17, UniformRows DEF IInv
<1>19. DOMAIN acc = IF ~ Capped /\ opts.columns # {} THEN opts.columns ELSE KeysOf(p)
  <2>1. PICK w \in P : TRUE  BY <1>1, <1>4
  <2> QED  BY <1>5, <1>6, <1>13, <1>17, <2>1
<1>20. DOMAIN acc # {}  BY <1>18, <1>19
<1>21. CASE ~ Capped
  <2>1. batch' = acc /\ call' = "frame"  BY <1>10, <1>21 DEF CollectFrame
  <2>2. /\ UNION {RowLines(acc, i) : i \in 1..Height(acc)} = all
        /\ Height(acc) = Cardinality(all)
    BY <1>13, <1>14, <1>16, <1>20, ExactRows
  <2> QED  BY <1>9, <1>15, <1>21, <2>1, <2>2
<1>22. CASE Capped
  <2>1. PICK pred, cols, passing : /\ pred = opts.predicate /\ cols = opts.columns
                                   /\ passing = Passing
    OBVIOUS
  <2>2. ~ PushdownFails(acc, pred, cols)
    BY <1>18, <1>19, <1>22, <2>1 DEF PushdownFails, Asked
  <2>3. PICK new : new = ApplyPushdown(acc, pred, cols, passing)  OBVIOUS
  <2>4. batch' = new /\ call' = "frame"  BY <1>10, <1>22, <2>1, <2>2, <2>3 DEF CollectFrame
  <2>5. Ordered(new) /\ DOMAIN new = IF cols = {} THEN DOMAIN acc ELSE cols
    BY <1>13, <2>2, <2>3, PushdownOrdered
  <2>6. PICK due : due = {q \in all : pred = None \/ q \in passing}  OBVIOUS
  <2>7. Exact(new, due)  BY <1>13, <1>14, <1>16, <2>2, <2>3, <2>6, ExactPushdown
  <2>8. due = Wanted /\ due \in SUBSET (Nat \X Nat)
    BY <1>15, <1>16, <1>22, <2>1, <2>6 DEF Wanted
  <2>9. DOMAIN new # {}  BY <1>20, <2>5
  <2>10. /\ UNION {RowLines(new, i) : i \in 1..Height(new)} = due
         /\ Height(new) = Cardinality(due)
    BY <2>5, <2>7, <2>8, <2>9, ExactRows
  <2> QED  BY <1>9, <1>22, <2>4, <2>8, <2>10
<1> QED  BY <1>21, <1>22

LEMMA UniformCaller ==
  ASSUME IInv, NoColumns, FramesInOrder, UniformExact, Begin \/ Collect
  PROVE  UniformExact'
<1>1. /\ text' = text /\ opts' = opts /\ taken' = taken /\ maker' = maker /\ out' = out
      /\ column_keys' = column_keys /\ first_row' = first_row /\ pc' = pc /\ faults' = faults
      /\ error' = error /\ saved' = saved
  BY DEF Begin, Collect, CollectError, CollectNothing, CollectFrame, scanned, workerVars
<1>2. (Uniform' <=> Uniform) /\ Accepted' = Accepted /\ N' = N  BY <1>1, UniformSame
<1>3. /\ Passing' = Passing /\ (Capped' <=> Capped) /\ Wanted' = Wanted
      /\ \A p : KeysOf(p)' = KeysOf(p) /\ LineAt(p)' = LineAt(p) /\ (Wants(p)' <=> Wants(p))
  <2>1. \A p : LineAt(p)' = LineAt(p)  BY <1>1 DEF LineAt
  <2>2. Passing' = Passing  BY <1>1 DEF Passing, LineAt
  <2> QED  BY <1>1, <2>1, <2>2 DEF Capped, KeysOf, LineAt, Wanted, Wants
<1>4. \A w : Own(w)' = Own(w) /\ Due(w)' = Due(w)
  <2>1. \A w : Own(w)' = Own(w)  BY <1>1, <1>2 DEF Own
  <2> QED  BY <1>3, <2>1 DEF Due
<1>5. \A w : (MakerExact(w)' <=> MakerExact(w)) /\ (OutExact(w)' <=> OutExact(w))
  BY <1>1, <1>2, <1>3, <1>4 DEF MakerExact, OutExact
<1>6. ErrorsReal' <=> ErrorsReal  BY <1>1, <1>2 DEF ErrorsReal
<1>7. ASSUME call' \in Answers, Uniform PROVE ExactOnUniformText'
  <2>1. CASE Begin
    <3>1. /\ call' = "failed" => faults # {}
          /\ call' = "declined" => N = 0 \/ Workers(N) = 0
          /\ call' # "frame"
      BY <2>1 DEF Begin
    <3>2. MaxInflight > 0 /\ (N = 0 \/ Workers(N) = 0) => Accepted = {}
      <4>1. SUFFICES ASSUME MaxInflight > 0, N = 0 \/ Workers(N) = 0, NEW p \in Accepted
                     PROVE  FALSE
        OBVIOUS
      <4>2. N \in Nat /\ p[1] \in 1..N  BY AcceptedPairs, Sizes DEF IInv
      <4>3. N > 0  BY <4>2
      <4>4. Workers(N) > 0  BY <4>1, <4>2, <4>3, DealAssumption DEF Workers, LeastOf
      <4> QED  BY <4>1, <4>2, <4>3, <4>4
    <3> QED  BY <1>1, <1>2, <1>3, <3>1, <3>2 DEF ExactOnUniformText
  <2>2. CASE CollectError
    <3>1. saved # None /\ call' # "frame"  BY <2>2 DEF CollectError
    <3>2. faults # {}  BY <1>7, <3>1 DEF UniformExact, ErrorsReal
    <3> QED  BY <1>1, <3>1, <3>2 DEF ExactOnUniformText
  <2>3. CASE CollectNothing
    <3>1. call' = "declined"  BY <2>3 DEF CollectNothing
    <3>2. opts.aligned /\ MaxInflight > 0 =>
            IF Capped THEN Accepted = {} \/ opts.n_rows = 0
            ELSE \A p \in Accepted : opts.predicate # None /\ ~ LineAt(p).passes
      BY <1>7, <2>3, DeclinedRight
    <3> QED  BY <1>1, <1>2, <1>3, <3>1, <3>2 DEF ExactOnUniformText
  <2>4. CASE CollectFrame
    <3>1. opts.aligned
      <4>1. SUFFICES ASSUME ~ opts.aligned PROVE FALSE  OBVIOUS
      <4>2. Height(EmptyFrame) = 0  BY DEF Height, EmptyFrame
      <4>3. \A w \in Active(N) : out[w] = EmptyFrame  BY <4>1, Sizes DEF NoColumns, IInv
      <4> QED  BY <2>4, <4>2, <4>3 DEF CollectFrame, Parts
    <3>2. PICK new : new = batch'  OBVIOUS
    <3>3. /\ call' = "frame"
          /\ Cardinality(taken) = IF Capped THEN LeastOf(opts.n_rows, Cardinality(Accepted))
                                            ELSE Cardinality(Accepted)
          /\ UNION {RowLines(new, i) : i \in 1..Height(new)} = Wanted
          /\ Height(new) = Cardinality(Wanted)
      BY <1>7, <2>4, <3>1, <3>2, FrameRight
    <3> QED  BY <1>1, <1>2, <1>3, <3>2, <3>3 DEF ExactOnUniformText
  <2> QED  BY <2>1, <2>2, <2>3, <2>4 DEF Collect
<1>8. ExactOnUniformText'  BY <1>2, <1>7 DEF ExactOnUniformText, Answers
<1> QED  BY <1>1, <1>2, <1>5, <1>6, <1>8 DEF UniformExact

LEMMA UniformStutter ==
  ASSUME UniformExact, UNCHANGED vars
  PROVE  UniformExact'
<1>1. /\ text' = text /\ opts' = opts /\ taken' = taken /\ maker' = maker /\ out' = out
      /\ column_keys' = column_keys /\ first_row' = first_row /\ pc' = pc /\ faults' = faults
      /\ error' = error /\ saved' = saved /\ call' = call /\ batch' = batch
  BY DEF vars, callVars, scanned, workerVars
<1>2. (Uniform' <=> Uniform) /\ Accepted' = Accepted /\ N' = N  BY <1>1, UniformSame
<1>3. /\ Passing' = Passing /\ (Capped' <=> Capped) /\ Wanted' = Wanted
      /\ \A p : KeysOf(p)' = KeysOf(p) /\ LineAt(p)' = LineAt(p) /\ (Wants(p)' <=> Wants(p))
  <2>1. \A p : LineAt(p)' = LineAt(p)  BY <1>1 DEF LineAt
  <2>2. Passing' = Passing  BY <1>1 DEF Passing, LineAt
  <2> QED  BY <1>1, <2>1, <2>2 DEF Capped, KeysOf, LineAt, Wanted, Wants
<1>4. \A w : Own(w)' = Own(w) /\ Due(w)' = Due(w)
  <2>1. \A w : Own(w)' = Own(w)  BY <1>1, <1>2 DEF Own
  <2> QED  BY <1>3, <2>1 DEF Due
<1>5. \A w : (MakerExact(w)' <=> MakerExact(w)) /\ (OutExact(w)' <=> OutExact(w))
  BY <1>1, <1>2, <1>3, <1>4 DEF MakerExact, OutExact
<1>6. ErrorsReal' <=> ErrorsReal  BY <1>1, <1>2 DEF ErrorsReal
<1>7. ExactOnUniformText' <=> ExactOnUniformText
  BY <1>1, <1>2, <1>3 DEF ExactOnUniformText
<1> QED  BY <1>1, <1>2, <1>5, <1>6, <1>7 DEF UniformExact

(* A log whose lines all carry the same keys comes back exactly, however   *)
(* many workers read it and whoever is quicker: each row that is due, and  *)
(* no other; it is declined only when there is none, and the scan fails    *)
(* only when a handle or a read does.                                      *)
THEOREM UniformTextIsExact == Spec => []ExactOnUniformText
<1>1. IInv /\ NoColumns /\ FramesInOrder /\ UniformExact /\ [Next]_vars => UniformExact'
  <2> SUFFICES ASSUME IInv, NoColumns, FramesInOrder, UniformExact, [Next]_vars
               PROVE  UniformExact'
    OBVIOUS
  <2>1. CASE Begin \/ Collect  BY <2>1, UniformCaller
  <2>2. CASE \E w \in Active(N) : Step(w)  BY <2>2, UniformStep
  <2>3. CASE UNCHANGED vars  BY <2>3, UniformStutter
  <2> QED  BY <2>1, <2>2, <2>3 DEF Next
<1>2. UniformExact => ExactOnUniformText  BY DEF UniformExact
<1> QED  BY <1>1, <1>2, UniformInit, Inductive, FramesKeepOrder, ColumnsStayEmpty, PTL DEF Spec
=============================================================================
