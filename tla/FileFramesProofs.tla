-------------------------- MODULE FileFramesProofs --------------------------
(***************************************************************************)
(* What a scan parses of a file that is written to, for any files, frames, *)
(* number of workers and whatever the writer does.                         *)
(***************************************************************************)
EXTENDS FileFrames, WellFoundedInduction, TLAPS

-----------------------------------------------------------------------------
(* The deal: what ParallelScanProofs says of it too.                       *)

LEMMA DivFacts ==
  ASSUME NEW a \in Nat, NEW b \in Nat \ {0}
  PROVE  /\ a \div b \in Nat
         /\ b * (a \div b) <= a
         /\ a < b * (a \div b) + b
<1>1. a \div b \in Int /\ a \div b >= 0  BY SMT
<1>2. b * (a \div b) <= a  BY SMT
<1>3. a < b * (a \div b) + b  BY SMT
<1> QED  BY <1>1, <1>2, <1>3

LEMMA MulStep ==
  ASSUME NEW a \in Nat, NEW b \in Nat, NEW c \in Nat, a < b
  PROVE  a * c + c <= b * c
<1>1. (b - a - 1) \in Nat  OBVIOUS
<1>2. (b - a - 1) * c >= 0  BY <1>1
<1>3. (b - a - 1) * c = b * c - a * c - c  OBVIOUS
<1>4. a * c \in Int /\ b * c \in Int  OBVIOUS
<1> QED  BY <1>2, <1>3, <1>4

(* Enough chunks of the computed size hold all the frames.                 *)
LEMMA DealSize ==
  ASSUME NEW n \in Nat, Workers(n) > 0
  PROVE  /\ Workers(n) \in Nat \ {0}
         /\ ChunkSize(n) \in Nat \ {0}
         /\ n <= Workers(n) * ChunkSize(n)
         /\ n > 0
<1>1. Workers(n) \in Nat \ {0} /\ n > 0 /\ Workers(n) <= n
  BY DealAssumption DEF Workers, LeastOf
<1>2. n + Workers(n) - 1 \in Nat  BY <1>1
<1>3. /\ ChunkSize(n) \in Nat
      /\ n + Workers(n) - 1 < Workers(n) * ChunkSize(n) + Workers(n)
  BY <1>1, <1>2, DivFacts DEF ChunkSize
<1>4. n <= Workers(n) * ChunkSize(n)
  <2> DEFINE W == Workers(n)  P == Workers(n) * ChunkSize(n)
  <2>1. W \in Nat /\ P \in Nat /\ n + W - 1 < P + W  BY <1>1, <1>3
  <2> HIDE DEF W, P
  <2>2. n <= P  BY <2>1
  <2> QED  BY <2>2 DEF P
<1>5. ChunkSize(n) # 0  BY <1>1, <1>3, <1>4
<1> QED  BY <1>1, <1>3, <1>4, <1>5

LEMMA ActiveWorkers ==
  ASSUME NEW n \in Nat, NEW w \in Active(n)
  PROVE  /\ Workers(n) > 0
         /\ w \in Nat /\ w \in Worker /\ w < Workers(n)
         /\ FirstFrame(n, w) \in 1..n
         /\ LastFrame(n, w) \in FirstFrame(n, w)..n
<1>1. Workers(n) \in Int /\ w \in 0..(Workers(n) - 1) /\ w * ChunkSize(n) < n
  BY DealAssumption DEF Active, Workers, LeastOf
<1>2. Workers(n) > 0 /\ w \in Nat /\ w < Workers(n)  BY <1>1
<1>3. w \in Worker
  BY <1>1, <1>2, DealAssumption DEF Worker, Workers, LeastOf
<1>4. ChunkSize(n) \in Nat \ {0}  BY <1>2, DealSize
<1>5. w * ChunkSize(n) \in Nat  BY <1>2, <1>4
<1> QED  BY <1>1, <1>2, <1>3, <1>4, <1>5 DEF FirstFrame, LastFrame, LeastOf

(* No frame is dealt to two workers.                                       *)
THEOREM ChunksDisjoint ==
  ASSUME NEW n \in Nat, NEW v \in Active(n), NEW w \in Active(n),
         NEW f \in Chunk(n, v) \cap Chunk(n, w)
  PROVE  v = w
<1>1. Workers(n) > 0 /\ v \in Nat /\ w \in Nat  BY ActiveWorkers
<1>2. ChunkSize(n) \in Nat \ {0}  BY <1>1, DealSize
<1> DEFINE C == ChunkSize(n)  V == v * C  U == w * C
<1>3. V \in Nat /\ U \in Nat  BY <1>1, <1>2
<1>4. /\ V + 1 <= f /\ f <= LeastOf(V + C, n)
      /\ U + 1 <= f /\ f <= LeastOf(U + C, n)
      /\ f \in Int
  BY <1>3, <1>2 DEF Chunk, FirstFrame, LastFrame, LeastOf
<1>5. f <= V + C /\ f <= U + C  BY <1>2, <1>3, <1>4 DEF LeastOf
<1>6. v < w => V + C <= U  BY <1>1, <1>2, MulStep
<1>7. w < v => U + C <= V  BY <1>1, <1>2, MulStep
<1>8. C \in Nat /\ V < U + C /\ U < V + C  BY <1>2, <1>3, <1>4, <1>5
<1> HIDE DEF V, U, C
<1> QED  BY <1>1, <1>3, <1>6, <1>7, <1>8

(* Every frame is dealt to some worker.                                    *)
THEOREM ChunksCover ==
  ASSUME NEW n \in Nat, Workers(n) > 0, NEW f \in 1..n
  PROVE  \E w \in Active(n) : f \in Chunk(n, w)
<1> DEFINE C == ChunkSize(n)  W == Workers(n)  w == (f - 1) \div C
<1>1. C \in Nat \ {0} /\ W \in Nat \ {0} /\ n <= W * C  BY DealSize
<1>2. f - 1 \in Nat  OBVIOUS
<1>3. w \in Nat /\ C * w <= f - 1 /\ f - 1 < C * w + C  BY <1>1, <1>2, DivFacts
<1>4. C * w = w * C  BY <1>1, <1>3
<1>5. w < W
  <2>1. SUFFICES ASSUME W <= w PROVE FALSE  BY <1>1, <1>3
  <2>2. W * C <= w * C
    <3>1. CASE W = w  BY <3>1, <1>1, <1>3
    <3>2. CASE W < w  BY <3>2, <1>1, <1>3, MulStep
    <3> QED  BY <2>1, <3>1, <3>2, <1>1, <1>3
  <2> DEFINE P == W * C  Q == w * C
  <2>3. P \in Nat /\ Q \in Nat /\ n <= P /\ P <= Q /\ Q <= f - 1
    BY <1>1, <1>3, <1>4, <2>2
  <2> HIDE DEF P, Q, W, C, w
  <2> QED  BY <2>3
<1>6. w * C < n
  <2> DEFINE Q == w * C
  <2>1. Q \in Nat /\ Q <= f - 1  BY <1>1, <1>3, <1>4
  <2> HIDE DEF Q, w, C
  <2>2. Q < n  BY <2>1
  <2> QED  BY <2>2 DEF Q
<1>7. w \in Active(n)  BY <1>1, <1>3, <1>5, <1>6 DEF Active
<1>8. f \in Chunk(n, w)
  <2> DEFINE Q == w * C
  <2>1. Q \in Nat /\ Q <= f - 1 /\ f - 1 < Q + C  BY <1>1, <1>3, <1>4
  <2>2. FirstFrame(n, w) = Q + 1 /\ LastFrame(n, w) = LeastOf(Q + C, n)
    BY DEF FirstFrame, LastFrame
  <2> HIDE DEF Q, w
  <2> QED  BY <2>1, <2>2, <1>1 DEF Chunk, LeastOf
<1> QED  BY <1>7, <1>8

(* A chunk is an interval of frames.                                       *)
LEMMA ChunkFrames ==
  ASSUME NEW n \in Nat, NEW w \in Active(n)
  PROVE  /\ Chunk(n, w) \subseteq 1..n
         /\ FirstFrame(n, w) \in Chunk(n, w)
         /\ LastFrame(n, w) \in Chunk(n, w)
         /\ \A f \in Chunk(n, w) : f = LastFrame(n, w) \/ f + 1 \in Chunk(n, w)
         /\ \A f \in Chunk(n, w) : FirstFrame(n, w) <= f /\ f <= LastFrame(n, w)
<1>1. FirstFrame(n, w) \in 1..n /\ LastFrame(n, w) \in FirstFrame(n, w)..n
  BY ActiveWorkers
<1> QED  BY <1>1 DEF Chunk

-----------------------------------------------------------------------------
(* The inductive invariant.                                                *)

File == [lines : SUBSET Nat, len : Nat, table : Seq(Nat)]

Piece == [file : Nat, start : Nat, len : Nat]

TypeOK ==
  /\ files \in Seq(File) /\ Len(files) > 0
  /\ \A f \in 1..Len(files) : LET t == files[f].table IN
       \A i, j \in 1..Len(t) : i < j => t[i] <= t[j]
  /\ name \in 0..Len(files) /\ handle \in 1..Len(files)
  /\ shrunk \in BOOLEAN
  /\ size \in Nat /\ frames \in Seq(Frame)
  /\ pc \in [Worker -> {"idle", "frame", "bytes", "done", "failed", "skipped"}]
  /\ fd \in [Worker -> Nat] /\ at \in [Worker -> Nat] /\ got \in [Worker -> Nat]
  /\ pieces \in [Worker -> Seq(Piece)]

(* Frames lie one behind the other.                                        *)
Apart(fs) == \A i, j \in 1..Len(fs) : i < j => EndOf(fs[i]) <= fs[j].start

(* No worker starts before the frames are cut.                             *)
Pristine == call \in {"start", "probe", "cut"} => \A w \in Worker : pc[w] = "idle"

InWork(w) == pc[w] \in {"frame", "bytes"}

(* A piece is the start of a frame of the worker's chunk, one before the   *)
(* frame it has in work.                                                   *)
PieceOK(w, p) ==
  /\ p.file = fd[w] /\ p.file \in 1..Len(files)
  /\ ~ shrunk /\ p.len > 0 => EndOf(p) <= files[p.file].len
  /\ w \in Active(N)
  /\ \E f \in Chunk(N, w) : /\ p.start = frames[f].start /\ p.len <= frames[f].len
                            /\ InWork(w) => f < at[w]

WorkerOK(w) ==
  /\ pc[w] = "idle" => pieces[w] = <<>>
  /\ InWork(w) => w \in Active(N) /\ at[w] \in Chunk(N, w) /\ fd[w] \in 1..Len(files)
  /\ pc[w] = "bytes" =>
       /\ got[w] <= frames[at[w]].len
       /\ ~ shrunk /\ got[w] > 0 => frames[at[w]].start + got[w] <= files[fd[w]].len
  /\ \A i \in 1..Len(pieces[w]) : PieceOK(w, pieces[w][i])
  /\ \A i, j \in 1..Len(pieces[w]) : i < j => EndOf(pieces[w][i]) <= pieces[w][j].start

IInv == TypeOK /\ Apart(frames) /\ Pristine /\ \A w \in Worker : WorkerOK(w)

-----------------------------------------------------------------------------
(* Cuts and tables.                                                        *)

LEMMA GreatestIn ==
  ASSUME NEW b \in Nat, NEW S \in SUBSET (0..b), S # {}
  PROVE  \E d \in S : \A e \in S : e <= d
<1> DEFINE T == {b - d : d \in S}
<1>1. T \in SUBSET Nat /\ T # {}
  <2>1. \A d \in S : d \in Nat /\ d <= b  OBVIOUS
  <2>2. \A d \in S : b - d \in Nat  BY <2>1
  <2>3. PICK d \in S : TRUE  OBVIOUS
  <2> QED  BY <2>2, <2>3
<1> HIDE DEF T
<1>2. PICK k \in T : \A j \in T : ~ (<<j, k>> \in OpToRel(<, Nat))
  BY <1>1, NatLessThanWellFounded, WFMin
<1>3. \A j \in T : ~ (j < k)  BY <1>1, <1>2 DEF OpToRel
<1>4. PICK d \in S : k = b - d  BY DEF T
<1>5. \A e \in S : b - e \in T  BY DEF T
<1>6. \A e \in S : e <= d
  <2> TAKE e \in S
  <2>1. ~ (b - e < b - d)  BY <1>3, <1>4, <1>5
  <2> QED  BY <2>1
<1> QED  BY <1>6

(* A frame is cut behind its start, and in the file.                       *)
LEMMA CutEndBehind ==
  ASSUME NEW delims \in SUBSET Nat, NEW total \in Nat, NEW s \in Nat, s < total
  PROVE  /\ CutEnd(delims, total, s) \in Nat
         /\ s < CutEnd(delims, total, s) /\ CutEnd(delims, total, s) <= total
<1> DEFINE inside == {d \in delims : s <= d /\ d < s + MaxFrame}
<1>1. MaxFrame \in Nat /\ MaxFrame > 0  BY FrameAssumption
<1>2. CASE s + MaxFrame >= total  BY <1>1, <1>2 DEF CutEnd
<1>3. CASE ~ (s + MaxFrame >= total) /\ inside = {}  BY <1>1, <1>3 DEF CutEnd
<1>4. CASE ~ (s + MaxFrame >= total) /\ inside # {}
  <2> DEFINE m == CHOOSE d \in inside : \A e \in inside : e <= d
  <2>1. s + MaxFrame \in Nat /\ inside \in SUBSET (0..(s + MaxFrame))
    <3>1. \A d \in inside : d \in Nat /\ d < s + MaxFrame  OBVIOUS
    <3>2. s + MaxFrame \in Nat  BY <1>1
    <3>3. \A d \in inside : d \in 0..(s + MaxFrame)  BY <3>1, <3>2
    <3> QED  BY <3>2, <3>3
  <2>2. \E d \in inside : \A e \in inside : e <= d  BY <1>4, <2>1, GreatestIn
  <2>3. m \in inside  BY <2>2
  <2>4. CutEnd(delims, total, s) = 1 + m  BY <1>4 DEF CutEnd
  <2>5. m \in Nat /\ s <= m /\ m < s + MaxFrame  BY <2>3
  <2> HIDE DEF m, inside
  <2> QED  BY <1>1, <1>4, <2>4, <2>5
<1> QED  BY <1>2, <1>3, <1>4

(* A frame ends with the text, or behind the last line end in it.          *)
LEMMA CutEndWell ==
  ASSUME NEW ls \in SUBSET Nat, NEW len \in Nat, NEW total \in Nat, NEW s \in Nat,
         s < total, total <= len,
         NEW vis \in SUBSET Nat, \A d : d \in vis <=> d \in ls /\ d < len,
         NEW e, e = CutEnd(vis, total, s)
  PROVE  \/ e = total \/ e - 1 \in ls
         \/ /\ s + MaxFrame < total
            /\ \A d \in ls : ~ (s <= d /\ d < s + MaxFrame)
<1> DEFINE inside == {d \in vis : s <= d /\ d < s + MaxFrame}
<1>1. MaxFrame \in Nat /\ MaxFrame > 0  BY FrameAssumption
<1>2. CASE s + MaxFrame >= total  BY <1>2 DEF CutEnd
<1>3. CASE ~ (s + MaxFrame >= total) /\ inside = {}
  <2>1. ASSUME NEW d \in ls, s <= d, d < s + MaxFrame PROVE FALSE
    <3>1. d \in Nat /\ d < len  BY <1>1, <1>3, <2>1
    <3>2. d \in inside  BY <2>1, <3>1
    <3> QED  BY <1>3, <3>2
  <2>2. s + MaxFrame < total  BY <1>1, <1>3
  <2> QED  BY <2>1, <2>2
<1>4. CASE ~ (s + MaxFrame >= total) /\ inside # {}
  <2> DEFINE m == CHOOSE d \in inside : \A x \in inside : x <= d
  <2>1. s + MaxFrame \in Nat /\ inside \in SUBSET (0..(s + MaxFrame))
    <3>1. \A d \in inside : d \in Nat /\ d < s + MaxFrame  OBVIOUS
    <3>2. s + MaxFrame \in Nat  BY <1>1
    <3>3. \A d \in inside : d \in 0..(s + MaxFrame)  BY <3>1, <3>2
    <3> QED  BY <3>2, <3>3
  <2>2. \E d \in inside : \A x \in inside : x <= d  BY <1>4, <2>1, GreatestIn
  <2>3. m \in inside  BY <2>2
  <2>4. e = 1 + m  BY <1>4 DEF CutEnd
  <2>5. m \in Nat /\ m \in ls  BY <2>3
  <2> HIDE DEF m, inside
  <2> QED  BY <2>4, <2>5
<1> QED  BY <1>2, <1>3, <1>4

LEMMA TableApart ==
  ASSUME NEW t \in Seq(Nat), \A i, j \in 1..Len(t) : i < j => t[i] <= t[j]
  PROVE  TableFrames(t) \in Seq(Frame) /\ Apart(TableFrames(t))
<1> DEFINE fs == TableFrames(t)
           s(i) == IF i = 1 THEN 0 ELSE t[i - 1]
<1>1. Len(t) \in Nat /\ \A i \in 1..Len(t) : t[i] \in Nat  OBVIOUS
<1>2. ASSUME NEW i \in 1..Len(t) PROVE s(i) \in Nat /\ s(i) <= t[i]
  <2>1. i # 1 => i - 1 \in 1..Len(t) /\ i - 1 < i  BY <1>1
  <2> QED  BY <1>1, <2>1
<1>3. fs = [i \in 1..Len(t) |-> [start |-> s(i), len |-> IF t[i] > s(i) THEN t[i] - s(i) ELSE 0]]
  BY DEF TableFrames
<1>4. ASSUME NEW i \in 1..Len(t) PROVE [start |-> s(i), len |-> IF t[i] > s(i) THEN t[i] - s(i) ELSE 0] \in Frame
  BY <1>1, <1>2 DEF Frame
<1>5. fs \in Seq(Frame) /\ Len(fs) = Len(t)  BY <1>1, <1>3, <1>4
<1>6. ASSUME NEW i \in 1..Len(t) PROVE fs[i].start = s(i) /\ EndOf(fs[i]) = t[i]
  <2>1. fs[i] = [start |-> s(i), len |-> IF t[i] > s(i) THEN t[i] - s(i) ELSE 0]
    BY <1>3
  <2>2. t[i] \in Nat /\ s(i) \in Nat /\ s(i) <= t[i]  BY <1>1, <1>2
  <2> QED  BY <2>1, <2>2 DEF EndOf
<1>7. ASSUME NEW i \in 1..Len(t), NEW j \in 1..Len(t), i < j PROVE t[i] <= s(j)
  <2>1. j # 1 /\ j - 1 \in 1..Len(t) /\ (i = j - 1 \/ i < j - 1)  BY <1>1, <1>7
  <2>2. t[i] <= t[j - 1]  BY <1>1, <2>1
  <2> QED  BY <2>1, <2>2
<1> HIDE DEF fs, s
<1>8. Apart(fs)  BY <1>5, <1>6, <1>7 DEF Apart
<1> QED  BY <1>5, <1>8 DEF fs

-----------------------------------------------------------------------------
(* Steps that leave a worker alone.                                        *)

LEMMA Framed ==
  ASSUME TypeOK
  PROVE  /\ N \in Nat /\ Active(N) \subseteq Worker
         /\ \A i \in 1..N : /\ frames[i].start \in Nat /\ frames[i].len \in Nat
                            /\ EndOf(frames[i]) \in Nat
         /\ \A w \in Active(N) : Chunk(N, w) \subseteq 1..N
<1>1. N \in Nat /\ \A i \in 1..N : frames[i] \in Frame  BY DEF TypeOK, N
<1>2. \A i \in 1..N : /\ frames[i].start \in Nat /\ frames[i].len \in Nat
                      /\ EndOf(frames[i]) \in Nat
  BY <1>1 DEF Frame, EndOf
<1>3. \A w \in Active(N) : w \in Worker /\ Chunk(N, w) \subseteq 1..N
  BY <1>1, ActiveWorkers, ChunkFrames
<1> QED  BY <1>1, <1>2, <1>3

(* Files only grow in number, and each in length as long as none shrinks.  *)
FilesKept ==
  /\ Len(files') >= Len(files)
  /\ \A f \in 1..Len(files) : /\ files'[f].lines = files[f].lines
                              /\ files'[f].table = files[f].table
  /\ ~ shrunk' => /\ ~ shrunk
                  /\ \A f \in 1..Len(files) : files'[f].len >= files[f].len

LEMMA WorkerKept ==
  ASSUME IInv, TypeOK', FilesKept, frames' = frames, NEW w \in Worker,
         pc'[w] = pc[w], fd'[w] = fd[w], at'[w] = at[w], got'[w] = got[w],
         pieces'[w] = pieces[w]
  PROVE  WorkerOK(w)'
<1>1. TypeOK /\ WorkerOK(w)  BY DEF IInv
<1>2. N' = N /\ Active(N)' = Active(N) /\ Chunk(N, w)' = Chunk(N, w)
  BY DEF N, Active, Chunk, Workers, ChunkSize, FirstFrame, LastFrame
<1>3. Len(files) \in Nat /\ Len(files') \in Nat /\ fd[w] \in Nat /\ fd'[w] \in Nat
  BY <1>1 DEF TypeOK
<1>4. \A f \in 1..Len(files) : f \in 1..Len(files') /\ files[f].len \in Nat /\ files'[f].len \in Nat
  <2> TAKE f \in 1..Len(files)
  <2>1. f \in 1..Len(files')  BY <1>3 DEF FilesKept
  <2>2. files[f] \in File /\ files'[f] \in File  BY <1>1, <2>1 DEF TypeOK
  <2> QED  BY <2>1, <2>2 DEF File
<1>5. InWork(w)' = InWork(w)  BY DEF InWork
<1>6. ASSUME NEW p \in Piece, PieceOK(w, p) PROVE PieceOK(w, p)'
  <2>1. p.file = fd'[w] /\ p.file \in 1..Len(files')  BY <1>4, <1>6 DEF PieceOK
  <2>2. ASSUME ~ shrunk', p.len > 0 PROVE EndOf(p) <= files'[p.file].len
    <3>1. EndOf(p) <= files[p.file].len /\ files[p.file].len <= files'[p.file].len
      BY <1>6, <2>2 DEF PieceOK, FilesKept
    <3>2. EndOf(p) \in Nat  BY DEF Piece, EndOf
    <3>3. files[p.file].len \in Nat /\ files'[p.file].len \in Nat
      BY <1>4, <1>6 DEF PieceOK
    <3> QED  BY <3>1, <3>2, <3>3
  <2>3. w \in Active(N)' /\ \E f \in Chunk(N, w)' :
          /\ p.start = frames'[f].start /\ p.len <= frames'[f].len
          /\ InWork(w)' => f < at'[w]
    BY <1>2, <1>5, <1>6 DEF PieceOK
  <2> QED  BY <2>1, <2>2, <2>3 DEF PieceOK
<1>7. \A i \in 1..Len(pieces[w]) : pieces[w][i] \in Piece  BY <1>1 DEF TypeOK
<1>8. ASSUME NEW i \in 1..Len(pieces'[w]) PROVE PieceOK(w, pieces[w][i])'
  <2>1. PICK p \in Piece : p = pieces[w][i]  BY <1>7
  <2>2. p = pieces'[w][i] /\ PieceOK(w, p)  BY <1>1, <2>1 DEF WorkerOK
  <2>3. PieceOK(w, p)'  BY <1>6, <2>2
  <2> QED  BY <2>2, <2>3 DEF PieceOK
<1>9. pc'[w] = "bytes" =>
        /\ got'[w] <= frames'[at'[w]].len
        /\ ~ shrunk' /\ got'[w] > 0 => frames'[at'[w]].start + got'[w] <= files'[fd'[w]].len
  <2> SUFFICES ASSUME pc[w] = "bytes"
               PROVE  /\ got[w] <= frames[at[w]].len
                      /\ ~ shrunk' /\ got[w] > 0 =>
                           frames[at[w]].start + got[w] <= files'[fd[w]].len
    OBVIOUS
  <2>1. at[w] \in 1..N /\ fd[w] \in 1..Len(files)
    BY <1>1, Framed DEF WorkerOK, InWork
  <2>2. frames[at[w]].start + got[w] \in Nat
    <3>1. frames[at[w]].start \in Nat /\ got[w] \in Nat  BY <1>1, <2>1, Framed DEF TypeOK
    <3> QED  BY <3>1
  <2>3. ASSUME ~ shrunk', got[w] > 0 PROVE frames[at[w]].start + got[w] <= files'[fd[w]].len
    <3>1. /\ frames[at[w]].start + got[w] <= files[fd[w]].len
          /\ files[fd[w]].len <= files'[fd[w]].len
      BY <1>1, <2>1, <2>3 DEF WorkerOK, FilesKept
    <3>2. files[fd[w]].len \in Nat /\ files'[fd[w]].len \in Nat  BY <1>4, <2>1
    <3> QED  BY <2>2, <3>1, <3>2
  <2> QED  BY <1>1, <2>3 DEF WorkerOK
<1>10. InWork(w)' => w \in Active(N)' /\ at'[w] \in Chunk(N, w)' /\ fd'[w] \in 1..Len(files')
  BY <1>1, <1>2, <1>4, <1>5 DEF WorkerOK
<1>11. \A i, j \in 1..Len(pieces'[w]) : i < j => EndOf(pieces'[w][i]) <= pieces'[w][j].start
  BY <1>1 DEF WorkerOK
<1> QED  BY <1>1, <1>8, <1>9, <1>10, <1>11 DEF WorkerOK

-----------------------------------------------------------------------------
(* The steps of a worker.                                                  *)

(* The pieces of a worker that goes on to a later frame, or stops.         *)
LEMMA PiecesKept ==
  ASSUME TypeOK, NEW w \in Worker, WorkerOK(w), at'[w] \in Nat,
         UNCHANGED <<files, shrunk, frames>>, fd'[w] = fd[w],
         InWork(w)' => InWork(w) /\ at'[w] >= at[w],
         NEW i \in 1..Len(pieces[w])
  PROVE  PieceOK(w, pieces[w][i]) /\ pieces[w][i] \in Piece
         /\ \A p : p = pieces[w][i] => PieceOK(w, p)'
<1>1. N' = N /\ Active(N)' = Active(N) /\ Chunk(N, w)' = Chunk(N, w)
  BY DEF N, Active, Chunk, Workers, ChunkSize, FirstFrame, LastFrame
<1>2. PieceOK(w, pieces[w][i]) /\ pieces[w][i] \in Piece  BY DEF WorkerOK, TypeOK
<1>3. ASSUME NEW p, p = pieces[w][i] PROVE PieceOK(w, p)'
  <2>1. /\ p.file = fd[w] /\ p.file \in 1..Len(files) /\ w \in Active(N)
        /\ ~ shrunk /\ p.len > 0 => EndOf(p) <= files[p.file].len
    BY <1>2, <1>3 DEF PieceOK
  <2>2. PICK f \in Chunk(N, w) : /\ p.start = frames[f].start /\ p.len <= frames[f].len
                                 /\ InWork(w) => f < at[w]
    BY <1>2, <1>3 DEF PieceOK
  <2>3. f \in Nat /\ at[w] \in Nat  BY <2>1, <2>2, Framed DEF TypeOK
  <2>4. InWork(w)' => f < at'[w]  BY <2>2, <2>3
  <2>5. frames'[f] = frames[f] /\ f \in Chunk(N, w)'  BY <1>1, <2>2
  <2> QED  BY <1>1, <2>1, <2>2, <2>4, <2>5 DEF PieceOK
<1> QED  BY <1>2, <1>3

(* What is left to show of the worker that makes a step and parses nothing.*)
LEMMA OwnKept ==
  ASSUME TypeOK, NEW w \in Worker, WorkerOK(w), at'[w] \in Nat,
         UNCHANGED <<files, shrunk, frames>>, pieces'[w] = pieces[w],
         fd'[w] = fd[w] \/ pieces[w] = <<>>,
         fd'[w] = fd[w] => (InWork(w)' => InWork(w) /\ at'[w] >= at[w]) \/ pieces[w] = <<>>,
         pc'[w] # "idle",
         InWork(w)' => w \in Active(N) /\ at'[w] \in Chunk(N, w) /\ fd'[w] \in 1..Len(files),
         pc'[w] = "bytes" =>
           /\ got'[w] <= frames[at'[w]].len
           /\ ~ shrunk /\ got'[w] > 0 => frames[at'[w]].start + got'[w] <= files[fd'[w]].len
  PROVE  WorkerOK(w)'
<1>1. N' = N /\ Active(N)' = Active(N) /\ Chunk(N, w)' = Chunk(N, w)
  BY DEF N, Active, Chunk, Workers, ChunkSize, FirstFrame, LastFrame
<1>2. ASSUME NEW i \in 1..Len(pieces'[w]) PROVE PieceOK(w, pieces[w][i])'
  <2>1. pieces[w] # <<>>  BY <1>2
  <2>2. PICK p : p = pieces[w][i]  OBVIOUS
  <2>3. PieceOK(w, p)' /\ p = pieces'[w][i]  BY <1>2, <2>1, <2>2, PiecesKept
  <2> QED  BY <2>3 DEF PieceOK
<1>3. InWork(w)' => w \in Active(N)' /\ at'[w] \in Chunk(N, w)' /\ fd'[w] \in 1..Len(files')
  BY <1>1
<1>4. pc'[w] = "bytes" =>
        /\ got'[w] <= frames'[at'[w]].len
        /\ ~ shrunk' /\ got'[w] > 0 => frames'[at'[w]].start + got'[w] <= files'[fd'[w]].len
  OBVIOUS
<1>5. \A j, k \in 1..Len(pieces'[w]) : j < k => EndOf(pieces'[w][j]) <= pieces'[w][k].start
  BY DEF WorkerOK
<1> QED  BY <1>2, <1>3, <1>4, <1>5 DEF WorkerOK

LEMMA OpenedFiles == ASSUME TypeOK PROVE Opened \subseteq 1..Len(files)
<1>1. Len(files) \in Nat  BY DEF TypeOK
<1> QED  BY <1>1 DEF TypeOK, Opened

LEMMA NextFrameIs ==
  ASSUME TypeOK, NEW w \in Active(N), at[w] \in Chunk(N, w), NextFrame(w)
  PROVE  /\ pc'[w] \in {"done", "frame"} /\ pc' = [pc EXCEPT ![w] = pc'[w]]
         /\ at'[w] \in Nat /\ at'[w] >= at[w] /\ (\A v \in Worker : v # w => at'[v] = at[v])
         /\ at' \in [Worker -> Nat]
         /\ pc'[w] = "frame" => at'[w] \in Chunk(N, w) /\ at'[w] > at[w]
<1>1. w \in Worker /\ N \in Nat /\ at \in [Worker -> Nat]  BY Framed DEF TypeOK
<1>2. pc \in [Worker -> {"idle", "frame", "bytes", "done", "failed", "skipped"}]
  BY DEF TypeOK
<1>3. CASE at[w] = LastFrame(N, w)
  <2>1. pc' = [pc EXCEPT ![w] = "done"] /\ at' = at  BY <1>3 DEF NextFrame
  <2>2. pc'[w] = "done"  BY <1>1, <1>2, <2>1
  <2>3. pc' = [pc EXCEPT ![w] = pc'[w]]  BY <2>1, <2>2
  <2>4. at[w] \in Nat /\ at'[w] = at[w] /\ at[w] >= at[w]  BY <1>1, <2>1
  <2>5. at' \in [Worker -> Nat] /\ \A v \in Worker : at'[v] = at[v]  BY <1>1, <2>1
  <2> QED  BY <2>2, <2>3, <2>4, <2>5
<1>4. CASE at[w] # LastFrame(N, w)
  <2>1. /\ pc' = [pc EXCEPT ![w] = "frame"] /\ at' = [at EXCEPT ![w] = at[w] + 1]
    BY <1>4 DEF NextFrame
  <2>2. pc'[w] = "frame" /\ at'[w] = at[w] + 1  BY <1>1, <1>2, <2>1
  <2>3. at[w] + 1 \in Chunk(N, w)  BY <1>1, <1>4, ChunkFrames
  <2>4. at[w] \in Nat /\ at'[w] \in Nat /\ at'[w] > at[w] /\ at'[w] >= at[w]
    BY <1>1, <2>2
  <2>5. pc' = [pc EXCEPT ![w] = pc'[w]]  BY <2>1, <2>2
  <2>6. at' \in [Worker -> Nat] /\ \A v \in Worker : v # w => at'[v] = at[v]
    BY <1>1, <2>1, <2>4
  <2> QED  BY <2>2, <2>3, <2>4, <2>5, <2>6
<1> QED  BY <1>3, <1>4

(* The other workers, and all else.                                        *)
LEMMA Stepped ==
  ASSUME IInv, TypeOK', NEW w \in Active(N), UNCHANGED <<files, shrunk, frames, call>>,
         call \notin {"start", "probe", "cut"},
         \A v \in Worker : v # w =>
           /\ pc'[v] = pc[v] /\ fd'[v] = fd[v] /\ at'[v] = at[v] /\ got'[v] = got[v]
           /\ pieces'[v] = pieces[v],
         WorkerOK(w)'
  PROVE  IInv'
<1>1. FilesKept
  <2>1. \A f \in 1..Len(files) : files[f].len \in Nat
    <3>1. \A f \in 1..Len(files) : files[f] \in File  BY DEF IInv, TypeOK
    <3> QED  BY <3>1 DEF File
  <2>2. Len(files) \in Nat  BY DEF IInv, TypeOK
  <2> QED  BY <2>1, <2>2 DEF FilesKept
<1>2. \A v \in Worker : v # w => WorkerOK(v)'  BY <1>1, WorkerKept
<1>3. Apart(frames)'  BY DEF IInv, Apart
<1>4. Pristine'  BY DEF Pristine
<1> QED  BY <1>2, <1>3, <1>4 DEF IInv

LEMMA CloneInv == ASSUME IInv, NEW w \in Active(N), CloneHandle(w) PROVE IInv'
<1>1. TypeOK /\ N \in Nat /\ w \in Worker /\ WorkerOK(w)  BY Framed DEF IInv
<1>2. /\ call = "read" /\ pc[w] = "idle" /\ UNCHANGED <<files, shrunk, frames, call>>
      /\ UNCHANGED <<name, handle, size, got, pieces>>
  BY DEF CloneHandle, disk
<1>3. pieces[w] = <<>>  BY <1>1, <1>2 DEF WorkerOK
<1>4. CASE /\ pc' = [pc EXCEPT ![w] = "frame"] /\ at' = [at EXCEPT ![w] = FirstFrame(N, w)]
           /\ \E f \in Opened : fd' = [fd EXCEPT ![w] = f]
  <2>1. PICK f \in 1..Len(files) : fd' = [fd EXCEPT ![w] = f]
    BY <1>1, <1>4, OpenedFiles
  <2>2. FirstFrame(N, w) \in Chunk(N, w) /\ FirstFrame(N, w) \in Nat /\ f \in Nat
    <3>1. FirstFrame(N, w) \in 1..N  BY <1>1, ActiveWorkers
    <3>2. FirstFrame(N, w) \in Chunk(N, w)  BY <1>1, ChunkFrames
    <3> QED  BY <3>1, <3>2
  <2>3. TypeOK'  BY <1>1, <1>2, <1>4, <2>1, <2>2 DEF TypeOK
  <2>4. pc'[w] = "frame" /\ at'[w] = FirstFrame(N, w) /\ fd'[w] = f
    BY <1>1, <1>4, <2>1 DEF TypeOK
  <2>5. WorkerOK(w)'  BY <1>1, <1>2, <1>3, <2>2, <2>4, OwnKept
  <2>6. \A v \in Worker : v # w => pc'[v] = pc[v] /\ fd'[v] = fd[v] /\ at'[v] = at[v]
    BY <1>4, <2>1 DEF TypeOK, IInv
  <2> QED  BY <1>2, <2>3, <2>5, <2>6, Stepped
<1>5. CASE pc' = [pc EXCEPT ![w] = "failed"] /\ UNCHANGED <<fd, at>>
  <2>1. TypeOK'  BY <1>1, <1>2, <1>5 DEF TypeOK
  <2>2. pc'[w] = "failed" /\ at'[w] \in Nat  BY <1>1, <1>5 DEF TypeOK
  <2>3. ~ InWork(w)'  BY <2>2 DEF InWork
  <2>4. WorkerOK(w)'  BY <1>1, <1>2, <1>3, <1>5, <2>2, <2>3, OwnKept
  <2>5. \A v \in Worker : v # w => pc'[v] = pc[v]  BY <1>5 DEF TypeOK, IInv
  <2> QED  BY <1>2, <1>5, <2>1, <2>4, <2>5, Stepped
<1> QED  BY <1>4, <1>5 DEF CloneHandle, Fail

LEMMA SkipInv == ASSUME IInv, NEW w \in Active(N), SkipTask(w) PROVE IInv'
<1>1. TypeOK /\ N \in Nat /\ w \in Worker /\ WorkerOK(w)  BY Framed DEF IInv
<1>2. /\ call = "read" /\ pc[w] = "idle" /\ UNCHANGED <<files, shrunk, frames, call>>
      /\ UNCHANGED <<name, handle, size, fd, at, got, pieces>>
      /\ pc' = [pc EXCEPT ![w] = "skipped"]
  BY DEF SkipTask, disk
<1>3. pieces[w] = <<>>  BY <1>1, <1>2 DEF WorkerOK
<1>4. TypeOK'  BY <1>1, <1>2 DEF TypeOK
<1>5. pc'[w] = "skipped" /\ at'[w] \in Nat  BY <1>1, <1>2 DEF TypeOK
<1>6. ~ InWork(w)'  BY <1>5 DEF InWork
<1>7. WorkerOK(w)'  BY <1>1, <1>2, <1>3, <1>5, <1>6, OwnKept
<1>8. \A v \in Worker : v # w => pc'[v] = pc[v]  BY <1>2 DEF TypeOK, IInv
<1> QED  BY <1>2, <1>4, <1>7, <1>8, Stepped

(* A worker in a frame works on one of its chunk, and the scan reads.      *)
LEMMA AtWork ==
  ASSUME IInv, NEW w \in Active(N), InWork(w)
  PROVE  /\ TypeOK /\ N \in Nat /\ w \in Worker /\ WorkerOK(w)
         /\ call \notin {"start", "probe", "cut"}
         /\ at[w] \in Chunk(N, w) /\ at[w] \in 1..N /\ at[w] \in Nat
         /\ fd[w] \in 1..Len(files) /\ got[w] \in Nat
         /\ frames[at[w]].start \in Nat /\ frames[at[w]].len \in Nat
         /\ files[fd[w]].len \in Nat
<1>1. TypeOK /\ N \in Nat /\ w \in Worker /\ WorkerOK(w)  BY Framed DEF IInv
<1>2. at[w] \in Chunk(N, w) /\ fd[w] \in 1..Len(files)  BY <1>1 DEF WorkerOK
<1>3. at[w] \in 1..N  BY <1>1, <1>2, Framed
<1>4. call \notin {"start", "probe", "cut"}  BY <1>1 DEF IInv, Pristine, InWork
<1>5. files[fd[w]] \in File  BY <1>1, <1>2 DEF TypeOK
<1>6. got[w] \in Nat  BY <1>1 DEF TypeOK
<1> QED  BY <1>1, <1>2, <1>3, <1>4, <1>5, <1>6, Framed DEF File

LEMMA SeekInv == ASSUME IInv, NEW w \in Active(N), SeekFrame(w) PROVE IInv'
<1>1. InWork(w)  BY DEF SeekFrame, InWork
<1>2. /\ TypeOK /\ N \in Nat /\ w \in Worker /\ WorkerOK(w)
      /\ call \notin {"start", "probe", "cut"}
      /\ at[w] \in Chunk(N, w) /\ at[w] \in Nat /\ fd[w] \in 1..Len(files)
      /\ frames[at[w]].len \in Nat
  BY <1>1, AtWork
<1>3. /\ pc[w] = "frame" /\ UNCHANGED <<files, shrunk, frames, call>>
      /\ UNCHANGED <<name, handle, size, fd, pieces>>
  BY DEF SeekFrame, disk
<1>4. CASE NextFrame(w) /\ got' = got
  <2>1. /\ pc'[w] \in {"done", "frame"} /\ pc' = [pc EXCEPT ![w] = pc'[w]]
        /\ at'[w] \in Nat /\ at'[w] >= at[w] /\ (\A v \in Worker : v # w => at'[v] = at[v])
        /\ at' \in [Worker -> Nat]
        /\ pc'[w] = "frame" => at'[w] \in Chunk(N, w)
    BY <1>2, <1>4, NextFrameIs
  <2>2. TypeOK'  BY <1>2, <1>3, <1>4, <2>1 DEF TypeOK
  <2>3. InWork(w)' => pc'[w] = "frame"  BY <2>1 DEF InWork
  <2>4. pc'[w] # "idle" /\ pc'[w] # "bytes"  BY <2>1
  <2>5. WorkerOK(w)'  BY <1>1, <1>2, <1>3, <2>1, <2>3, <2>4, OwnKept
  <2>6. \A v \in Worker : v # w => pc'[v] = pc[v]  BY <1>2, <2>1 DEF TypeOK
  <2> QED  BY <1>2, <1>3, <1>4, <2>1, <2>2, <2>5, <2>6, Stepped
<1>5. CASE /\ pc' = [pc EXCEPT ![w] = "bytes"] /\ got' = [got EXCEPT ![w] = 0] /\ at' = at
  <2>1. TypeOK'  BY <1>2, <1>3, <1>5 DEF TypeOK
  <2>2. pc'[w] = "bytes" /\ got'[w] = 0 /\ at'[w] = at[w] /\ at'[w] >= at[w]
    BY <1>2, <1>5 DEF TypeOK
  <2>3. WorkerOK(w)'  BY <1>1, <1>2, <1>3, <2>2, OwnKept
  <2>4. \A v \in Worker : v # w => pc'[v] = pc[v] /\ got'[v] = got[v]
    BY <1>2, <1>5 DEF TypeOK
  <2> QED  BY <1>2, <1>3, <1>5, <2>1, <2>3, <2>4, Stepped
<1>6. CASE pc' = [pc EXCEPT ![w] = "failed"] /\ UNCHANGED <<at, got>>
  <2>1. TypeOK'  BY <1>2, <1>3, <1>6 DEF TypeOK
  <2>2. pc'[w] = "failed" /\ at'[w] = at[w]  BY <1>2, <1>6 DEF TypeOK
  <2>3. ~ InWork(w)'  BY <2>2 DEF InWork
  <2>4. WorkerOK(w)'  BY <1>2, <1>3, <2>2, <2>3, OwnKept
  <2>5. \A v \in Worker : v # w => pc'[v] = pc[v]  BY <1>2, <1>6 DEF TypeOK
  <2> QED  BY <1>2, <1>3, <1>6, <2>1, <2>4, <2>5, Stepped
<1> QED  BY <1>4, <1>5, <1>6 DEF SeekFrame, Fail

LEMMA ReadInv == ASSUME IInv, NEW w \in Active(N), ReadBytes(w) PROVE IInv'
<1>1. pc[w] = "bytes" /\ InWork(w)  BY DEF ReadBytes, InWork
<1>2. /\ TypeOK /\ N \in Nat /\ w \in Worker /\ WorkerOK(w)
      /\ call \notin {"start", "probe", "cut"}
      /\ at[w] \in Chunk(N, w) /\ at[w] \in Nat /\ fd[w] \in 1..Len(files)
      /\ got[w] \in Nat /\ frames[at[w]].len \in Nat /\ frames[at[w]].start \in Nat
      /\ files[fd[w]].len \in Nat
  BY <1>1, AtWork
<1>3. UNCHANGED <<files, shrunk, frames, call, name, handle, size, pc, fd, at, pieces>>
  BY DEF ReadBytes, disk
<1>4. PICK n \in 1..Left(w) : n <= There(w) /\ got' = [got EXCEPT ![w] = got[w] + n]
  BY DEF ReadBytes
<1>5. n \in Nat /\ got'[w] = got[w] + n
  <2>1. n \in Nat  BY <1>2, <1>4 DEF Left
  <2> QED  BY <1>2, <1>4, <2>1 DEF TypeOK
<1>6. got'[w] \in Nat /\ got'[w] <= frames[at[w]].len  BY <1>2, <1>4, <1>5 DEF Left
<1>7. frames[at[w]].start + got'[w] <= files[fd[w]].len  BY <1>2, <1>4, <1>5 DEF There
<1>8. TypeOK'  BY <1>2, <1>3, <1>4, <1>5, <1>6 DEF TypeOK
<1>9. at'[w] >= at[w] /\ InWork(w)' = InWork(w)  BY <1>2, <1>3 DEF InWork
<1>10. WorkerOK(w)'  BY <1>1, <1>2, <1>3, <1>6, <1>7, <1>9, OwnKept
<1>11. \A v \in Worker : v # w => got'[v] = got[v]  BY <1>2, <1>4 DEF TypeOK
<1> QED  BY <1>2, <1>3, <1>8, <1>10, <1>11, Stepped

(* A frame is parsed: the piece lies behind the worker's others.           *)
LEMMA ParseInv == ASSUME IInv, NEW w \in Active(N), ParseFrame(w) PROVE IInv'
<1> DEFINE p == [file |-> fd[w], start |-> frames[at[w]].start, len |-> got[w]]
<1>1. pc[w] = "bytes" /\ InWork(w)  BY DEF ParseFrame, InWork
<1>2. /\ TypeOK /\ N \in Nat /\ w \in Worker /\ WorkerOK(w)
      /\ call \notin {"start", "probe", "cut"}
      /\ at[w] \in Chunk(N, w) /\ at[w] \in 1..N /\ at[w] \in Nat /\ fd[w] \in 1..Len(files)
      /\ got[w] \in Nat /\ frames[at[w]].start \in Nat
  BY <1>1, AtWork
<1>3. /\ UNCHANGED <<files, shrunk, frames, call, name, handle, size, fd, got>>
      /\ NextFrame(w) /\ pieces' = [pieces EXCEPT ![w] = Append(pieces[w], p)]
  BY DEF ParseFrame, ParseAs, disk
<1>4. p \in Piece
  <2>1. fd[w] \in Nat  BY <1>2 DEF TypeOK
  <2> QED  BY <1>2, <2>1 DEF Piece
<1>5. /\ pc'[w] \in {"done", "frame"} /\ pc' = [pc EXCEPT ![w] = pc'[w]]
      /\ at'[w] \in Nat /\ at'[w] >= at[w] /\ (\A v \in Worker : v # w => at'[v] = at[v])
      /\ at' \in [Worker -> Nat]
      /\ pc'[w] = "frame" => at'[w] \in Chunk(N, w) /\ at'[w] > at[w]
  BY <1>2, <1>3, NextFrameIs
<1> DEFINE n == Len(pieces[w])
<1>6. /\ pieces[w] \in Seq(Piece) /\ n \in Nat /\ pieces'[w] = Append(pieces[w], p)
      /\ Append(pieces[w], p) \in Seq(Piece)
      /\ \A v \in Worker : v # w => pieces'[v] = pieces[v]
  BY <1>2, <1>3, <1>4 DEF TypeOK
<1> HIDE DEF p
<1>7. /\ Len(pieces'[w]) = n + 1 /\ pieces'[w][n + 1] = p
      /\ \A i \in 1..n : pieces'[w][i] = pieces[w][i]
  BY <1>6
<1> HIDE DEF n
<1>8. TypeOK'
  <2>1. pieces' \in [Worker -> Seq(Piece)]  BY <1>2, <1>3, <1>6 DEF TypeOK
  <2>2. pc' \in [Worker -> {"idle", "frame", "bytes", "done", "failed", "skipped"}]
    BY <1>2, <1>5 DEF TypeOK
  <2> QED  BY <1>2, <1>3, <1>5, <2>1, <2>2 DEF TypeOK
<1>9. InWork(w)' => pc'[w] = "frame" /\ at'[w] > at[w]  BY <1>5 DEF InWork
<1>10. N' = N /\ Active(N)' = Active(N) /\ Chunk(N, w)' = Chunk(N, w)
  BY <1>3 DEF N, Active, Chunk, Workers, ChunkSize, FirstFrame, LastFrame
<1>11. ASSUME NEW i \in 1..Len(pieces'[w]), NEW q, q = pieces'[w][i]
       PROVE  PieceOK(w, q)'
  <2>1. CASE i \in 1..n
    <3>1. q = pieces[w][i] /\ i \in 1..Len(pieces[w])  BY <1>7, <1>11, <2>1 DEF n
    <3> QED  BY <1>1, <1>2, <1>3, <1>5, <3>1, PiecesKept
  <2>2. CASE i = n + 1
    <3>1. q = p  BY <1>7, <1>11, <2>2
    <3>2. /\ q.file = fd'[w] /\ q.file \in 1..Len(files')
          /\ q.start = frames'[at[w]].start /\ q.len = got[w]
      BY <1>2, <1>3, <3>1 DEF p
    <3>3. got[w] <= frames'[at[w]].len  BY <1>1, <1>2, <1>3 DEF WorkerOK
    <3>4. ~ shrunk' /\ q.len > 0 => EndOf(q) <= files'[q.file].len
      BY <1>1, <1>2, <1>3, <3>2 DEF WorkerOK, EndOf
    <3>5. InWork(w)' => at[w] < at'[w]  BY <1>2, <1>5, <1>9
    <3>6. at[w] \in Chunk(N, w)' /\ w \in Active(N)'  BY <1>2, <1>10
    <3> QED  BY <3>2, <3>3, <3>4, <3>5, <3>6 DEF PieceOK
  <2>3. i \in 1..n \/ i = n + 1  BY <1>6, <1>7, <1>11 DEF n
  <2> QED  BY <2>1, <2>2, <2>3
<1>12. ASSUME NEW i \in 1..Len(pieces'[w]) PROVE PieceOK(w, pieces[w][i])'
  <2>1. PICK q : q = pieces'[w][i]  OBVIOUS
  <2>2. PieceOK(w, q)'  BY <1>11, <1>12, <2>1
  <2> QED  BY <2>1, <2>2 DEF PieceOK
<1>13. ASSUME NEW i \in 1..n PROVE EndOf(pieces[w][i]) <= p.start
  <2>1. PieceOK(w, pieces[w][i]) /\ pieces[w][i] \in Piece
    BY <1>2, <1>6, <1>13 DEF WorkerOK, n
  <2>2. PICK f \in Chunk(N, w) : /\ pieces[w][i].start = frames[f].start
                                 /\ pieces[w][i].len <= frames[f].len /\ f < at[w]
    BY <1>1, <2>1 DEF PieceOK
  <2>3. f \in 1..N  BY <1>2, <2>2, Framed
  <2>4. EndOf(frames[f]) <= frames[at[w]].start
    BY <1>2, <2>2, <2>3 DEF IInv, Apart, N
  <2>5. /\ frames[f].start \in Nat /\ frames[f].len \in Nat
        /\ pieces[w][i].len \in Nat
    BY <1>2, <2>1, <2>3, Framed DEF Piece
  <2>6. EndOf(pieces[w][i]) <= EndOf(frames[f])  BY <2>2, <2>5 DEF EndOf
  <2>7. EndOf(pieces[w][i]) \in Nat /\ EndOf(frames[f]) \in Nat
    BY <2>2, <2>5 DEF EndOf
  <2>8. p.start = frames[at[w]].start  BY DEF p
  <2> QED  BY <1>2, <2>4, <2>6, <2>7, <2>8
<1>14. ASSUME NEW i \in 1..Len(pieces'[w]), NEW j \in 1..Len(pieces'[w]), i < j
       PROVE  EndOf(pieces'[w][i]) <= pieces'[w][j].start
  <2>1. i \in 1..n /\ (j \in 1..n \/ j = n + 1)  BY <1>6, <1>7, <1>14 DEF n
  <2>2. CASE j \in 1..n
    <3>1. pieces'[w][i] = pieces[w][i] /\ pieces'[w][j] = pieces[w][j]
      BY <1>7, <2>1, <2>2
    <3> QED  BY <1>2, <1>14, <2>1, <2>2, <3>1 DEF WorkerOK, n
  <2>3. CASE j = n + 1  BY <1>7, <1>13, <2>1, <2>3
  <2> QED  BY <2>1, <2>2, <2>3
<1>15. WorkerOK(w)'
  <2>1. pc'[w] # "idle" /\ pc'[w] # "bytes"  BY <1>5
  <2>2. InWork(w)' => /\ w \in Active(N)' /\ at'[w] \in Chunk(N, w)'
                      /\ fd'[w] \in 1..Len(files')
    BY <1>2, <1>3, <1>5, <1>9, <1>10
  <2> QED  BY <1>12, <1>14, <2>1, <2>2 DEF WorkerOK
<1>16. \A v \in Worker : v # w => pc'[v] = pc[v]  BY <1>2, <1>5 DEF TypeOK
<1> QED  BY <1>2, <1>3, <1>5, <1>6, <1>8, <1>15, <1>16, Stepped

-----------------------------------------------------------------------------
(* The steps that are not a worker's.                                      *)

(* A step that leaves the frames and the workers alone.                    *)
LEMMA Beside ==
  ASSUME IInv, TypeOK', FilesKept, UNCHANGED <<frames, workers>>,
         call' \in {"start", "probe", "cut"} => call \in {"start", "probe", "cut"}
  PROVE  IInv'
<1>1. UNCHANGED <<pc, fd, at, got, pieces>>  BY DEF workers
<1>2. \A w \in Worker : WorkerOK(w)'  BY <1>1, WorkerKept
<1>3. Apart(frames)'  BY DEF IInv, Apart
<1>4. Pristine'  BY <1>1 DEF IInv, Pristine
<1> QED  BY <1>2, <1>3, <1>4 DEF IInv

LEMMA SameFiles ==
  ASSUME TypeOK, UNCHANGED disk PROVE FilesKept
<1>1. \A f \in 1..Len(files) : files[f] \in File  BY DEF TypeOK
<1>2. \A f \in 1..Len(files) : files[f].len \in Nat  BY <1>1 DEF File
<1>3. Len(files) \in Nat  BY DEF TypeOK
<1> QED  BY <1>2, <1>3 DEF FilesKept, disk

(* A file the name may get.                                                *)
LEMMA NewFileIs ==
  ASSUME NEW k, NEW f \in NewFile(k)
  PROVE  /\ f \in File
         /\ \A i, j \in 1..Len(f.table) : i < j => f.table[i] <= f.table[j]
<1>1. CASE k = "zst"
  <2>1. PICK l \in LineEnds, t \in Tables :
          f = [lines |-> l, len |-> IF t = <<>> THEN 0 ELSE t[Len(t)], table |-> t]
    BY <1>1 DEF NewFile
  <2>2. /\ t \in Seq(Nat) /\ l \subseteq Nat
        /\ \A i, j \in 1..Len(t) : i < j => t[i] <= t[j]
    BY FileAssumption
  <2>3. t # <<>> => t[Len(t)] \in Nat
    <3> SUFFICES ASSUME t # <<>> PROVE t[Len(t)] \in Nat  OBVIOUS
    <3>1. Len(t) \in 1..Len(t)  BY <2>2
    <3> QED  BY <2>2, <3>1
  <2> QED  BY <2>1, <2>2, <2>3 DEF File
<1>2. CASE k # "zst"
  <2>1. PICK l \in LineEnds, n \in 0..MaxLen : f = [lines |-> l, len |-> n, table |-> <<>>]
    BY <1>2 DEF NewFile
  <2>2. l \subseteq Nat /\ n \in Nat /\ <<>> \in Seq(Nat) /\ Len(<<>>) = 0
    BY FileAssumption
  <2> QED  BY <2>1, <2>2 DEF File
<1> QED  BY <1>1, <1>2

LEMMA WriterKeeps == ASSUME TypeOK, Writer PROVE TypeOK' /\ FilesKept
<1>1. /\ TypeOK /\ UNCHANGED <<call, handle, size, frames, workers>>
      /\ UNCHANGED <<pc, fd, at, got, pieces>>
  BY DEF Writer, workers
<1>2. /\ Len(files) \in Nat /\ Len(files) > 0 /\ handle \in 1..Len(files)
      /\ name \in 0..Len(files) /\ files \in Seq(File)
      /\ \A f \in 1..Len(files) : files[f] \in File /\ files[f].len \in Nat
  <2>1. /\ files \in Seq(File) /\ Len(files) > 0 /\ handle \in 1..Len(files)
        /\ name \in 0..Len(files)
    BY <1>1 DEF TypeOK
  <2>2. \A f \in 1..Len(files) : files[f] \in File  BY <2>1
  <2>3. \A r \in File : r.len \in Nat  BY DEF File
  <2>4. Len(files) \in Nat  BY <2>1
  <2> QED  BY <2>1, <2>2, <2>3, <2>4
<1>3. ASSUME NEW f \in 1..Len(files), NEW n \in Nat, files' = [files EXCEPT ![f].len = n],
             name' = name, shrunk' \in BOOLEAN,
             ~ shrunk' => ~ shrunk /\ n >= files[f].len
      PROVE  TypeOK' /\ FilesKept
  <2>1. /\ files' \in Seq(File) /\ Len(files') = Len(files)
        /\ \A g \in 1..Len(files) : /\ files'[g].table = files[g].table
                                    /\ files'[g].lines = files[g].lines
                                    /\ files'[g].len = IF g = f THEN n ELSE files[g].len
    <3> DEFINE r == [files[f] EXCEPT !.len = n]
    <3>1. r \in File /\ r.table = files[f].table /\ r.lines = files[f].lines /\ r.len = n
      BY <1>2, <1>3 DEF File
    <3>2. files' = [files EXCEPT ![f] = r]  BY <1>3
    <3> HIDE DEF r
    <3>3. /\ files' \in Seq(File) /\ Len(files') = Len(files)
          /\ \A g \in 1..Len(files) : files'[g] = IF g = f THEN r ELSE files[g]
      BY <1>2, <3>1, <3>2
    <3> QED  BY <3>1, <3>3
  <2>2. TypeOK'  BY <1>1, <1>2, <1>3, <2>1 DEF TypeOK
  <2>3. FilesKept  BY <1>2, <1>3, <2>1 DEF FilesKept
  <2> QED  BY <2>2, <2>3
<1>4. CASE \E f \in DOMAIN files : Append1(f)
  <2>1. PICK f \in 1..Len(files) : Append1(f)  BY <1>2, <1>4
  <2>2. PICK n \in (files[f].len + 1)..MaxLen : files' = [files EXCEPT ![f].len = n]
    BY <2>1 DEF Append1
  <2>3. n \in Nat /\ n >= files[f].len  BY <1>2, FileAssumption
  <2>4. shrunk' = shrunk /\ name' = name  BY <2>1 DEF Append1
  <2>5. shrunk' \in BOOLEAN  BY <1>1, <2>4 DEF TypeOK
  <2>6. TypeOK' /\ FilesKept  BY <1>3, <2>2, <2>3, <2>4, <2>5
  <2> QED  BY <2>6
<1>5. CASE \E f \in DOMAIN files : Truncate(f)
  <2>1. PICK f \in 1..Len(files) : Truncate(f)  BY <1>2, <1>5
  <2>2. PICK n \in 0..(files[f].len - 1) : files' = [files EXCEPT ![f].len = n]
    BY <2>1 DEF Truncate
  <2>3. n \in Nat  BY <1>2
  <2>4. shrunk' = TRUE /\ name' = name  BY <2>1 DEF Truncate
  <2>5. TypeOK' /\ FilesKept  BY <1>3, <2>2, <2>3, <2>4
  <2> QED  BY <2>5
<1>6. CASE Replace
  <2>1. PICK f \in NewFile(kind) : files' = Append(files, f)  BY <1>6 DEF Replace
  <2>2. /\ f \in File /\ \A i, j \in 1..Len(f.table) : i < j => f.table[i] <= f.table[j]
    BY NewFileIs
  <2>3. name' = Len(files) + 1 /\ shrunk' = shrunk  BY <1>6 DEF Replace
  <2>4. /\ files' \in Seq(File) /\ Len(files') = Len(files) + 1
        /\ files'[Len(files) + 1] = f
        /\ \A g \in 1..Len(files) : files'[g] = files[g]
    BY <1>2, <2>1, <2>2
  <2>5. \A g \in 1..Len(files') : g \in 1..Len(files) \/ g = Len(files) + 1
    BY <1>2, <2>4
  <2>6. \A g \in 1..Len(files') :
          LET t == files'[g].table IN \A i, j \in 1..Len(t) : i < j => t[i] <= t[j]
    BY <1>1, <2>2, <2>4, <2>5 DEF TypeOK
  <2>7. name' \in 0..Len(files') /\ handle' \in 1..Len(files') /\ Len(files') > 0
    BY <1>1, <1>2, <2>3, <2>4
  <2>8. TypeOK'  BY <1>1, <2>3, <2>4, <2>6, <2>7 DEF TypeOK
  <2>9. FilesKept  BY <1>2, <2>3, <2>4 DEF FilesKept
  <2> QED  BY <2>8, <2>9
<1>7. CASE Remove
  <2>1. files' = files /\ shrunk' = shrunk /\ name' = 0  BY <1>7 DEF Remove
  <2>2. TypeOK'  BY <1>1, <1>2, <2>1 DEF TypeOK
  <2>3. FilesKept  BY <1>2, <2>1 DEF FilesKept
  <2> QED  BY <2>2, <2>3
<1> QED  BY <1>4, <1>5, <1>6, <1>7 DEF Writer

LEMMA WriterInv == ASSUME IInv, Writer PROVE IInv'
<1>1. TypeOK /\ UNCHANGED <<call, frames, workers>>  BY DEF IInv, Writer
<1> QED  BY <1>1, WriterKeeps, Beside

(* The frames are made while no worker has begun.                          *)
LEMMA FramesMade ==
  ASSUME IInv, TypeOK', UNCHANGED workers, Apart(frames)', call \in {"probe", "cut"}
  PROVE  IInv'
<1>1. TypeOK /\ Pristine /\ UNCHANGED <<pc, fd, at, got, pieces>>  BY DEF IInv, workers
<1>2. ASSUME NEW w \in Worker PROVE WorkerOK(w)'
  <2>1. pc'[w] = "idle" /\ pieces'[w] = <<>>
    BY <1>1 DEF Pristine, IInv, WorkerOK
  <2>2. ~ InWork(w)' /\ Len(pieces'[w]) = 0  BY <2>1 DEF InWork
  <2> QED  BY <2>1, <2>2 DEF WorkerOK
<1>3. Pristine'  BY <1>1 DEF Pristine
<1> QED  BY <1>2, <1>3 DEF IInv

LEMMA ProbeInv == ASSUME IInv, Probe PROVE IInv'
<1>1. /\ TypeOK /\ call = "probe" /\ UNCHANGED <<files, name, shrunk, workers>>
      /\ UNCHANGED disk /\ UNCHANGED <<pc, fd, at, got, pieces>>
  BY DEF IInv, Probe, disk, workers
<1>2. CASE \E f \in Opened, s \in 0..MaxLen :
             /\ s \in Sizes(f) /\ handle' = f /\ size' = s
             /\ frames' = TableFrames(files[f].table)
  <2>1. PICK f \in 1..Len(files), s \in Nat :
          handle' = f /\ size' = s /\ frames' = TableFrames(files[f].table)
    BY <1>1, <1>2, OpenedFiles, FileAssumption
  <2>2. /\ files[f].table \in Seq(Nat)
        /\ \A i, j \in 1..Len(files[f].table) : i < j => files[f].table[i] <= files[f].table[j]
    <3>1. files[f] \in File  BY <1>1 DEF TypeOK
    <3> QED  BY <1>1, <3>1 DEF TypeOK, File
  <2>3. frames' \in Seq(Frame) /\ Apart(TableFrames(files[f].table))
    BY <2>1, <2>2, TableApart
  <2>4. Apart(frames)'  BY <2>1, <2>3 DEF Apart
  <2>5. TypeOK'  BY <1>1, <2>1, <2>3 DEF TypeOK
  <2> QED  BY <1>1, <2>4, <2>5, FramesMade
<1>3. CASE call' = "stream" /\ UNCHANGED <<handle, size, frames>>
  <2>1. TypeOK'  BY <1>1, <1>3 DEF TypeOK
  <2>2. FilesKept  BY <1>1, SameFiles
  <2> QED  BY <1>1, <1>3, <2>1, <2>2, Beside
<1> QED  BY <1>2, <1>3 DEF Probe

(* The frames end where the cutting has got to.                            *)
LEMMA FramesUpTo ==
  ASSUME IInv PROVE CutUpTo \in Nat /\ \A i \in 1..N : EndOf(frames[i]) <= CutUpTo
<1>1. TypeOK /\ Apart(frames)  BY DEF IInv
<1>2. N \in Nat /\ N = Len(frames) /\ frames \in Seq(Frame)  BY <1>1 DEF TypeOK, N
<1>3. frames = <<>> <=> N = 0  BY <1>2
<1>4. CASE N = 0  BY <1>3, <1>4 DEF CutUpTo
<1>5. CASE N # 0
  <2>1. N \in 1..N /\ CutUpTo = EndOf(frames[N])  BY <1>2, <1>3, <1>5 DEF CutUpTo
  <2>2. /\ EndOf(frames[N]) \in Nat /\ frames[N].start \in Nat /\ frames[N].len \in Nat
    BY <1>1, <2>1, Framed
  <2>3. frames[N].start <= EndOf(frames[N])  BY <2>2 DEF EndOf
  <2>4. ASSUME NEW i \in 1..N PROVE EndOf(frames[i]) <= EndOf(frames[N])
    <3>1. EndOf(frames[i]) \in Nat  BY <1>1, <2>4, Framed
    <3>2. CASE i = N  BY <2>2, <3>2
    <3>3. CASE i # N
      <4>1. i < N  BY <1>2, <3>3
      <4>2. EndOf(frames[i]) <= frames[N].start  BY <1>1, <2>1, <4>1 DEF Apart, N
      <4> QED  BY <2>2, <2>3, <3>1, <4>2
    <3> QED  BY <3>2, <3>3
  <2> QED  BY <2>1, <2>2, <2>4
<1> QED  BY <1>4, <1>5

LEMMA CutInv == ASSUME IInv, Cut PROVE IInv'
<1> DEFINE e == CutEnd(Visible(handle), size, CutUpTo)
           r == [start |-> CutUpTo, len |-> e - CutUpTo]
<1>1. /\ TypeOK /\ Apart(frames) /\ call = "cut" /\ CutUpTo < size /\ frames' = Append(frames, r)
      /\ UNCHANGED <<files, name, shrunk, handle, size, workers>>
      /\ UNCHANGED <<pc, fd, at, got, pieces>>
  BY DEF IInv, Cut, disk, workers
<1>2. N \in Nat /\ N = Len(frames) /\ size \in Nat /\ frames \in Seq(Frame)
  BY <1>1 DEF TypeOK, N
<1>3. frames = <<>> <=> N = 0  BY <1>2
<1>4. CutUpTo \in Nat /\ \A i \in 1..N : EndOf(frames[i]) <= CutUpTo  BY FramesUpTo
<1>5. Visible(handle) \in SUBSET Nat
  <2>1. files[handle] \in File  BY <1>1 DEF TypeOK
  <2> QED  BY <2>1 DEF Visible, File
<1>6. e \in Nat /\ CutUpTo < e  BY <1>1, <1>2, <1>4, <1>5, CutEndBehind
<1> HIDE DEF e
<1>7. r \in Frame  BY <1>4, <1>6 DEF Frame
<1>8. r.start = CutUpTo  OBVIOUS
<1> HIDE DEF r
<1>9. /\ frames' \in Seq(Frame) /\ Len(frames') = N + 1 /\ frames'[N + 1] = r
      /\ \A i \in 1..N : frames'[i] = frames[i]
  BY <1>1, <1>2, <1>7
<1>10. Apart(frames)'
  <2> SUFFICES ASSUME NEW i \in 1..Len(frames'), NEW j \in 1..Len(frames'), i < j
               PROVE  EndOf(frames'[i]) <= frames'[j].start
    BY DEF Apart, EndOf
  <2>1. i \in 1..N /\ (j \in 1..N \/ j = N + 1)  BY <1>2, <1>9
  <2>2. CASE j \in 1..N  BY <1>1, <1>2, <1>9, <2>1, <2>2 DEF Apart
  <2>3. CASE j = N + 1  BY <1>4, <1>8, <1>9, <2>1, <2>3
  <2> QED  BY <2>1, <2>2, <2>3
<1>11. TypeOK'  BY <1>1, <1>9 DEF TypeOK
<1> QED  BY <1>1, <1>10, <1>11, FramesMade

(* The steps that only open a handle, join, or read a stream.              *)
LEMMA OtherInv ==
  ASSUME IInv, Fresh \/ CutDone \/ Join \/ Single PROVE IInv'
<1>1. TypeOK /\ UNCHANGED <<disk, frames, workers>>
      /\ UNCHANGED <<files, name, shrunk, pc, fd, at, got, pieces>>
  BY DEF IInv, Fresh, CutDone, Join, Single, OpenStream, TakeLine, Fill, TakeTorn,
         EndOfBatch, disk, workers
<1>2. Len(files) \in Nat /\ \A f \in 1..Len(files) : files[f].len \in Nat
  <2>1. \A f \in 1..Len(files) : files[f] \in File  BY <1>1 DEF TypeOK
  <2>2. Len(files) \in Nat  BY <1>1 DEF TypeOK
  <2> QED  BY <2>1, <2>2 DEF File
<1>3. handle' \in 1..Len(files) /\ size' \in Nat
  <2>1. handle \in 1..Len(files) /\ size \in Nat  BY <1>1 DEF TypeOK
  <2>2. CASE Fresh  BY <1>1, <2>1, <2>2, OpenedFiles DEF Fresh
  <2>3. CASE OpenStream  BY <1>1, <1>2, <2>1, <2>3, OpenedFiles DEF OpenStream
  <2>4. CASE CutDone \/ Join \/ (Single /\ ~ OpenStream)
    BY <2>1, <2>4 DEF CutDone, Join, Single, TakeLine, Fill, TakeTorn, EndOfBatch
  <2> QED  BY <2>2, <2>3, <2>4 DEF Single
<1>4. TypeOK'  BY <1>1, <1>3 DEF TypeOK
<1>5. call' \in {"start", "probe", "cut"} => call \in {"start", "probe", "cut"}
  <2>1. CASE Fresh  BY <2>1 DEF Fresh
  <2>2. CASE CutDone  BY <2>2 DEF CutDone
  <2>3. CASE Join
    <3>1. call' \in {"stream", "framed", "failed"}  BY <2>3 DEF Join
    <3> QED  BY <3>1
  <2>4. CASE Single
    BY <2>4 DEF Single, OpenStream, TakeLine, Fill, TakeTorn, EndOfBatch, AtEnd
  <2> QED  BY <2>1, <2>2, <2>3, <2>4
<1> QED  BY <1>1, <1>4, <1>5, SameFiles, Beside

LEMMA InitInv == Init => IInv
<1> SUFFICES ASSUME Init PROVE IInv  OBVIOUS
<1>1. PICK f \in NewFile(kind) : files = <<f>>  BY DEF Init
<1>2. f \in File /\ \A i, j \in 1..Len(f.table) : i < j => f.table[i] <= f.table[j]
  BY NewFileIs
<1>3. files \in Seq(File) /\ Len(files) = 1 /\ files[1] = f  BY <1>1, <1>2
<1>4. \A g \in 1..Len(files) :
        LET t == files[g].table IN \A i, j \in 1..Len(t) : i < j => t[i] <= t[j]
  <2>1. \A g \in 1..Len(files) : g = 1  BY <1>3
  <2> QED  BY <1>2, <1>3, <2>1
<1>5. frames = <<>> /\ frames \in Seq(Frame) /\ Len(frames) = 0  BY DEF Init
<1>6. TypeOK
  <2>1. /\ pc \in [Worker -> {"idle", "frame", "bytes", "done", "failed", "skipped"}]
        /\ fd \in [Worker -> Nat] /\ at \in [Worker -> Nat] /\ got \in [Worker -> Nat]
    BY DEF Init
  <2>2. pieces \in [Worker -> Seq(Piece)]
    <3>1. <<>> \in Seq(Piece)  OBVIOUS
    <3>2. pieces = [w \in Worker |-> <<>>]  BY DEF Init
    <3> QED  BY <3>1, <3>2
  <2>3. name = 1 /\ handle = 1 /\ size = 0  BY DEF Init
  <2>4. name \in 0..Len(files) /\ handle \in 1..Len(files) /\ size \in Nat  BY <1>3, <2>3
  <2>5. shrunk \in BOOLEAN  BY DEF Init
  <2> QED  BY <1>3, <1>4, <1>5, <2>1, <2>2, <2>4, <2>5 DEF TypeOK
<1>7. Apart(frames)  BY <1>5 DEF Apart
<1>8. Pristine  BY DEF Init, Pristine
<1>9. ASSUME NEW w \in Worker PROVE WorkerOK(w)
  <2>1. pc[w] = "idle" /\ pieces[w] = <<>>  BY DEF Init
  <2>2. ~ InWork(w) /\ Len(pieces[w]) = 0  BY <2>1 DEF InWork
  <2> QED  BY <2>1, <2>2 DEF WorkerOK
<1> QED  BY <1>6, <1>7, <1>8, <1>9 DEF IInv

LEMMA NextInv == ASSUME IInv, [Next]_vars PROVE IInv'
<1>1. CASE Writer  BY <1>1, WriterInv
<1>2. CASE Main  BY <1>2, ProbeInv, CutInv, OtherInv DEF Main
<1>3. CASE \E w \in Active(N) : Step(w)
  BY <1>3, CloneInv, SkipInv, SeekInv, ReadInv, ParseInv DEF Step
<1>4. CASE UNCHANGED vars
  <2>1. /\ TypeOK /\ UNCHANGED <<disk, frames, workers, call, handle, size>>
        /\ UNCHANGED <<files, name, shrunk, pc, fd, at, got, pieces>>
    BY <1>4 DEF IInv, vars, disk, workers
  <2>2. TypeOK'  BY <2>1 DEF TypeOK
  <2> QED  BY <2>1, <2>2, SameFiles, Beside
<1> QED  BY <1>1, <1>2, <1>3, <1>4 DEF Next

(* The invariant holds throughout, whatever the writer does.               *)
THEOREM Inductive == Spec => []IInv
<1>1. IInv /\ [Next]_vars => IInv'  BY NextInv
<1> QED  BY <1>1, InitInv, PTL DEF Spec

(* The files, frames and workers are what the program takes them for.      *)
THEOREM TypeCorrect == Spec => []TypeOK
<1>1. IInv => TypeOK  BY DEF IInv
<1> QED  BY <1>1, Inductive, PTL

-----------------------------------------------------------------------------
(* What the workers parse.                                                 *)

LEMMA FramesInOrder ==
  ASSUME IInv, NEW f \in 1..N, NEW g \in 1..N, f < g,
         NEW p \in Piece, NEW q \in Piece,
         p.start = frames[f].start, p.len <= frames[f].len, q.start = frames[g].start
  PROVE  p.start + p.len <= q.start
<1>1. EndOf(frames[f]) <= frames[g].start  BY DEF IInv, Apart, N
<1>2. /\ frames[f].start \in Nat /\ frames[f].len \in Nat /\ frames[g].start \in Nat
      /\ p.len \in Nat
  BY Framed DEF IInv, Piece
<1> QED  BY <1>1, <1>2 DEF EndOf

(* Whatever is done to the file, by its name or by its handle, and however *)
(* many workers read it: a piece lies in the file of its worker, and no    *)
(* two overlap.                                                            *)
THEOREM PiecesAreReal == Spec => []PiecesReal
<1>1. ASSUME IInv PROVE PiecesReal
  <2>1. TypeOK /\ N \in Nat /\ \A w \in Worker : WorkerOK(w)  BY <1>1, Framed DEF IInv
  <2>2. ASSUME NEW p \in Parsed
        PROVE  \E w \in Worker : \E i \in 1..Len(pieces[w]) :
                 p = pieces[w][i] /\ p \in Piece /\ PieceOK(w, p)
    <3>1. PICK w \in Worker : p \in {pieces[w][i] : i \in DOMAIN pieces[w]}
      BY <2>2 DEF Parsed
    <3>2. pieces[w] \in Seq(Piece)  BY <2>1 DEF TypeOK
    <3>3. PICK i \in 1..Len(pieces[w]) : p = pieces[w][i]  BY <3>1, <3>2
    <3> QED  BY <2>1, <3>2, <3>3 DEF WorkerOK
  <2>3. ASSUME NEW p \in Parsed, ~ shrunk, p.len > 0
        PROVE  p.start + p.len <= files[p.file].len
    BY <2>2, <2>3 DEF PieceOK, EndOf
  <2>4. ASSUME NEW p \in Parsed, NEW q \in Parsed, p # q
        PROVE  p.start + p.len <= q.start \/ q.start + q.len <= p.start
    <3>1. PICK v \in Worker : \E i \in 1..Len(pieces[v]) :
            p = pieces[v][i] /\ p \in Piece /\ PieceOK(v, p)
      BY <2>2
    <3>2. PICK i \in 1..Len(pieces[v]) : p = pieces[v][i] /\ p \in Piece /\ PieceOK(v, p)
      BY <3>1
    <3>3. PICK w \in Worker : \E j \in 1..Len(pieces[w]) :
            q = pieces[w][j] /\ q \in Piece /\ PieceOK(w, q)
      BY <2>2
    <3>4. PICK j \in 1..Len(pieces[w]) : q = pieces[w][j] /\ q \in Piece /\ PieceOK(w, q)
      BY <3>3
    <3>5. CASE v = w
      <4>1. i < j \/ j < i
        <5>1. pieces[v] \in Seq(Piece)  BY <2>1 DEF TypeOK
        <5>2. i \in Nat /\ j \in Nat /\ i # j  BY <2>4, <3>2, <3>4, <3>5, <5>1
        <5> QED  BY <5>2
      <4> QED  BY <2>1, <3>2, <3>4, <3>5, <4>1 DEF WorkerOK, EndOf
    <3>6. CASE v # w
      <4>1. v \in Active(N) /\ w \in Active(N)  BY <3>2, <3>4 DEF PieceOK
      <4>2. PICK f \in Chunk(N, v) : p.start = frames[f].start /\ p.len <= frames[f].len
        BY <3>2 DEF PieceOK
      <4>3. PICK g \in Chunk(N, w) : q.start = frames[g].start /\ q.len <= frames[g].len
        BY <3>4 DEF PieceOK
      <4>4. f \in 1..N /\ g \in 1..N  BY <2>1, <4>1, <4>2, <4>3, Framed
      <4>5. f # g  BY <2>1, <3>6, <4>1, <4>2, <4>3, ChunksDisjoint
      <4>6. f < g \/ g < f  BY <2>1, <4>4, <4>5
      <4> QED  BY <1>1, <3>2, <3>4, <4>2, <4>3, <4>4, <4>6, FramesInOrder
    <3> QED  BY <3>5, <3>6
  <2>5. ASSUME NEW w \in Worker, NEW i \in DOMAIN pieces[w] PROVE pieces[w][i].file = fd[w]
    <3>1. pieces[w] \in Seq(Piece)  BY <2>1 DEF TypeOK
    <3>2. i \in 1..Len(pieces[w])  BY <2>5, <3>1
    <3> QED  BY <2>1, <3>2 DEF WorkerOK, PieceOK
  <2> QED  BY <2>3, <2>4, <2>5 DEF PiecesReal
<1> QED  BY <1>1, Inductive, PTL

-----------------------------------------------------------------------------
(* The single-threaded path.                                               *)

Line == [start : Nat, len : Nat]

Reading == call \in {"lines", "streamed"}

(* No line end is passed over, and a line ends where one is or where the   *)
(* file was found to end.                                                  *)
LineOK(l) ==
  /\ \A d \in Source.lines : ~ (l.start <= d /\ d < EndOf(l) - 1)
  /\ EndOf(l) - 1 \in Source.lines \/ EndOf(l) \in ends

(* Lines lie one behind the other, up to the cursor.                       *)
Chained ==
  /\ lines \in Seq(Line)
  /\ cursor = IF lines = <<>> THEN 0 ELSE EndOf(lines[Len(lines)])
  /\ \A i \in 1..Len(lines) :
       /\ lines[i].start = IF i = 1 THEN 0 ELSE EndOf(lines[i - 1])
       /\ lines[i].len > 0

(* What was seen of a file that only grows is still there.                 *)
SeenReal ==
  Reading /\ ~ shrunk =>
    /\ seen <= files[handle].len /\ size <= files[handle].len
    /\ \A i \in 1..Len(lines) : LineOK(lines[i])
    /\ call = "streamed" => cursor >= size

StreamInv ==
  /\ cursor \in Nat /\ seen \in Nat /\ cursor <= seen
  /\ Chained
  /\ SeenReal
  /\ ~ Reading => lines = <<>> /\ seen = 0

LEMMA FileIs ==
  ASSUME TypeOK, NEW f \in 1..Len(files)
  PROVE  files[f].len \in Nat /\ files[f].lines \in SUBSET Nat
<1>1. files[f] \in File  BY DEF TypeOK
<1> QED  BY <1>1 DEF File

LEMMA StreamKept ==
  ASSUME TypeOK, TypeOK', StreamInv, FilesKept, UNCHANGED stream,
         (~ Reading /\ ~ Reading') \/ UNCHANGED <<call, handle, size>>
  PROVE  StreamInv'
<1>1. UNCHANGED <<cursor, seen, lines, ends>>  BY DEF stream
<1>2. Chained'  BY <1>1 DEF StreamInv, Chained, EndOf
<1>3. ~ Reading' => lines' = <<>> /\ seen' = 0
  BY <1>1 DEF StreamInv, Reading
<1>4. SeenReal'
  <2> SUFFICES ASSUME Reading', ~ shrunk'
               PROVE  /\ seen' <= files'[handle'].len /\ size' <= files'[handle'].len
                      /\ \A i \in 1..Len(lines') : LineOK(lines[i])'
                      /\ call' = "streamed" => cursor' >= size'
    BY <1>1 DEF SeenReal
  <2>1. UNCHANGED <<call, handle, size>>  OBVIOUS
  <2>2. Reading /\ ~ shrunk  BY <2>1 DEF Reading, FilesKept
  <2>3. /\ seen <= files[handle].len /\ size <= files[handle].len
        /\ \A i \in 1..Len(lines) : LineOK(lines[i])
        /\ call = "streamed" => cursor >= size
    BY <2>2 DEF StreamInv, SeenReal
  <2>4. /\ handle \in 1..Len(files) /\ Len(files) \in Nat /\ Len(files') \in Nat
        /\ files[handle].len \in Nat /\ seen \in Nat /\ size \in Nat
    BY FileIs DEF TypeOK, StreamInv, FilesKept
  <2>5. /\ files'[handle].lines = files[handle].lines
        /\ files'[handle].len >= files[handle].len
    BY <2>4 DEF FilesKept
  <2>6. handle' = handle /\ size' = size /\ seen' = seen  BY <1>1, <2>1
  <2>7. seen <= files'[handle].len /\ size <= files'[handle].len
    <3>1. files'[handle] \in File  BY <2>4 DEF TypeOK, FilesKept
    <3>2. files'[handle].len \in Nat  BY <3>1 DEF File
    <3> QED  BY <2>3, <2>4, <2>5, <3>2
  <2>8. \A i \in 1..Len(lines) : LineOK(lines[i])'
    BY <1>1, <2>3, <2>5, <2>6 DEF LineOK, Source, EndOf
  <2> QED  BY <1>1, <2>1, <2>3, <2>6, <2>7, <2>8
<1> QED  BY <1>1, <1>2, <1>3, <1>4 DEF StreamInv

LEMMA LeastIn ==
  ASSUME NEW S \in SUBSET Nat, S # {}
  PROVE  \E d \in S : \A e \in S : d <= e
<1>1. PICK d \in S : \A e \in S : ~ (<<e, d>> \in OpToRel(<, Nat))
  BY NatLessThanWellFounded, WFMin
<1>2. \A e \in S : ~ (e < d)  BY <1>1 DEF OpToRel
<1> QED  BY <1>2

(* A line that ends at a line end, or at the end of the file.              *)
LEMMA Taken ==
  ASSUME TypeOK, StreamInv, call = "lines", NEW e \in Nat, cursor < e, e <= seen, TakeTo(e),
         UNCHANGED <<files, shrunk, call, handle, size, seen>>, ends \subseteq ends',
         \A d \in Source.lines : ~ (cursor <= d /\ d < e - 1),
         e - 1 \in Source.lines \/ e \in ends'
  PROVE  StreamInv'
<1> DEFINE l == [start |-> cursor, len |-> e - cursor]
<1>1. /\ cursor \in Nat /\ seen \in Nat /\ Chained /\ SeenReal /\ Reading
  BY DEF StreamInv, Reading
<1>2. cursor' = e /\ lines' = Append(lines, l)  BY DEF TakeTo
<1>3. l \in Line /\ l.start = cursor /\ l.len > 0 /\ EndOf(l) = e
  BY <1>1 DEF Line, EndOf
<1> HIDE DEF l
<1>4. lines \in Seq(Line)  BY <1>1 DEF Chained
<1> DEFINE n == Len(lines)
<1>5. n \in Nat /\ (lines = <<>> <=> n = 0)  BY <1>4
<1>6. /\ lines' \in Seq(Line) /\ Len(lines') = n + 1 /\ lines'[n + 1] = l
      /\ \A i \in 1..n : lines'[i] = lines[i]
  BY <1>2, <1>3, <1>4
<1>7. \A i \in 1..(n + 1) : i \in 1..n \/ i = n + 1  BY <1>5
<1>8. Chained'
  <2>1. lines' # <<>> /\ cursor' = EndOf(lines'[Len(lines')])
    BY <1>2, <1>3, <1>5, <1>6
  <2>2. ASSUME NEW i \in 1..n
        PROVE  /\ lines'[i].start = IF i = 1 THEN 0 ELSE EndOf(lines'[i - 1])
               /\ lines'[i].len > 0
    <3>1. /\ lines[i].start = IF i = 1 THEN 0 ELSE EndOf(lines[i - 1])
          /\ lines[i].len > 0
      BY <1>1, <2>2 DEF Chained
    <3>2. i # 1 => i - 1 \in 1..n  BY <1>5, <2>2
    <3> QED  BY <1>6, <3>1, <3>2
  <2>3. /\ l.start = IF n + 1 = 1 THEN 0 ELSE EndOf(lines'[n])
        /\ l.len > 0
    <3>1. cursor = IF n = 0 THEN 0 ELSE EndOf(lines[n])  BY <1>1, <1>5 DEF Chained
    <3>2. n # 0 => n \in 1..n  BY <1>5
    <3> QED  BY <1>3, <1>5, <1>6, <3>1, <3>2
  <2>4. n + 1 - 1 = n  BY <1>5
  <2>5. \A i \in 1..(n + 1) :
          /\ lines'[i].start = IF i = 1 THEN 0 ELSE EndOf(lines'[i - 1])
          /\ lines'[i].len > 0
    BY <1>6, <1>7, <2>2, <2>3, <2>4
  <2> HIDE DEF n
  <2> QED  BY <1>6, <2>1, <2>5 DEF Chained, EndOf
<1>9. SeenReal'
  <2> SUFFICES ASSUME ~ shrunk
               PROVE  /\ seen <= files[handle].len /\ size <= files[handle].len
                      /\ \A i \in 1..Len(lines') : LineOK(lines[i])'
    BY DEF SeenReal
  <2>1. /\ seen <= files[handle].len /\ size <= files[handle].len
        /\ \A i \in 1..n : LineOK(lines[i])
    BY <1>1 DEF SeenReal
  <2>2. ASSUME NEW i \in 1..n PROVE LineOK(lines[i])'
    <3>1. LineOK(lines[i]) /\ lines'[i] = lines[i]  BY <1>6, <2>1, <2>2
    <3> QED  BY <3>1 DEF LineOK, Source, EndOf
  <2>3. ASSUME NEW i, i = n + 1 PROVE LineOK(lines[i])'
    <3>1. lines'[i] = l  BY <1>6, <2>3
    <3> QED  BY <1>3, <3>1 DEF LineOK, Source, EndOf
  <2>4. \A i \in 1..(n + 1) : LineOK(lines[i])'  BY <1>7, <2>2, <2>3
  <2> HIDE DEF n
  <2> QED  BY <1>6, <2>1, <2>4
<1> QED  BY <1>1, <1>2, <1>8, <1>9 DEF StreamInv, Reading

LEMMA TakeLineStream == ASSUME TypeOK, StreamInv, TakeLine PROVE StreamInv'
<1>1. /\ call = "lines" /\ Buffered # {} /\ handle \in 1..Len(files)
      /\ UNCHANGED <<files, shrunk, call, handle, size, seen, ends>>
      /\ cursor \in Nat /\ seen \in Nat
  BY DEF TypeOK, StreamInv, TakeLine, disk
<1>2. Source.lines \in SUBSET Nat  BY <1>1, FileIs DEF Source
<1>3. Buffered \in SUBSET Nat  BY <1>2 DEF Buffered
<1> DEFINE m == CHOOSE d \in Buffered : \A e \in Buffered : d <= e
<1>4. m \in Buffered /\ \A e \in Buffered : m <= e
  <2>1. \E d \in Buffered : \A e \in Buffered : d <= e  BY <1>1, <1>3, LeastIn
  <2> QED  BY <2>1
<1>5. TakeTo(1 + m)  BY DEF TakeLine
<1> HIDE DEF m
<1>6. m \in Nat /\ m \in Source.lines /\ cursor <= m /\ m < seen
  BY <1>3, <1>4 DEF Buffered
<1>7. ASSUME NEW d \in Source.lines, cursor <= d, d < 1 + m - 1 PROVE FALSE
  <2>1. d \in Nat /\ d < m  BY <1>2, <1>6, <1>7
  <2>2. d \in Buffered  BY <1>1, <1>6, <1>7, <2>1 DEF Buffered
  <2> QED  BY <1>4, <1>6, <2>1, <2>2
<1>8. 1 + m \in Nat /\ cursor < 1 + m /\ 1 + m <= seen /\ 1 + m - 1 = m
  BY <1>1, <1>6
<1> QED  BY <1>1, <1>5, <1>6, <1>7, <1>8, Taken

LEMMA TakeTornStream == ASSUME TypeOK, StreamInv, TakeTorn PROVE StreamInv'
<1>1. /\ call = "lines" /\ Buffered = {} /\ cursor < seen /\ TakeTo(seen)
      /\ UNCHANGED <<files, shrunk, call, handle, size, seen>>
      /\ ends' = ends \cup {seen} /\ handle \in 1..Len(files)
      /\ cursor \in Nat /\ seen \in Nat
  BY DEF TypeOK, StreamInv, TakeTorn, AtEnd, disk
<1>2. Source.lines \in SUBSET Nat  BY <1>1, FileIs DEF Source
<1>3. ASSUME NEW d \in Source.lines, cursor <= d, d < seen - 1 PROVE FALSE
  <2>1. d \in Nat /\ d < seen  BY <1>1, <1>2, <1>3
  <2>2. d \in Buffered  BY <1>3, <2>1 DEF Buffered
  <2> QED  BY <1>1, <2>2
<1> QED  BY <1>1, <1>3, Taken

LEMMA FillStream == ASSUME TypeOK, StreamInv, Fill PROVE StreamInv'
<1>1. /\ call = "lines" /\ UNCHANGED <<files, shrunk, call, handle, size>>
      /\ UNCHANGED <<cursor, lines, ends>> /\ handle \in 1..Len(files)
      /\ cursor \in Nat /\ seen \in Nat /\ cursor <= seen
  BY DEF TypeOK, StreamInv, Fill, disk
<1>2. PICK n \in (seen + 1)..MaxLen : n <= Source.len /\ seen' = n  BY DEF Fill
<1>3. seen' \in Nat /\ cursor' <= seen' /\ seen' <= files[handle].len
  <2>1. n \in Nat /\ cursor <= n  BY <1>1, <1>2
  <2> QED  BY <1>1, <1>2, <2>1 DEF Source
<1>4. Chained'  BY <1>1 DEF StreamInv, Chained, EndOf
<1>5. SeenReal'
  BY <1>1, <1>3 DEF StreamInv, SeenReal, Reading, LineOK, Source, EndOf
<1> QED  BY <1>1, <1>3, <1>4, <1>5 DEF StreamInv, Reading

LEMMA EndOfBatchStream == ASSUME TypeOK, StreamInv, EndOfBatch PROVE StreamInv'
<1>1. /\ call = "lines" /\ call' \in {"lines", "streamed"} /\ cursor = seen
      /\ seen >= Source.len /\ UNCHANGED <<files, shrunk, handle, size>>
      /\ UNCHANGED <<cursor, seen, lines>> /\ ends' = ends \cup {seen}
      /\ handle \in 1..Len(files) /\ size \in Nat
      /\ cursor \in Nat /\ seen \in Nat /\ cursor <= seen
  BY DEF TypeOK, StreamInv, EndOfBatch, AtEnd, disk
<1>2. Chained'  BY <1>1 DEF StreamInv, Chained, EndOf
<1>3. SeenReal'
  <2> SUFFICES ASSUME ~ shrunk
               PROVE  /\ seen <= files[handle].len /\ size <= files[handle].len
                      /\ \A i \in 1..Len(lines) : LineOK(lines[i])'
                      /\ cursor >= size
    BY <1>1 DEF SeenReal
  <2>1. /\ seen <= files[handle].len /\ size <= files[handle].len
        /\ \A i \in 1..Len(lines) : LineOK(lines[i])
    BY <1>1 DEF StreamInv, SeenReal, Reading
  <2>2. files[handle].len \in Nat  BY <1>1, FileIs
  <2>3. cursor >= size  BY <1>1, <2>1, <2>2 DEF Source
  <2>4. \A i \in 1..Len(lines) : LineOK(lines[i])'
    BY <1>1, <2>1 DEF LineOK, Source, EndOf
  <2> QED  BY <2>1, <2>3, <2>4
<1> QED  BY <1>1, <1>2, <1>3 DEF StreamInv, Reading

LEMMA OpenStreamStream ==
  ASSUME TypeOK, TypeOK', StreamInv, OpenStream PROVE StreamInv'
<1>1. /\ UNCHANGED <<files, shrunk>> /\ UNCHANGED <<cursor, seen, lines, ends>>
      /\ ~ Reading /\ UNCHANGED disk /\ UNCHANGED stream
  BY DEF OpenStream, disk, stream, Reading
<1>2. CASE call' = "failed"
  <2>1. ~ Reading'  BY <1>2 DEF Reading
  <2> QED  BY <1>1, <2>1, SameFiles, StreamKept
<1>3. CASE \E f \in Opened : handle' = f /\ call' = "lines" /\ size' = files[f].len
  <2>1. PICK f \in 1..Len(files) : handle' = f /\ call' = "lines" /\ size' = files[f].len
    BY <1>3, OpenedFiles
  <2>2. files[f].len \in Nat  BY FileIs
  <2>3. lines = <<>> /\ seen = 0 /\ cursor = 0 /\ Len(lines) = 0
    BY <1>1 DEF StreamInv, Chained
  <2>4. Chained'  BY <1>1, <2>3 DEF StreamInv, Chained
  <2>5. SeenReal'
    <3>1. seen' <= files'[handle'].len /\ size' <= files'[handle'].len
      BY <1>1, <2>1, <2>2, <2>3
    <3>2. 1..Len(lines') = {}  BY <1>1, <2>3
    <3> QED  BY <2>1, <3>1, <3>2 DEF SeenReal
  <2>6. Reading'  BY <2>1 DEF Reading
  <2> QED  BY <1>1, <2>3, <2>4, <2>5, <2>6 DEF StreamInv
<1> QED  BY <1>2, <1>3 DEF OpenStream

(* The other steps leave the stream alone, and what is read of it.         *)
LEMMA OtherStream ==
  ASSUME TypeOK, TypeOK', StreamInv,
         \/ Writer \/ Fresh \/ Probe \/ Cut \/ CutDone \/ Join
         \/ \E w \in Active(N) : Step(w)
         \/ UNCHANGED vars
  PROVE  StreamInv'
<1>1. CASE Writer
  <2>1. UNCHANGED stream /\ UNCHANGED <<call, handle, size>>  BY <1>1 DEF Writer
  <2> QED  BY <1>1, <2>1, WriterKeeps, StreamKept
<1>2. CASE \E w \in Active(N) : Step(w)
  <2>1. UNCHANGED stream /\ UNCHANGED disk /\ UNCHANGED <<call, handle, size>>
    BY <1>2 DEF Step, CloneHandle, SkipTask, SeekFrame, ReadBytes, ParseFrame, ParseAs
  <2> QED  BY <2>1, SameFiles, StreamKept
<1>3. CASE UNCHANGED vars
  <2>1. UNCHANGED stream /\ UNCHANGED disk /\ UNCHANGED <<call, handle, size>>
    BY <1>3 DEF vars
  <2> QED  BY <2>1, SameFiles, StreamKept
<1>4. CASE Fresh \/ Probe \/ Cut \/ CutDone \/ Join
  <2>1. UNCHANGED stream /\ UNCHANGED disk /\ ~ Reading
    BY <1>4 DEF Fresh, Probe, Cut, CutDone, Join, Reading
  <2>2. call' \notin {"lines", "streamed"}
    <3>1. CASE Fresh  BY <3>1 DEF Fresh
    <3>2. CASE Probe  BY <3>2 DEF Probe
    <3>3. CASE Cut  BY <3>3 DEF Cut
    <3>4. CASE CutDone  BY <3>4 DEF CutDone
    <3>5. CASE Join
      <4>1. call' \in {"stream", "framed", "failed"}  BY <3>5 DEF Join
      <4> QED  BY <4>1
    <3> QED  BY <1>4, <3>1, <3>2, <3>3, <3>4, <3>5
  <2>3. ~ Reading'  BY <2>2 DEF Reading
  <2> QED  BY <2>1, <2>3, SameFiles, StreamKept
<1> QED  BY <1>1, <1>2, <1>3, <1>4

(* The single-threaded path on a file that only grows gives its lines one  *)
(* by one from the first byte, tears none but where it found the file to   *)
(* end, and misses none that was there when it opened the file.            *)
THEOREM StreamTakesLines == Spec => []StreamLines
<1>1. Init => StreamInv
  <2> SUFFICES ASSUME Init PROVE StreamInv  OBVIOUS
  <2>1. /\ cursor = 0 /\ seen = 0 /\ lines = <<>> /\ call = "start"  BY DEF Init
  <2>2. ~ Reading  BY <2>1 DEF Reading
  <2>3. lines \in Seq(Line) /\ 1..Len(lines) = {}  BY <2>1
  <2> QED  BY <2>1, <2>2, <2>3 DEF StreamInv, Chained, SeenReal
<1>2. TypeOK /\ TypeOK' /\ StreamInv /\ [Next]_vars => StreamInv'
  BY TakeLineStream, TakeTornStream, FillStream, EndOfBatchStream, OpenStreamStream,
     OtherStream DEF Next, Main, Single
<1>3. StreamInv => StreamLines
  <2> SUFFICES ASSUME StreamInv, Reading, ~ shrunk PROVE StreamLines
    BY DEF StreamLines, Reading
  <2>1. lines \in Seq(Line)  BY DEF StreamInv, Chained
  <2>2. DOMAIN lines = 1..Len(lines)  BY <2>1
  <2>3. /\ \A i \in 1..Len(lines) : LineOK(lines[i])
        /\ call = "streamed" => cursor >= size
    BY DEF StreamInv, SeenReal
  <2>4. Chained  BY DEF StreamInv
  <2> QED  BY <2>2, <2>3, <2>4 DEF StreamLines, Chained, LineOK
<1> QED  BY <1>1, <1>2, <1>3, TypeCorrect, PTL DEF Spec

-----------------------------------------------------------------------------
(* The lines of a text, and of its frames.                                 *)

CutsOf(f, a, b) ==
  {a, b} \cup {d + 1 : d \in {e \in files[f].lines : a <= e /\ e < b}}

LEMMA LinesAre ==
  ASSUME NEW f, NEW a, NEW b
  PROVE  LinesIn(f, a, b) =
           {c \in CutsOf(f, a, b) \X CutsOf(f, a, b) :
              c[1] < c[2] /\ \A z \in CutsOf(f, a, b) : ~ (c[1] < z /\ z < c[2])}
BY DEF LinesIn, CutsOf

LEMMA CutIs ==
  ASSUME TypeOK, NEW f \in 1..Len(files), NEW a \in Nat, NEW b \in Nat
  PROVE  /\ CutsOf(f, a, b) \in SUBSET Nat
         /\ \A x \in Nat : x \in CutsOf(f, a, b) <=>
              x = a \/ x = b \/ (x - 1 \in files[f].lines /\ a <= x - 1 /\ x - 1 < b)
<1>1. files[f].lines \in SUBSET Nat  BY FileIs
<1>2. \A x \in CutsOf(f, a, b) :
        x = a \/ x = b \/ \E d \in files[f].lines : a <= d /\ d < b /\ x = d + 1
  BY DEF CutsOf
<1>3. CutsOf(f, a, b) \in SUBSET Nat  BY <1>1, <1>2
<1>4. ASSUME NEW x \in Nat, x - 1 \in files[f].lines, a <= x - 1, x - 1 < b
      PROVE  x \in CutsOf(f, a, b)
  <2>1. x = (x - 1) + 1  OBVIOUS
  <2> QED  BY <1>4, <2>1 DEF CutsOf
<1>5. ASSUME NEW x \in Nat, x \in CutsOf(f, a, b), x # a, x # b
      PROVE  x - 1 \in files[f].lines /\ a <= x - 1 /\ x - 1 < b
  <2>1. PICK d \in files[f].lines : a <= d /\ d < b /\ x = d + 1  BY <1>2, <1>5
  <2>2. d = x - 1  BY <1>1, <2>1
  <2> QED  BY <2>1, <2>2
<1>6. a \in CutsOf(f, a, b) /\ b \in CutsOf(f, a, b)  BY DEF CutsOf
<1> QED  BY <1>3, <1>4, <1>5, <1>6

(* An offset where the text may be cut without tearing a line.             *)
AtLine(f, x, total) == x = 0 \/ x = total \/ x - 1 \in files[f].lines

(* The lines of a frame that is cut at lines are those of the text that    *)
(* begin in it.                                                            *)
LEMMA LinesOfFrame ==
  ASSUME TypeOK, NEW f \in 1..Len(files), NEW total \in Nat, NEW s \in Nat, NEW e \in Nat,
         s <= e, e <= total, AtLine(f, s, total), AtLine(f, e, total)
  PROVE  LinesIn(f, s, e) = {c \in LinesIn(f, 0, total) : s <= c[1] /\ c[1] < e}
<1> DEFINE S == CutsOf(f, 0, total)
           T == CutsOf(f, s, e)
<1>1. S \in SUBSET Nat /\ T \in SUBSET Nat  BY CutIs
<1>2. \A x \in Nat : x \in S <=> x = 0 \/ x = total \/ (x - 1 \in files[f].lines /\ x - 1 < total)
  <2>1. files[f].lines \in SUBSET Nat  BY FileIs
  <2>2. \A x \in Nat : x - 1 \in files[f].lines => 0 <= x - 1  BY <2>1
  <2> QED  BY <2>2, CutIs
<1>3. \A x \in Nat : x \in T <=> x = s \/ x = e \/ (x - 1 \in files[f].lines /\ s <= x - 1 /\ x - 1 < e)
  BY CutIs
<1>4. s \in S /\ e \in S  BY <1>2 DEF AtLine
<1>5. LinesIn(f, s, e) = {c \in T \X T : c[1] < c[2] /\ \A z \in T : ~ (c[1] < z /\ z < c[2])}
  BY LinesAre
<1>6. LinesIn(f, 0, total) = {c \in S \X S : c[1] < c[2] /\ \A z \in S : ~ (c[1] < z /\ z < c[2])}
  BY LinesAre
<1> HIDE DEF S, T
<1>7. ASSUME NEW x \in Nat PROVE x \in T <=> x \in S /\ s <= x /\ x <= e
  <2>1. ASSUME x \in T PROVE x \in S /\ s <= x /\ x <= e
    <3>1. CASE x = s \/ x = e  BY <1>4, <3>1
    <3>2. CASE x - 1 \in files[f].lines /\ s <= x - 1 /\ x - 1 < e  BY <1>2, <3>2
    <3> QED  BY <1>3, <2>1, <3>1, <3>2
  <2>2. ASSUME x \in S, s <= x, x <= e, x # s, x # e PROVE x \in T
    <3>1. x # 0 /\ x # total /\ s <= x - 1 /\ x - 1 < e  BY <2>2
    <3>2. x - 1 \in files[f].lines  BY <1>2, <2>2, <3>1
    <3> QED  BY <1>3, <3>1, <3>2
  <2> QED  BY <1>3, <2>1, <2>2
<1>8. ASSUME NEW c \in LinesIn(f, s, e)
      PROVE  c \in LinesIn(f, 0, total) /\ s <= c[1] /\ c[1] < e
  <2>1. /\ c \in T \X T /\ c[1] < c[2]
        /\ \A z \in T : ~ (c[1] < z /\ z < c[2])
    BY <1>5, <1>8
  <2>2. c[1] \in T /\ c[2] \in T /\ c = <<c[1], c[2]>>  BY <2>1
  <2>3. c[1] \in Nat /\ c[2] \in Nat  BY <1>1, <2>2
  <2>4. c[1] \in S /\ c[2] \in S /\ s <= c[1] /\ c[2] <= e  BY <1>7, <2>2, <2>3
  <2>5. \A z \in S : ~ (c[1] < z /\ z < c[2])
    <3> SUFFICES ASSUME NEW z \in S, c[1] < z, z < c[2] PROVE FALSE  OBVIOUS
    <3>1. z \in Nat  BY <1>1
    <3>2. s <= z /\ z <= e  BY <2>3, <2>4, <3>1
    <3>3. z \in T  BY <1>7, <3>1, <3>2
    <3> QED  BY <2>1, <3>3
  <2>6. c \in S \X S  BY <2>2, <2>4
  <2> QED  BY <1>6, <2>1, <2>3, <2>4, <2>5, <2>6
<1>9. ASSUME NEW c \in LinesIn(f, 0, total), s <= c[1], c[1] < e
      PROVE  c \in LinesIn(f, s, e)
  <2>1. /\ c \in S \X S /\ c[1] < c[2]
        /\ \A z \in S : ~ (c[1] < z /\ z < c[2])
    BY <1>6, <1>9
  <2>2. c[1] \in S /\ c[2] \in S /\ c = <<c[1], c[2]>>  BY <2>1
  <2>3. c[1] \in Nat /\ c[2] \in Nat  BY <1>1, <2>2
  <2>4. c[2] <= e
    <3>1. ~ (c[1] < e /\ e < c[2])  BY <1>4, <2>1
    <3> QED  BY <1>9, <2>3, <3>1
  <2>5. c[1] \in T /\ c[2] \in T  BY <1>7, <1>9, <2>1, <2>2, <2>3, <2>4
  <2>6. \A z \in T : ~ (c[1] < z /\ z < c[2])  BY <1>1, <1>7, <2>1
  <2>7. c \in T \X T  BY <2>2, <2>5
  <2> QED  BY <1>5, <2>1, <2>6, <2>7
<1> QED  BY <1>8, <1>9

-----------------------------------------------------------------------------
(* What the frames are of the file they were cut from.                     *)

Framing == call \in {"cut", "read", "framed"}

Adjacent(fs) ==
  \A i \in 1..Len(fs) : fs[i].start = IF i = 1 THEN 0 ELSE EndOf(fs[i - 1])

(* An archive is as long as its table says.                                *)
TablesReal ==
  \A f \in 1..Len(files) :
    files[f].table # <<>> =>
      kind = "zst" /\ files[f].len = files[f].table[Len(files[f].table)]

Sized ==
  Framing => /\ CutUpTo <= size
             /\ call # "cut" => CutUpTo = size
             /\ ~ shrunk => size <= files[handle].len

(* A frame ends with the text, with a line, or has no line end.            *)
EndsWell(r, ls, total) ==
  \/ EndOf(r) = total
  \/ EndOf(r) - 1 \in ls
  \/ /\ r.start + MaxFrame < total
     /\ \A d \in ls : ~ (r.start <= d /\ d < r.start + MaxFrame)

CutWell ==
  Framing /\ ~ shrunk /\ files[handle].table = <<>> =>
    \A i \in 1..N : EndsWell(frames[i], files[handle].lines, size)

(* A worker's pieces are frames, and those of its chunk that it has passed *)
(* are among them.                                                         *)
Covers(w, i, g) ==
  pieces[w][i].start = frames[g].start /\ pieces[w][i].len = frames[g].len

Passed(w, g) == pc[w] = "done" \/ (InWork(w) /\ g < at[w])

WholeFrames(w) ==
  Framing /\ ~ shrunk /\ fd[w] = handle =>
    /\ \A i \in 1..Len(pieces[w]) : \E g \in Chunk(N, w) : Covers(w, i, g)
    /\ \A g \in Chunk(N, w) :
         Passed(w, g) /\ frames[g].len > 0 => \E i \in 1..Len(pieces[w]) : Covers(w, i, g)

(* An error is kept, and only after one a worker does not run.             *)
ErrorKept(w) ==
  /\ pc[w] = "failed" => why[w] # "none"
  /\ pc[w] = "skipped" => \E v \in Active(N) : pc[v] = "failed"

AllDone == Active(N) # {} /\ \A w \in Active(N) : pc[w] = "done"

SnapInv ==
  /\ why \in [Worker -> {"clone", "read", "none"}]
  /\ TablesReal /\ Adjacent(frames) /\ Sized /\ CutWell
  /\ \A w \in Worker : WholeFrames(w) /\ ErrorKept(w)
  /\ call = "framed" => AllDone

LEMMA NewTable ==
  ASSUME NEW k, NEW f \in NewFile(k), f.table # <<>>
  PROVE  k = "zst" /\ f.len = f.table[Len(f.table)]
<1>1. CASE k = "zst"
  <2>1. PICK l \in LineEnds, t \in Tables :
          f = [lines |-> l, len |-> IF t = <<>> THEN 0 ELSE t[Len(t)], table |-> t]
    BY <1>1 DEF NewFile
  <2> QED  BY <1>1, <2>1
<1>2. CASE k # "zst"
  <2>1. PICK l \in LineEnds, n \in 0..MaxLen : f = [lines |-> l, len |-> n, table |-> <<>>]
    BY <1>2 DEF NewFile
  <2> QED  BY <2>1
<1> QED  BY <1>1, <1>2

LEMMA TableAdjacent ==
  ASSUME NEW t \in Seq(Nat), \A i, j \in 1..Len(t) : i < j => t[i] <= t[j],
         NEW fs, fs = TableFrames(t)
  PROVE  /\ Adjacent(fs) /\ (fs = <<>> <=> t = <<>>)
         /\ t # <<>> => EndOf(fs[Len(fs)]) = t[Len(t)]
<1> DEFINE s(i) == IF i = 1 THEN 0 ELSE t[i - 1]
<1>1. /\ Len(t) \in Nat /\ (\A i \in 1..Len(t) : t[i] \in Nat)
      /\ (t = <<>> <=> Len(t) = 0)
  OBVIOUS
<1>2. fs \in Seq(Frame)  BY TableApart
<1>3. fs = [i \in 1..Len(t) |-> [start |-> s(i), len |-> IF t[i] > s(i) THEN t[i] - s(i) ELSE 0]]
  BY DEF TableFrames
<1>4. Len(fs) = Len(t)  BY <1>1, <1>2, <1>3
<1>5. ASSUME NEW i \in 1..Len(t) PROVE fs[i].start = s(i) /\ EndOf(fs[i]) = t[i]
  <2>1. i # 1 => i - 1 \in 1..Len(t) /\ i - 1 < i  BY <1>1
  <2>2. s(i) \in Nat /\ s(i) <= t[i] /\ t[i] \in Nat  BY <1>1, <2>1
  <2>3. fs[i] = [start |-> s(i), len |-> IF t[i] > s(i) THEN t[i] - s(i) ELSE 0]
    BY <1>3
  <2> QED  BY <2>2, <2>3 DEF EndOf
<1>6. Adjacent(fs)
  <2> SUFFICES ASSUME NEW i \in 1..Len(fs)
               PROVE  fs[i].start = IF i = 1 THEN 0 ELSE EndOf(fs[i - 1])
    BY DEF Adjacent
  <2>1. i # 1 => i - 1 \in 1..Len(t)  BY <1>1, <1>4
  <2> QED  BY <1>4, <1>5, <2>1
<1>7. fs = <<>> <=> Len(fs) = 0  BY <1>2
<1>8. t # <<>> => Len(t) \in 1..Len(t)  BY <1>1
<1> QED  BY <1>1, <1>4, <1>5, <1>6, <1>7, <1>8

-----------------------------------------------------------------------------
(* The steps of the scan's own thread, and the writer's.                   *)

LEMMA SameChunks ==
  ASSUME frames' = frames
  PROVE  /\ N' = N /\ Active(N)' = Active(N)
         /\ \A w \in Worker : Chunk(N, w)' = Chunk(N, w)
BY DEF N, Active, Chunk, Workers, ChunkSize, FirstFrame, LastFrame

LEMMA WorkersAside ==
  ASSUME TypeOK, SnapInv, UNCHANGED <<frames, workers>>,
         \/ ~ Framing'
         \/ Framing /\ handle' = handle /\ (~ shrunk' => ~ shrunk)
  PROVE  \A w \in Worker : WholeFrames(w)' /\ ErrorKept(w)'
<1> SUFFICES ASSUME NEW w \in Worker PROVE WholeFrames(w)' /\ ErrorKept(w)'  OBVIOUS
<1>1. UNCHANGED <<pc, fd, at, why, pieces>>  BY DEF workers
<1>2. Active(N)' = Active(N) /\ Chunk(N, w)' = Chunk(N, w)  BY SameChunks
<1>3. ErrorKept(w)'  BY <1>1, <1>2 DEF SnapInv, ErrorKept
<1>4. CASE ~ Framing'  BY <1>3, <1>4 DEF WholeFrames
<1>5. CASE Framing /\ handle' = handle /\ (~ shrunk' => ~ shrunk)
  <2> SUFFICES ASSUME ~ shrunk', fd[w] = handle PROVE WholeFrames(w)'
    BY <1>1, <1>3, <1>5 DEF WholeFrames
  <2>1. /\ \A i \in 1..Len(pieces[w]) : \E g \in Chunk(N, w) : Covers(w, i, g)
        /\ \A g \in Chunk(N, w) :
             Passed(w, g) /\ frames[g].len > 0 =>
               \E i \in 1..Len(pieces[w]) : Covers(w, i, g)
    BY <1>5 DEF SnapInv, WholeFrames
  <2>2. \A i, g : Covers(w, i, g)' = Covers(w, i, g)  BY <1>1 DEF Covers
  <2>3. \A g : Passed(w, g)' = Passed(w, g)  BY <1>1 DEF Passed, InWork
  <2> QED  BY <1>1, <1>2, <2>1, <2>2, <2>3 DEF WholeFrames
<1> QED  BY <1>4, <1>5

(* A step that leaves the frames and the workers alone.                    *)
LEMMA SnapKept ==
  ASSUME TypeOK, TypeOK', SnapInv, FilesKept, TablesReal',
         UNCHANGED <<frames, workers>>,
         \/ ~ Framing'
         \/ /\ Framing /\ UNCHANGED <<handle, size>>
            /\ call' # "cut" => CutUpTo = size
            /\ call' = "framed" => AllDone
  PROVE  SnapInv'
<1>1. UNCHANGED <<pc, why>>  BY DEF workers
<1>2. N' = N /\ Active(N)' = Active(N)  BY SameChunks
<1>3. Adjacent(frames)'  BY DEF SnapInv, Adjacent, EndOf
<1>4. why' \in [Worker -> {"clone", "read", "none"}]  BY <1>1 DEF SnapInv
<1>5. ~ shrunk' => ~ shrunk  BY DEF FilesKept
<1>6. \A w \in Worker : WholeFrames(w)' /\ ErrorKept(w)'  BY <1>5, WorkersAside
<1>7. CASE ~ Framing'
  <2>1. call' # "framed"  BY <1>7 DEF Framing
  <2> QED  BY <1>3, <1>4, <1>6, <1>7, <2>1 DEF SnapInv, Sized, CutWell
<1>8. CASE /\ Framing /\ UNCHANGED <<handle, size>>
           /\ call' # "cut" => CutUpTo = size
           /\ call' = "framed" => AllDone
  <2>1. /\ handle \in 1..Len(files) /\ size \in Nat /\ files[handle].len \in Nat
        /\ files'[handle] \in File
    <3>1. handle \in 1..Len(files') /\ files' \in Seq(File)  BY <1>8 DEF TypeOK
    <3> QED  BY <3>1, FileIs DEF TypeOK
  <2>2. /\ files'[handle].lines = files[handle].lines
        /\ files'[handle].table = files[handle].table
        /\ ~ shrunk' => files'[handle].len >= files[handle].len
    BY <2>1 DEF FilesKept
  <2>3. CutUpTo' = CutUpTo  BY <1>2 DEF CutUpTo, EndOf
  <2>4. Sized'
    <3>1. CutUpTo <= size /\ (~ shrunk => size <= files[handle].len)
      BY <1>8 DEF SnapInv, Sized
    <3>2. files'[handle].len \in Nat  BY <2>1 DEF File
    <3>3. ~ shrunk' => size <= files'[handle].len  BY <1>5, <2>1, <2>2, <3>1, <3>2
    <3> QED  BY <1>8, <2>3, <3>1, <3>3 DEF Sized
  <2>5. CutWell'
    <3> SUFFICES ASSUME ~ shrunk', files[handle].table = <<>>
                 PROVE  \A i \in 1..N : EndsWell(frames[i], files[handle].lines, size)
      BY <1>2, <1>8, <2>2 DEF CutWell, EndsWell, EndOf
    <3> QED  BY <1>5, <1>8 DEF SnapInv, CutWell
  <2>6. call' = "framed" => AllDone'  BY <1>1, <1>2, <1>8 DEF AllDone
  <2> QED  BY <1>3, <1>4, <1>6, <2>4, <2>5, <2>6 DEF SnapInv
<1> QED  BY <1>7, <1>8

(* No archive is written to, and the name gets files that are in order.    *)
LEMMA WriterTables == ASSUME TypeOK, SnapInv, Writer PROVE TablesReal'
<1>1. TypeOK' /\ FilesKept /\ kind' = kind /\ TablesReal
  BY WriterKeeps DEF SnapInv, Writer
<1>2. Len(files) \in Nat /\ files \in Seq(File)  BY DEF TypeOK
<1>3. \A g \in 1..Len(files) : files'[g].table = files[g].table  BY <1>1 DEF FilesKept
<1>4. CASE kind # "zst" /\ Len(files') = Len(files)
  <2>1. \A g \in 1..Len(files) : files[g].table = <<>>  BY <1>1, <1>4 DEF TablesReal
  <2> QED  BY <1>3, <1>4, <2>1 DEF TablesReal
<1>5. CASE \E f \in DOMAIN files : Append1(f) \/ Truncate(f)
  <2>1. PICK f \in DOMAIN files : Append1(f) \/ Truncate(f)  BY <1>5
  <2>2. kind # "zst" /\ \E n : files' = [files EXCEPT ![f].len = n]
    BY <2>1 DEF Append1, Truncate
  <2>3. Len(files') = Len(files)  BY <1>2, <2>2
  <2> QED  BY <1>4, <2>2, <2>3
<1>6. CASE Replace
  <2>1. PICK f \in NewFile(kind) : files' = Append(files, f)  BY <1>6 DEF Replace
  <2>2. /\ Len(files') = Len(files) + 1 /\ files'[Len(files) + 1] = f
        /\ \A g \in 1..Len(files) : files'[g] = files[g]
    BY <1>2, <2>1
  <2>3. f.table # <<>> => kind = "zst" /\ f.len = f.table[Len(f.table)]
    BY <2>1, NewTable
  <2>4. \A g \in 1..Len(files') : g \in 1..Len(files) \/ g = Len(files) + 1
    BY <1>2, <2>2
  <2> QED  BY <1>1, <2>2, <2>3, <2>4 DEF TablesReal
<1>7. CASE Remove
  <2>1. files' = files  BY <1>7 DEF Remove
  <2> QED  BY <1>1, <2>1 DEF TablesReal
<1> QED  BY <1>5, <1>6, <1>7 DEF Writer

(* The frames are made while no worker has begun.                          *)
LEMMA SnapMade ==
  ASSUME IInv, SnapInv, UNCHANGED disk, UNCHANGED workers, call \in {"probe", "cut"},
         Adjacent(frames)', Sized', CutWell', call' # "framed"
  PROVE  SnapInv'
<1>1. UNCHANGED <<pc, fd, at, why, pieces>> /\ UNCHANGED <<kind, files>>
  BY DEF workers, disk
<1>2. TablesReal'  BY <1>1 DEF SnapInv, TablesReal
<1>3. ASSUME NEW w \in Worker PROVE WholeFrames(w)' /\ ErrorKept(w)'
  <2>1. pc'[w] = "idle" /\ pieces'[w] = <<>>
    BY <1>1 DEF IInv, Pristine, WorkerOK
  <2>2. ErrorKept(w)'  BY <2>1 DEF ErrorKept
  <2>3. \A g : ~ Passed(w, g)'  BY <2>1 DEF Passed, InWork
  <2>4. Len(pieces'[w]) = 0  BY <2>1
  <2>5. WholeFrames(w)'  BY <2>3, <2>4 DEF WholeFrames
  <2> QED  BY <2>2, <2>5
<1>4. why' \in [Worker -> {"clone", "read", "none"}]  BY <1>1 DEF SnapInv
<1> QED  BY <1>2, <1>3, <1>4 DEF SnapInv

LEMMA ProbeSnap == ASSUME IInv, IInv', SnapInv, Probe PROVE SnapInv'
<1>1. TypeOK /\ TypeOK' /\ call = "probe" /\ UNCHANGED disk /\ UNCHANGED <<workers, files>>
  BY DEF IInv, Probe, disk
<1>2. CASE \E f \in Opened, s \in 0..MaxLen :
             /\ s \in Sizes(f) /\ handle' = f /\ size' = s
             /\ frames' = TableFrames(files[f].table)
             /\ call' = CASE frames' # <<>> -> "read"
                          [] frames' = <<>> /\ s > 0 -> "cut"
                          [] OTHER -> "stream"
  <2>1. PICK f \in 1..Len(files), s \in Nat :
          /\ s \in Sizes(f) /\ handle' = f /\ size' = s
          /\ frames' = TableFrames(files[f].table)
          /\ call' = CASE frames' # <<>> -> "read"
                       [] frames' = <<>> /\ s > 0 -> "cut"
                       [] OTHER -> "stream"
    BY <1>1, <1>2, OpenedFiles, FileAssumption
  <2> DEFINE t == files[f].table
  <2>2. t \in Seq(Nat) /\ \A i, j \in 1..Len(t) : i < j => t[i] <= t[j]
    <3>1. files[f] \in File  BY <1>1 DEF TypeOK
    <3> QED  BY <1>1, <3>1 DEF TypeOK, File
  <2>3. files[f].len \in Nat  BY <1>1, FileIs
  <2>4. /\ Adjacent(frames') /\ (frames' = <<>> <=> t = <<>>)
        /\ t # <<>> => EndOf(frames'[Len(frames')]) = t[Len(t)]
    BY <2>1, <2>2, TableAdjacent
  <2> HIDE DEF t
  <2>5. Adjacent(frames)'  BY <2>4 DEF Adjacent, EndOf
  <2>6. s <= files[f].len  BY <2>1, <2>3 DEF Sizes
  <2>7. CASE t = <<>>
    <3>1. frames' = <<>> /\ N' = 0 /\ CutUpTo' = 0  BY <2>4, <2>7 DEF N, CutUpTo
    <3>2. call' \in {"cut", "stream"}  BY <2>1, <3>1
    <3>3. Sized'  BY <1>1, <2>1, <2>6, <3>1, <3>2 DEF Sized, Framing
    <3>4. CutWell'  BY <3>1 DEF CutWell
    <3> QED  BY <1>1, <2>5, <3>2, <3>3, <3>4, SnapMade
  <2>8. CASE t # <<>>
    <3>1. kind = "zst" /\ files[f].len = t[Len(t)]
      BY <2>8 DEF SnapInv, TablesReal, t
    <3>2. s = files[f].len  BY <2>1, <3>1 DEF Sizes
    <3>3. frames' # <<>> /\ call' = "read"  BY <2>1, <2>4, <2>8
    <3>4. CutUpTo' = EndOf(frames'[Len(frames')])  BY <3>3 DEF CutUpTo, N, EndOf
    <3>5. CutUpTo' = s  BY <2>4, <2>8, <3>1, <3>2, <3>4
    <3>6. Sized'  BY <1>1, <2>1, <2>6, <3>3, <3>5 DEF Sized, Framing
    <3>7. CutWell'  BY <1>1, <2>1, <2>8 DEF CutWell, t
    <3> QED  BY <1>1, <2>5, <3>3, <3>6, <3>7, SnapMade
  <2> QED  BY <2>7, <2>8
<1>3. CASE call' = "stream" /\ UNCHANGED <<handle, size, frames>>
  <2>1. Adjacent(frames)'  BY <1>3 DEF SnapInv, Adjacent, EndOf
  <2>2. ~ Framing'  BY <1>3 DEF Framing
  <2>3. Sized' /\ CutWell' /\ call' # "framed"  BY <1>3, <2>2 DEF Sized, CutWell
  <2> QED  BY <1>1, <2>1, <2>3, SnapMade
<1> QED  BY <1>2, <1>3 DEF Probe

LEMMA CutSnap == ASSUME IInv, IInv', SnapInv, Cut PROVE SnapInv'
<1> DEFINE e == CutEnd(Visible(handle), size, CutUpTo)
           r == [start |-> CutUpTo, len |-> e - CutUpTo]
<1>1. /\ TypeOK /\ TypeOK' /\ call = "cut" /\ call' = "cut" /\ CutUpTo < size
      /\ frames' = Append(frames, r)
      /\ UNCHANGED disk /\ UNCHANGED <<workers, files, shrunk, handle, size>>
  BY DEF IInv, Cut, disk
<1>2. /\ N \in Nat /\ N = Len(frames) /\ size \in Nat /\ frames \in Seq(Frame)
      /\ handle \in 1..Len(files) /\ (frames = <<>> <=> N = 0)
  BY <1>1 DEF TypeOK, N
<1>3. CutUpTo \in Nat  BY FramesUpTo
<1>4. Visible(handle) \in SUBSET Nat /\ files[handle].len \in Nat
  BY <1>1, <1>2, FileIs DEF Visible
<1>5. e \in Nat /\ CutUpTo < e /\ e <= size  BY <1>1, <1>2, <1>3, <1>4, CutEndBehind
<1>6. ASSUME ~ shrunk
      PROVE  \/ e = size \/ e - 1 \in files[handle].lines
             \/ /\ CutUpTo + MaxFrame < size
                /\ \A d \in files[handle].lines : ~ (CutUpTo <= d /\ d < CutUpTo + MaxFrame)
  <2>1. size <= files[handle].len  BY <1>1, <1>6 DEF SnapInv, Sized, Framing
  <2>2. files[handle].lines \in SUBSET Nat  BY <1>1, <1>2, FileIs
  <2>3. \A d : d \in Visible(handle) <=> d \in files[handle].lines /\ d < files[handle].len
    BY DEF Visible
  <2>4. e = CutEnd(Visible(handle), size, CutUpTo)  OBVIOUS
  <2>5. CutUpTo < size  BY <1>1
  <2> HIDE DEF e
  <2>6. PICK ls \in SUBSET Nat, vis \in SUBSET Nat, len \in Nat, total \in Nat, s \in Nat, x \in Nat :
          /\ ls = files[handle].lines /\ vis = Visible(handle)
          /\ len = files[handle].len /\ total = size /\ s = CutUpTo /\ x = e
    BY <1>2, <1>3, <1>4, <1>5, <2>2
  <2>7. /\ s < total /\ total <= len /\ x = CutEnd(vis, total, s)
        /\ \A d : d \in vis <=> d \in ls /\ d < len
    BY <2>1, <2>3, <2>4, <2>5, <2>6
  <2>8. \/ x = total \/ x - 1 \in ls
        \/ s + MaxFrame < total /\ \A d \in ls : ~ (s <= d /\ d < s + MaxFrame)
    BY <2>7, CutEndWell
  <2> QED  BY <2>6, <2>8
<1> HIDE DEF e
<1>7. r \in Frame /\ r.start = CutUpTo /\ EndOf(r) = e  BY <1>3, <1>5 DEF Frame, EndOf
<1> HIDE DEF r
<1>8. ~ shrunk => EndsWell(r, files[handle].lines, size)  BY <1>6, <1>7 DEF EndsWell
<1>9. /\ Len(frames') = N + 1 /\ frames'[N + 1] = r
      /\ \A i \in 1..N : frames'[i] = frames[i]
  BY <1>1, <1>2, <1>7
<1>10. \A i \in 1..(N + 1) : i \in 1..N \/ i = N + 1  BY <1>2
<1>11. Adjacent(frames)'
  <2>1. ASSUME NEW i \in 1..N
        PROVE  frames'[i].start = IF i = 1 THEN 0 ELSE EndOf(frames'[i - 1])
    <3>1. frames[i].start = IF i = 1 THEN 0 ELSE EndOf(frames[i - 1])
      BY <1>2 DEF SnapInv, Adjacent
    <3>2. i # 1 => i - 1 \in 1..N  BY <1>2
    <3> QED  BY <1>9, <3>1, <3>2
  <2>2. r.start = IF N + 1 = 1 THEN 0 ELSE EndOf(frames'[N])
    <3>1. CutUpTo = IF N = 0 THEN 0 ELSE EndOf(frames[N])  BY <1>2 DEF CutUpTo
    <3>2. N # 0 => N \in 1..N  BY <1>2
    <3> QED  BY <1>2, <1>7, <1>9, <3>1, <3>2
  <2>3. N + 1 - 1 = N  BY <1>2
  <2>4. \A i \in 1..(N + 1) : frames'[i].start = IF i = 1 THEN 0 ELSE EndOf(frames'[i - 1])
    <3>1. ASSUME NEW i, i = N + 1
          PROVE  frames'[i].start = IF i = 1 THEN 0 ELSE EndOf(frames'[i - 1])
      <4>1. i - 1 = N /\ frames'[i] = r /\ (i = 1 <=> N + 1 = 1)  BY <1>2, <1>9, <2>3, <3>1
      <4> QED  BY <2>2, <4>1
    <3> QED  BY <1>10, <2>1, <3>1
  <2> QED  BY <1>9, <2>4 DEF Adjacent, EndOf
<1>12. CutUpTo' = e
  <2>1. frames' # <<>> /\ N' = N + 1  BY <1>2, <1>9 DEF N
  <2>2. CutUpTo' = EndOf(frames'[N + 1])  BY <2>1 DEF CutUpTo, EndOf
  <2> QED  BY <1>7, <1>9, <2>2
<1>13. Sized'
  <2>1. ~ shrunk => size <= files[handle].len  BY <1>1 DEF SnapInv, Sized, Framing
  <2> QED  BY <1>1, <1>5, <1>12, <2>1 DEF Sized
<1>14. CutWell'
  <2> SUFFICES ASSUME ~ shrunk, files[handle].table = <<>>, NEW i \in 1..Len(frames')
               PROVE  EndsWell(frames'[i], files[handle].lines, size)
    BY <1>1 DEF CutWell, EndsWell, EndOf, N
  <2>1. \A j \in 1..N : EndsWell(frames[j], files[handle].lines, size)
    BY <1>1 DEF SnapInv, CutWell, Framing
  <2> QED  BY <1>8, <1>9, <1>10, <2>1
<1> QED  BY <1>1, <1>11, <1>13, <1>14, SnapMade

LEMMA JoinSnap == ASSUME IInv, IInv', SnapInv, Join PROVE SnapInv'
<1>1. /\ TypeOK /\ TypeOK' /\ call = "read" /\ UNCHANGED disk
      /\ UNCHANGED <<frames, workers, handle, size, kind, files>>
      /\ call' \in {"stream", "framed", "failed"}
  <2>1. call' \in {"stream", "framed", "failed"}
    <3> DEFINE failed == {why[w] : w \in Active(N)} \ {"none"}
    <3>1. CASE failed = {}  BY <3>1 DEF Join
    <3>2. CASE failed # {}  BY <3>2 DEF Join
    <3> QED  BY <3>1, <3>2
  <2> QED  BY <2>1 DEF IInv, Join, disk
<1>2. FilesKept /\ TablesReal'  BY <1>1, SameFiles DEF SnapInv, TablesReal
<1>3. ASSUME call' = "framed" PROVE Active(N) # {}
  <2> DEFINE failed == {why[v] : v \in Active(N)} \ {"none"}
  <2>1. failed = {}  BY <1>3 DEF Join
  <2> QED  BY <1>3, <2>1 DEF Join
<1>4. ASSUME call' = "framed", NEW w \in Active(N) PROVE pc[w] = "done"
  <2> DEFINE failed == {why[v] : v \in Active(N)} \ {"none"}
  <2>1. failed = {}  BY <1>4 DEF Join
  <2>2. \A v \in Active(N) : why[v] = "none"  BY <2>1
  <2>3. Active(N) \subseteq Worker  BY <1>1, Framed
  <2>4. \A v \in Active(N) : pc[v] # "failed"  BY <2>2, <2>3 DEF SnapInv, ErrorKept
  <2>5. pc[w] # "skipped"  BY <2>3, <2>4 DEF SnapInv, ErrorKept
  <2>6. pc[w] \in {"done", "failed", "skipped"}  BY DEF Join
  <2> QED  BY <2>4, <2>5, <2>6
<1>5. Framing /\ CutUpTo = size  BY <1>1 DEF SnapInv, Sized, Framing
<1>6. call' = "framed" => AllDone  BY <1>3, <1>4 DEF AllDone
<1> QED  BY <1>1, <1>2, <1>5, <1>6, SnapKept

(* The other steps of the scan's own thread, and the writer's.             *)
LEMMA OtherSnap ==
  ASSUME IInv, IInv', SnapInv, Writer \/ Fresh \/ CutDone \/ Single \/ UNCHANGED vars
  PROVE  SnapInv'
<1>1. TypeOK /\ TypeOK'  BY DEF IInv
<1>2. CASE UNCHANGED <<call, handle, size, frames, workers>> /\ FilesKept /\ TablesReal'
  <2>1. Framing' = Framing  BY <1>2 DEF Framing
  <2>2. Framing => (call' # "cut" => CutUpTo = size)  BY <1>2 DEF SnapInv, Sized
  <2>3. call' = "framed" => AllDone  BY <1>2 DEF SnapInv
  <2> QED  BY <1>1, <1>2, <2>1, <2>2, <2>3, SnapKept
<1>3. CASE Writer
  <2>1. UNCHANGED <<call, handle, size, frames, workers>>  BY <1>3 DEF Writer
  <2> QED  BY <1>1, <1>2, <1>3, <2>1, WriterKeeps, WriterTables
<1>4. UNCHANGED disk => FilesKept /\ TablesReal'
  BY <1>1, SameFiles DEF SnapInv, TablesReal, disk
<1>5. CASE UNCHANGED vars
  <2>1. UNCHANGED <<call, handle, size, frames, workers>> /\ UNCHANGED disk
    BY <1>5 DEF vars
  <2> QED  BY <1>2, <1>4, <2>1
<1>6. CASE Fresh \/ Single
  <2>1. UNCHANGED disk /\ UNCHANGED <<frames, workers>>
    BY <1>6 DEF Fresh, Single, OpenStream, TakeLine, Fill, TakeTorn, EndOfBatch
  <2>2. call' \notin {"cut", "read", "framed"}
    <3>1. CASE Fresh  BY <3>1 DEF Fresh
    <3>2. CASE Single
      BY <3>2 DEF Single, OpenStream, TakeLine, Fill, TakeTorn, EndOfBatch, AtEnd
    <3> QED  BY <1>6, <3>1, <3>2
  <2>3. ~ Framing'  BY <2>2 DEF Framing
  <2> QED  BY <1>1, <1>4, <2>1, <2>3, SnapKept
<1>7. CASE CutDone
  <2>1. /\ UNCHANGED disk /\ UNCHANGED <<frames, workers, handle, size>>
        /\ call = "cut" /\ call' = "read" /\ CutUpTo = size
    BY <1>7 DEF CutDone
  <2>2. Framing  BY <2>1 DEF Framing
  <2> QED  BY <1>1, <1>4, <2>1, <2>2, SnapKept
<1> QED  BY <1>3, <1>5, <1>6, <1>7

-----------------------------------------------------------------------------
(* The steps of the workers.                                               *)

(* The other workers, and all else.                                        *)
LEMMA SnapStepped ==
  ASSUME IInv, SnapInv, NEW w \in Active(N), w \in Worker,
         UNCHANGED <<kind, files, shrunk, call, handle, size, frames>>,
         pc[w] \notin {"done", "failed"},
         \A v \in Worker : v # w =>
           /\ pc'[v] = pc[v] /\ fd'[v] = fd[v] /\ at'[v] = at[v] /\ why'[v] = why[v]
           /\ pieces'[v] = pieces[v],
         why' \in [Worker -> {"clone", "read", "none"}],
         WholeFrames(w)', ErrorKept(w)'
  PROVE  SnapInv'
<1>1. Active(N)' = Active(N) /\ N' = N /\ \A v \in Worker : Chunk(N, v)' = Chunk(N, v)
  BY SameChunks
<1>2. call # "framed"  BY DEF SnapInv, AllDone
<1>3. ASSUME NEW v \in Worker, v # w PROVE WholeFrames(v)'
  <2> SUFFICES ASSUME Framing, ~ shrunk, fd[v] = handle PROVE WholeFrames(v)'
    BY <1>3 DEF WholeFrames, Framing
  <2>1. /\ \A i \in 1..Len(pieces[v]) : \E g \in Chunk(N, v) : Covers(v, i, g)
        /\ \A g \in Chunk(N, v) :
             Passed(v, g) /\ frames[g].len > 0 =>
               \E i \in 1..Len(pieces[v]) : Covers(v, i, g)
    BY DEF SnapInv, WholeFrames
  <2>2. \A i, g : Covers(v, i, g)' = Covers(v, i, g)  BY <1>3 DEF Covers
  <2>3. \A g : Passed(v, g)' = Passed(v, g)  BY <1>3 DEF Passed, InWork
  <2> QED  BY <1>1, <1>3, <2>1, <2>2, <2>3 DEF WholeFrames
<1>4. ASSUME NEW v \in Worker, v # w PROVE ErrorKept(v)'
  <2>1. ErrorKept(v) /\ pc'[v] = pc[v] /\ why'[v] = why[v]  BY <1>4 DEF SnapInv
  <2>2. ASSUME pc[v] = "skipped" PROVE \E u \in Active(N) : pc'[u] = "failed"
    <3>1. PICK u \in Active(N) : pc[u] = "failed"  BY <2>1, <2>2 DEF ErrorKept
    <3>2. u # w /\ u \in Worker  BY <3>1, Framed DEF IInv
    <3> QED  BY <3>1, <3>2
  <2> QED  BY <1>1, <2>1, <2>2 DEF ErrorKept
<1>5. TablesReal'  BY DEF SnapInv, TablesReal
<1>6. Adjacent(frames)'  BY DEF SnapInv, Adjacent, EndOf
<1>7. CutUpTo' = CutUpTo  BY <1>1 DEF CutUpTo, EndOf
<1>8. Sized'  BY <1>7 DEF SnapInv, Sized, Framing
<1>9. CutWell'
  <2> SUFFICES ASSUME Framing, ~ shrunk, files[handle].table = <<>>
               PROVE  \A i \in 1..N : EndsWell(frames[i], files[handle].lines, size)
    BY <1>1 DEF CutWell, Framing, EndsWell, EndOf
  <2> QED  BY DEF SnapInv, CutWell
<1> QED  BY <1>2, <1>3, <1>4, <1>5, <1>6, <1>8, <1>9 DEF SnapInv

(* A step that parses nothing and passes no frame with bytes.              *)
LEMMA WholeKept ==
  ASSUME SnapInv, NEW w \in Worker,
         UNCHANGED <<shrunk, call, handle, frames>>, pieces'[w] = pieces[w],
         fd'[w] = fd[w] \/ pieces[w] = <<>>,
         \A g \in Chunk(N, w) : Passed(w, g)' /\ frames[g].len > 0 =>
                                  Passed(w, g) /\ fd'[w] = fd[w]
  PROVE  WholeFrames(w)'
<1>1. N' = N /\ Chunk(N, w)' = Chunk(N, w)  BY SameChunks
<1> SUFFICES ASSUME Framing, ~ shrunk, fd'[w] = handle PROVE WholeFrames(w)'
  BY DEF WholeFrames, Framing
<1>2. \A i, g : Covers(w, i, g)' = Covers(w, i, g)  BY DEF Covers
<1>3. CASE fd'[w] = fd[w]
  <2>1. /\ \A i \in 1..Len(pieces[w]) : \E g \in Chunk(N, w) : Covers(w, i, g)
        /\ \A g \in Chunk(N, w) :
             Passed(w, g) /\ frames[g].len > 0 =>
               \E i \in 1..Len(pieces[w]) : Covers(w, i, g)
    BY <1>3 DEF SnapInv, WholeFrames
  <2> QED  BY <1>1, <1>2, <2>1 DEF WholeFrames
<1>4. CASE fd'[w] # fd[w]
  <2>1. Len(pieces'[w]) = 0  BY <1>4
  <2> QED  BY <1>1, <1>4, <2>1 DEF WholeFrames
<1> QED  BY <1>3, <1>4

LEMMA CloneSnap ==
  ASSUME IInv, SnapInv, NEW w \in Active(N), CloneHandle(w) PROVE SnapInv'
<1>1. TypeOK /\ N \in Nat /\ w \in Worker /\ WorkerOK(w)  BY Framed DEF IInv
<1>2. /\ call = "read" /\ pc[w] = "idle"
      /\ UNCHANGED <<kind, files, shrunk, frames, call, handle, size, pieces>>
  BY DEF CloneHandle, disk
<1>3. pieces[w] = <<>>  BY <1>1, <1>2 DEF WorkerOK
<1>4. CASE /\ pc' = [pc EXCEPT ![w] = "frame"] /\ at' = [at EXCEPT ![w] = FirstFrame(N, w)]
           /\ \E f \in Opened : fd' = [fd EXCEPT ![w] = f]
           /\ why' = why
  <2>1. PICK f : fd' = [fd EXCEPT ![w] = f]  BY <1>4
  <2>2. pc'[w] = "frame" /\ at'[w] = FirstFrame(N, w)  BY <1>1, <1>4 DEF TypeOK
  <2>3. \A v \in Worker : v # w => pc'[v] = pc[v] /\ fd'[v] = fd[v] /\ at'[v] = at[v]
    BY <1>1, <1>4, <2>1 DEF TypeOK
  <2>4. ASSUME NEW g \in Chunk(N, w) PROVE ~ Passed(w, g)'
    <3>1. g \in 1..N /\ FirstFrame(N, w) \in 1..N  BY <1>1, Framed, ActiveWorkers
    <3>2. FirstFrame(N, w) <= g  BY <2>4, <3>1 DEF Chunk
    <3>3. ~ (g < FirstFrame(N, w))  BY <1>1, <3>1, <3>2
    <3> QED  BY <2>2, <3>3 DEF Passed, InWork
  <2>5. WholeFrames(w)'  BY <1>1, <1>2, <1>3, <2>4, WholeKept
  <2>6. ErrorKept(w)'  BY <2>2 DEF ErrorKept
  <2>7. why' \in [Worker -> {"clone", "read", "none"}]  BY <1>4 DEF SnapInv
  <2> QED  BY <1>1, <1>2, <1>4, <2>3, <2>5, <2>6, <2>7, SnapStepped
<1>5. CASE Fail(w, "clone") /\ UNCHANGED <<fd, at>>
  <2>1. pc'[w] = "failed" /\ \A v \in Worker : v # w => pc'[v] = pc[v]
    BY <1>1, <1>5 DEF TypeOK, Fail
  <2>2. /\ why' \in [Worker -> {"clone", "read", "none"}] /\ why'[w] = "clone"
        /\ \A v \in Worker : v # w => why'[v] = why[v]
    BY <1>1, <1>5 DEF SnapInv, Fail
  <2>3. \A g \in Chunk(N, w) : ~ Passed(w, g)'  BY <2>1 DEF Passed, InWork
  <2>4. WholeFrames(w)'  BY <1>1, <1>2, <1>3, <2>3, WholeKept
  <2>5. ErrorKept(w)'  BY <2>1, <2>2 DEF ErrorKept
  <2> QED  BY <1>1, <1>2, <1>5, <2>1, <2>2, <2>4, <2>5, SnapStepped
<1> QED  BY <1>4, <1>5 DEF CloneHandle

LEMMA SkipSnap ==
  ASSUME IInv, SnapInv, NEW w \in Active(N), SkipTask(w) PROVE SnapInv'
<1>1. TypeOK /\ N \in Nat /\ w \in Worker /\ WorkerOK(w)  BY Framed DEF IInv
<1>2. /\ pc[w] = "idle" /\ pc' = [pc EXCEPT ![w] = "skipped"]
      /\ UNCHANGED <<kind, files, shrunk, frames, call, handle, size>>
      /\ UNCHANGED <<pieces, fd, at, why>>
  BY DEF SkipTask, disk
<1>3. pc'[w] = "skipped" /\ \A v \in Worker : v # w => pc'[v] = pc[v]
  BY <1>1, <1>2 DEF TypeOK
<1>4. \A g \in Chunk(N, w) : ~ Passed(w, g)'  BY <1>3 DEF Passed, InWork
<1>5. WholeFrames(w)'  BY <1>1, <1>2, <1>4, WholeKept
<1>6. ErrorKept(w)'
  <2>1. PICK v \in Active(N) : pc[v] = "failed"  BY DEF SkipTask
  <2>2. v # w /\ v \in Worker  BY <1>1, <1>2, <2>1, Framed
  <2>3. pc'[v] = "failed" /\ Active(N)' = Active(N)  BY <1>2, <1>3, <2>1, <2>2, SameChunks
  <2> QED  BY <1>3, <2>3 DEF ErrorKept
<1>7. why' \in [Worker -> {"clone", "read", "none"}]  BY <1>2 DEF SnapInv
<1> QED  BY <1>1, <1>2, <1>3, <1>5, <1>6, <1>7, SnapStepped

(* The frame that a worker leaves is the only one it passes.               *)
LEMMA PassedNext ==
  ASSUME IInv, NEW w \in Active(N), InWork(w), NextFrame(w), NEW g \in Chunk(N, w)
  PROVE  Passed(w, g)' => Passed(w, g) \/ g = at[w]
<1>1. /\ TypeOK /\ N \in Nat /\ w \in Worker /\ at[w] \in Chunk(N, w) /\ at[w] \in Nat
  BY AtWork
<1>2. g \in 1..N /\ g \in Nat  BY <1>1, Framed
<1>3. g <= at[w] => Passed(w, g) \/ g = at[w]  BY <1>1, <1>2 DEF Passed
<1>4. CASE at[w] = LastFrame(N, w)
  <2>1. g <= LastFrame(N, w)  BY <1>1, <1>2 DEF Chunk
  <2> QED  BY <1>3, <1>4, <2>1
<1>5. CASE at[w] # LastFrame(N, w)
  <2>1. pc' = [pc EXCEPT ![w] = "frame"] /\ at' = [at EXCEPT ![w] = at[w] + 1]
    BY <1>5 DEF NextFrame
  <2>2. pc'[w] = "frame" /\ at'[w] = at[w] + 1  BY <1>1, <2>1 DEF TypeOK
  <2>3. Passed(w, g)' => g < at[w] + 1  BY <2>2 DEF Passed
  <2>4. g < at[w] + 1 => g <= at[w]  BY <1>1, <1>2
  <2> QED  BY <1>3, <2>3, <2>4
<1> QED  BY <1>4, <1>5

LEMMA SeekSnap ==
  ASSUME IInv, SnapInv, NEW w \in Active(N), SeekFrame(w) PROVE SnapInv'
<1>1. InWork(w)  BY DEF SeekFrame, InWork
<1>2. TypeOK /\ N \in Nat /\ w \in Worker /\ at[w] \in Chunk(N, w) /\ at[w] \in Nat
  BY <1>1, AtWork
<1>3. /\ pc[w] = "frame" /\ UNCHANGED <<kind, files, shrunk, frames, call, handle, size>>
      /\ UNCHANGED <<fd, pieces>>
  BY DEF SeekFrame, disk
<1>4. CASE frames[at[w]].len = 0 /\ NextFrame(w) /\ why' = why
  <2>1. /\ pc'[w] \in {"done", "frame"} /\ pc' = [pc EXCEPT ![w] = pc'[w]]
        /\ \A v \in Worker : v # w => at'[v] = at[v]
    BY <1>2, <1>4, NextFrameIs
  <2>2. \A v \in Worker : v # w => pc'[v] = pc[v]  BY <1>2, <2>1 DEF TypeOK
  <2>3. \A g \in Chunk(N, w) : Passed(w, g)' /\ frames[g].len > 0 => Passed(w, g)
    BY <1>1, <1>4, PassedNext
  <2>4. WholeFrames(w)'  BY <1>2, <1>3, <2>3, WholeKept
  <2>5. ErrorKept(w)'  BY <2>1 DEF ErrorKept
  <2>6. why' \in [Worker -> {"clone", "read", "none"}]  BY <1>4 DEF SnapInv
  <2> QED  BY <1>2, <1>3, <1>4, <2>1, <2>2, <2>4, <2>5, <2>6, SnapStepped
<1>5. CASE pc' = [pc EXCEPT ![w] = "bytes"] /\ UNCHANGED <<at, why>>
  <2>1. pc'[w] = "bytes" /\ \A v \in Worker : v # w => pc'[v] = pc[v]
    BY <1>2, <1>5 DEF TypeOK
  <2>2. \A g \in Chunk(N, w) : Passed(w, g)' => Passed(w, g)
    BY <1>1, <1>5, <2>1 DEF Passed
  <2>3. WholeFrames(w)'  BY <1>2, <1>3, <2>2, WholeKept
  <2>4. ErrorKept(w)'  BY <2>1 DEF ErrorKept
  <2>5. why' \in [Worker -> {"clone", "read", "none"}]  BY <1>5 DEF SnapInv
  <2> QED  BY <1>2, <1>3, <1>5, <2>1, <2>3, <2>4, <2>5, SnapStepped
<1>6. CASE Fail(w, "read") /\ UNCHANGED at
  <2>1. pc'[w] = "failed" /\ \A v \in Worker : v # w => pc'[v] = pc[v]
    BY <1>2, <1>6 DEF TypeOK, Fail
  <2>2. /\ why' \in [Worker -> {"clone", "read", "none"}] /\ why'[w] = "read"
        /\ \A v \in Worker : v # w => why'[v] = why[v]
    BY <1>2, <1>6 DEF SnapInv, Fail
  <2>3. \A g \in Chunk(N, w) : ~ Passed(w, g)'  BY <2>1 DEF Passed, InWork
  <2>4. WholeFrames(w)'  BY <1>2, <1>3, <2>3, WholeKept
  <2>5. ErrorKept(w)'  BY <2>1, <2>2 DEF ErrorKept
  <2> QED  BY <1>2, <1>3, <1>6, <2>1, <2>2, <2>4, <2>5, SnapStepped
<1> QED  BY <1>4, <1>5, <1>6 DEF SeekFrame

LEMMA ReadSnap ==
  ASSUME IInv, SnapInv, NEW w \in Active(N), ReadBytes(w) PROVE SnapInv'
<1>1. pc[w] = "bytes" /\ InWork(w)  BY DEF ReadBytes, InWork
<1>2. TypeOK /\ w \in Worker  BY <1>1, AtWork
<1>3. UNCHANGED <<kind, files, shrunk, frames, call, handle, size, pc, fd, at, why, pieces>>
  BY DEF ReadBytes, disk
<1>4. \A g \in Chunk(N, w) : Passed(w, g)' => Passed(w, g)  BY <1>3 DEF Passed, InWork
<1>5. WholeFrames(w)'  BY <1>2, <1>3, <1>4, WholeKept
<1>6. ErrorKept(w)'  BY <1>1, <1>3 DEF ErrorKept
<1>7. why' \in [Worker -> {"clone", "read", "none"}]  BY <1>3 DEF SnapInv
<1> QED  BY <1>1, <1>2, <1>3, <1>5, <1>6, <1>7, SnapStepped

(* The file the frames were cut from does not end before a frame does.     *)
LEMMA ParsedWhole ==
  ASSUME IInv, SnapInv, NEW w \in Active(N), ParseFrame(w),
         Framing, ~ shrunk, fd[w] = handle
  PROVE  got[w] = frames[at[w]].len
<1>1. pc[w] = "bytes" /\ InWork(w)  BY DEF ParseFrame, InWork
<1>2. /\ TypeOK /\ w \in Worker /\ WorkerOK(w) /\ at[w] \in 1..N /\ got[w] \in Nat
      /\ frames[at[w]].start \in Nat /\ frames[at[w]].len \in Nat
      /\ files[handle].len \in Nat
  BY <1>1, AtWork
<1>3. got[w] <= frames[at[w]].len  BY <1>1, <1>2 DEF WorkerOK
<1>4. call # "cut"  BY <1>1, AtWork
<1>5. EndOf(frames[at[w]]) <= files[handle].len
  <2>1. CutUpTo = size /\ size <= files[handle].len  BY <1>4 DEF SnapInv, Sized
  <2>2. CutUpTo \in Nat /\ EndOf(frames[at[w]]) <= CutUpTo  BY <1>2, FramesUpTo
  <2>3. EndOf(frames[at[w]]) \in Nat  BY <1>2 DEF EndOf
  <2> QED  BY <1>2, <2>1, <2>2, <2>3
<1>6. Left(w) = 0 \/ There(w) <= 0  BY DEF ParseFrame
<1>7. Left(w) = 0 => got[w] = frames[at[w]].len  BY <1>2 DEF Left
<1>8. There(w) <= 0 => got[w] >= frames[at[w]].len  BY <1>2, <1>5 DEF There, EndOf
<1> QED  BY <1>2, <1>3, <1>6, <1>7, <1>8

LEMMA ParseSnap ==
  ASSUME IInv, SnapInv, NEW w \in Active(N), ParseFrame(w) PROVE SnapInv'
<1> DEFINE p == [file |-> fd[w], start |-> frames[at[w]].start, len |-> got[w]]
           n == Len(pieces[w])
<1>1. pc[w] = "bytes" /\ InWork(w)  BY DEF ParseFrame, InWork
<1>2. /\ TypeOK /\ N \in Nat /\ w \in Worker /\ at[w] \in Chunk(N, w) /\ at[w] \in Nat
      /\ got[w] \in Nat /\ frames[at[w]].start \in Nat
  BY <1>1, AtWork
<1>3. /\ UNCHANGED <<kind, files, shrunk, frames, call, handle, size, fd, why>>
      /\ NextFrame(w) /\ pieces' = [pieces EXCEPT ![w] = Append(pieces[w], p)]
  BY DEF ParseFrame, ParseAs, disk
<1>4. /\ pc'[w] \in {"done", "frame"} /\ pc' = [pc EXCEPT ![w] = pc'[w]]
      /\ \A v \in Worker : v # w => at'[v] = at[v]
  BY <1>2, <1>3, NextFrameIs
<1>5. \A v \in Worker : v # w => pc'[v] = pc[v] /\ pieces'[v] = pieces[v]
  BY <1>2, <1>3, <1>4 DEF TypeOK
<1>6. /\ pieces[w] \in Seq(Piece) /\ n \in Nat /\ pieces'[w] = Append(pieces[w], p)
  BY <1>2, <1>3 DEF TypeOK
<1>7. /\ Len(pieces'[w]) = n + 1 /\ pieces'[w][n + 1] = p
      /\ \A i \in 1..n : pieces'[w][i] = pieces[w][i]
  BY <1>6
<1>8. p.start = frames[at[w]].start /\ p.len = got[w]  OBVIOUS
<1> HIDE DEF p, n
<1>9. WholeFrames(w)'
  <2> SUFFICES ASSUME Framing, ~ shrunk, fd[w] = handle PROVE WholeFrames(w)'
    BY <1>3 DEF WholeFrames, Framing
  <2>1. got[w] = frames[at[w]].len  BY ParsedWhole
  <2>2. /\ \A i \in 1..n : \E g \in Chunk(N, w) : Covers(w, i, g)
        /\ \A g \in Chunk(N, w) :
             Passed(w, g) /\ frames[g].len > 0 => \E i \in 1..n : Covers(w, i, g)
    BY <1>2 DEF SnapInv, WholeFrames, n
  <2>3. \A i \in 1..n : \A g : Covers(w, i, g) => Covers(w, i, g)'
    BY <1>3, <1>7 DEF Covers
  <2>4. ASSUME NEW i, i = n + 1, NEW g, g = at[w] PROVE Covers(w, i, g)'
    <3>1. pieces'[w][i] = p /\ frames'[g] = frames[at[w]]  BY <1>3, <1>7, <2>4
    <3> QED  BY <1>8, <2>1, <3>1 DEF Covers
  <2>5. Chunk(N, w)' = Chunk(N, w)  BY <1>2, <1>3, SameChunks
  <2>6. \A i \in 1..(n + 1) : i \in 1..n \/ i = n + 1  BY <1>6
  <2>7. 1..n \subseteq 1..(n + 1) /\ n + 1 \in 1..(n + 1)  BY <1>6
  <2>8. \A i \in 1..(n + 1) : \E g \in Chunk(N, w) : Covers(w, i, g)'
    BY <1>2, <2>2, <2>3, <2>4, <2>6
  <2>9. ASSUME NEW g \in Chunk(N, w), Passed(w, g)', frames[g].len > 0
        PROVE  \E i \in 1..(n + 1) : Covers(w, i, g)'
    <3>1. CASE Passed(w, g)  BY <2>2, <2>3, <2>7, <2>9, <3>1
    <3>2. CASE g = at[w]  BY <2>4, <2>7, <3>2
    <3> QED  BY <1>1, <1>3, <2>9, <3>1, <3>2, PassedNext
  <2> QED  BY <1>3, <1>7, <2>5, <2>8, <2>9 DEF WholeFrames
<1>10. ErrorKept(w)'  BY <1>4 DEF ErrorKept
<1>11. why' \in [Worker -> {"clone", "read", "none"}]  BY <1>3 DEF SnapInv
<1> QED  BY <1>1, <1>2, <1>3, <1>4, <1>5, <1>9, <1>10, <1>11, SnapStepped

LEMMA SnapAlways == Spec => []SnapInv
<1>1. Init => SnapInv
  <2> SUFFICES ASSUME Init PROVE SnapInv  OBVIOUS
  <2>1. call = "start" /\ frames = <<>> /\ N = 0  BY DEF Init, N
  <2>2. ~ Framing /\ call # "framed"  BY <2>1 DEF Framing
  <2>3. PICK f \in NewFile(kind) : files = <<f>>  BY DEF Init
  <2>4. f.table # <<>> => kind = "zst" /\ f.len = f.table[Len(f.table)]
    BY <2>3, NewTable
  <2>5. \A g \in 1..Len(files) : files[g] = f  BY <2>3
  <2>6. TablesReal  BY <2>4, <2>5 DEF TablesReal
  <2>7. Adjacent(frames)  BY <2>1 DEF Adjacent
  <2>8. Sized /\ CutWell /\ \A w \in Worker : WholeFrames(w)
    BY <2>2 DEF Sized, CutWell, WholeFrames
  <2>9. \A w \in Worker : ErrorKept(w)  BY DEF Init, ErrorKept
  <2>10. why \in [Worker -> {"clone", "read", "none"}]  BY DEF Init
  <2> QED  BY <2>2, <2>6, <2>7, <2>8, <2>9, <2>10 DEF SnapInv
<1>2. ASSUME IInv, IInv', SnapInv, [Next]_vars PROVE SnapInv'
  <2>1. CASE Main  BY <1>2, <2>1, ProbeSnap, CutSnap, JoinSnap, OtherSnap DEF Main
  <2>2. CASE \E w \in Active(N) : Step(w)
    BY <1>2, <2>2, CloneSnap, SkipSnap, SeekSnap, ReadSnap, ParseSnap DEF Step
  <2>3. CASE Writer \/ UNCHANGED vars  BY <1>2, <2>3, OtherSnap
  <2> QED  BY <1>2, <2>1, <2>2, <2>3 DEF Next
<1> QED  BY <1>1, <1>2, Inductive, PTL DEF Spec

-----------------------------------------------------------------------------
(* The answer.                                                             *)

(* Every frame ends at a line, if the writer keeps its side.               *)
LEMMA FramesAtLines ==
  ASSUME IInv, SnapInv, call = "framed", ~ shrunk, LinesFitFrames, NEW i \in 1..N
  PROVE  /\ AtLine(handle, frames[i].start, size) /\ AtLine(handle, EndOf(frames[i]), size)
         /\ EndOf(frames[i]) \in Nat /\ EndOf(frames[i]) <= size
<1>1. /\ TypeOK /\ N \in Nat /\ N = Len(frames) /\ CutUpTo = size /\ size \in Nat
  BY Framed DEF IInv, SnapInv, Sized, Framing, TypeOK, N
<1>2. ASSUME NEW j \in 1..N PROVE AtLine(handle, EndOf(frames[j]), size)
  <2>1. CASE files[handle].table # <<>> /\ j # N
    <3>1. j \in 1..(N - 1)  BY <1>1, <2>1
    <3> QED  BY <2>1, <3>1 DEF LinesFitFrames, AtLine
  <2>2. CASE j = N
    <3>1. frames # <<>>  BY <1>1, <2>2
    <3> QED  BY <1>1, <2>2, <3>1 DEF CutUpTo, AtLine
  <2>3. CASE files[handle].table = <<>>
    <3>1. EndsWell(frames[j], files[handle].lines, size)
      BY <2>3 DEF SnapInv, CutWell, Framing
    <3>2. frames[j].start \in Nat /\ EndOf(frames[j]) <= size /\ frames[j].len \in Nat
      BY <1>1, Framed, FramesUpTo
    <3>3. frames[j].start \in 0..size  BY <1>1, <3>2 DEF EndOf
    <3>4. frames[j].start + MaxFrame < size =>
            \E d \in files[handle].lines :
              frames[j].start <= d /\ d < frames[j].start + MaxFrame
      BY <2>3, <3>3 DEF LinesFitFrames
    <3> QED  BY <3>1, <3>4 DEF EndsWell, AtLine
  <2> QED  BY <2>1, <2>2, <2>3
<1>3. AtLine(handle, frames[i].start, size)
  <2>1. frames[i].start = IF i = 1 THEN 0 ELSE EndOf(frames[i - 1])
    BY <1>1 DEF SnapInv, Adjacent
  <2>2. i # 1 => i - 1 \in 1..N  BY <1>1
  <2> QED  BY <1>2, <2>1, <2>2 DEF AtLine
<1>4. EndOf(frames[i]) \in Nat /\ EndOf(frames[i]) <= size  BY <1>1, Framed, FramesUpTo
<1> QED  BY <1>2, <1>3, <1>4

(* Every offset is in a frame.                                             *)
LEMMA FrameOf ==
  ASSUME IInv, SnapInv, CutUpTo = size, NEW x \in Nat, x < size
  PROVE  \E g \in 1..N : frames[g].start <= x /\ x < EndOf(frames[g])
<1>1. /\ TypeOK /\ N \in Nat /\ N = Len(frames) /\ (frames = <<>> <=> N = 0)
  BY Framed DEF IInv, TypeOK, N
<1>2. size \in Nat  BY <1>1 DEF TypeOK
<1>3. N # 0 /\ N \in 1..N /\ 1 \in 1..N
  <2>1. frames # <<>>  BY <1>2 DEF CutUpTo
  <2> QED  BY <1>1, <2>1
<1>4. \A i \in 1..N : frames[i].start = IF i = 1 THEN 0 ELSE EndOf(frames[i - 1])
  BY <1>1 DEF SnapInv, Adjacent
<1> DEFINE S == {i \in 0..N : i # 0 /\ frames[i].start <= x}
<1>5. 1 \in S
  <2>1. frames[1].start = 0  BY <1>3, <1>4
  <2> QED  BY <1>1, <1>3, <2>1
<1>6. S \in SUBSET (0..N) /\ S # {}  BY <1>5
<1>7. PICK g \in S : \A i \in S : i <= g  BY <1>1, <1>6, GreatestIn
<1>8. g \in 1..N /\ frames[g].start <= x  BY <1>1, <1>7
<1>9. x < EndOf(frames[g])
  <2>1. CASE g = N  BY <1>1, <1>3, <2>1 DEF CutUpTo
  <2>2. CASE g # N
    <3>1. g + 1 \in 1..N /\ g + 1 # 1 /\ g + 1 - 1 = g  BY <1>1, <1>8, <2>2
    <3>2. frames[g + 1].start = EndOf(frames[g])  BY <1>4, <3>1
    <3>3. g + 1 \notin S  BY <1>7, <1>8
    <3>4. ~ (frames[g + 1].start <= x)  BY <1>1, <3>1, <3>3
    <3>5. EndOf(frames[g]) \in Nat  BY <1>1, <1>8, Framed
    <3> QED  BY <3>2, <3>4, <3>5
  <2> QED  BY <2>1, <2>2
<1> QED  BY <1>8, <1>9

(* What is parsed is the frames that have bytes.                           *)
LEMMA ParsedFrames ==
  ASSUME IInv, SnapInv, call = "framed", ~ shrunk, \A w \in Active(N) : fd[w] = handle
  PROVE  /\ \A p \in Parsed : \E g \in 1..N :
              p.file = handle /\ p.start = frames[g].start /\ p.len = frames[g].len
         /\ \A g \in 1..N : frames[g].len > 0 => \E p \in Parsed :
              p.file = handle /\ p.start = frames[g].start /\ p.len = frames[g].len
<1>1. TypeOK /\ N \in Nat /\ Framing /\ \A w \in Worker : WorkerOK(w) /\ WholeFrames(w)
  BY Framed DEF IInv, SnapInv, Framing
<1>2. ASSUME NEW w \in Worker, NEW i \in 1..Len(pieces[w])
      PROVE  /\ w \in Active(N) /\ pieces[w][i].file = handle /\ pieces[w][i] \in Parsed
             /\ \E g \in 1..N : Covers(w, i, g)
  <2>1. pieces[w] \in Seq(Piece)  BY <1>1 DEF TypeOK
  <2>2. PieceOK(w, pieces[w][i])  BY <1>1, <1>2 DEF WorkerOK
  <2>3. w \in Active(N) /\ pieces[w][i].file = handle  BY <2>2 DEF PieceOK
  <2>4. \E g \in Chunk(N, w) : Covers(w, i, g)  BY <1>1, <1>2, <2>3 DEF WholeFrames
  <2>5. Chunk(N, w) \subseteq 1..N  BY <1>1, <2>3, Framed
  <2>6. i \in DOMAIN pieces[w]  BY <1>2, <2>1
  <2>7. pieces[w][i] \in Parsed  BY <2>6 DEF Parsed
  <2> QED  BY <2>3, <2>4, <2>5, <2>7
<1>3. ASSUME NEW p \in Parsed
      PROVE  \E g \in 1..N :
               p.file = handle /\ p.start = frames[g].start /\ p.len = frames[g].len
  <2>1. PICK w \in Worker : p \in {pieces[w][i] : i \in DOMAIN pieces[w]}
    BY <1>3 DEF Parsed
  <2>2. pieces[w] \in Seq(Piece)  BY <1>1 DEF TypeOK
  <2>3. PICK i \in 1..Len(pieces[w]) : p = pieces[w][i]  BY <2>1, <2>2
  <2>4. PICK g \in 1..N : Covers(w, i, g)  BY <1>2, <2>3
  <2>5. p.file = handle /\ p.start = frames[g].start /\ p.len = frames[g].len
    BY <1>2, <2>3, <2>4 DEF Covers
  <2> QED  BY <2>5
<1>4. ASSUME NEW g \in 1..N, frames[g].len > 0
      PROVE  \E p \in Parsed :
               p.file = handle /\ p.start = frames[g].start /\ p.len = frames[g].len
  <2>1. PICK v \in Active(N) : TRUE  BY DEF SnapInv, AllDone
  <2>2. Workers(N) > 0  BY <1>1, <2>1, ActiveWorkers
  <2>3. PICK w \in Active(N) : g \in Chunk(N, w)  BY <1>1, <2>2, ChunksCover
  <2>4. w \in Worker /\ fd[w] = handle  BY <1>1, <2>3, Framed
  <2>5. pc[w] = "done"  BY <2>3 DEF SnapInv, AllDone
  <2>6. Passed(w, g)  BY <2>5 DEF Passed
  <2>7. PICK i \in 1..Len(pieces[w]) : Covers(w, i, g)
    BY <1>1, <1>4, <2>3, <2>4, <2>6 DEF WholeFrames
  <2>8. PICK p \in Parsed : p = pieces[w][i]  BY <1>2, <2>4, <2>7
  <2>9. p.file = handle /\ p.start = frames[g].start /\ p.len = frames[g].len
    BY <1>2, <2>4, <2>7, <2>8 DEF Covers
  <2> QED  BY <2>9
<1> QED  BY <1>3, <1>4

(* The parallel answer is the file as it was when the frames were cut: its *)
(* lines of that moment, each once, whatever is appended to it meanwhile.  *)
THEOREM AnswerIsSnapshot == Spec => []SnapshotLines
<1>1. ASSUME IInv, SnapInv PROVE SnapshotLines
  <2> SUFFICES ASSUME call = "framed", ~ shrunk, LinesFitFrames,
                      \A w \in Active(N) : fd[w] = handle
               PROVE  UNION {LinesIn(p.file, p.start, p.start + p.len) : p \in Parsed}
                        = LinesIn(handle, 0, size)
    BY DEF SnapshotLines
  <2>1. /\ TypeOK /\ handle \in 1..Len(files) /\ size \in Nat /\ CutUpTo = size
    BY <1>1 DEF IInv, TypeOK, SnapInv, Sized, Framing
  <2>2. ASSUME NEW g \in 1..N
        PROVE  LinesIn(handle, frames[g].start, frames[g].start + frames[g].len) =
                 {c \in LinesIn(handle, 0, size) :
                    frames[g].start <= c[1] /\ c[1] < EndOf(frames[g])}
    <3>1. frames[g].start \in Nat /\ frames[g].len \in Nat  BY <2>1, Framed
    <3>2. frames[g].start <= EndOf(frames[g])  BY <3>1 DEF EndOf
    <3>3. /\ AtLine(handle, frames[g].start, size) /\ AtLine(handle, EndOf(frames[g]), size)
          /\ EndOf(frames[g]) \in Nat /\ EndOf(frames[g]) <= size
      BY <1>1, FramesAtLines
    <3>4. LinesIn(handle, frames[g].start, EndOf(frames[g])) =
            {c \in LinesIn(handle, 0, size) :
               frames[g].start <= c[1] /\ c[1] < EndOf(frames[g])}
      BY <2>1, <3>1, <3>2, <3>3, LinesOfFrame
    <3> QED  BY <3>4 DEF EndOf
  <2>3. ASSUME NEW p \in Parsed
        PROVE  LinesIn(p.file, p.start, p.start + p.len) \subseteq LinesIn(handle, 0, size)
    <3>1. PICK g \in 1..N :
            p.file = handle /\ p.start = frames[g].start /\ p.len = frames[g].len
      BY <1>1, ParsedFrames
    <3> QED  BY <2>2, <3>1
  <2>4. ASSUME NEW c \in LinesIn(handle, 0, size)
        PROVE  \E p \in Parsed : c \in LinesIn(p.file, p.start, p.start + p.len)
    <3>1. c[1] \in Nat /\ c[1] < size
      <4>1. /\ c \in CutsOf(handle, 0, size) \X CutsOf(handle, 0, size)
            /\ c[1] < c[2]
        BY LinesAre
      <4>2. c[1] \in CutsOf(handle, 0, size) /\ c[2] \in CutsOf(handle, 0, size)  BY <4>1
      <4>3. c[1] \in Nat /\ c[2] \in Nat  BY <2>1, <4>2, CutIs
      <4>4. c[2] <= size
        <5>1. \/ c[2] = 0 \/ c[2] = size \/ c[2] - 1 < size
          BY <2>1, <4>2, <4>3, CutIs
        <5> QED  BY <2>1, <4>3, <5>1
      <4> QED  BY <2>1, <4>1, <4>3, <4>4
    <3>2. PICK g \in 1..N : frames[g].start <= c[1] /\ c[1] < EndOf(frames[g])
      BY <1>1, <2>1, <3>1, FrameOf
    <3>3. c \in LinesIn(handle, frames[g].start, frames[g].start + frames[g].len)
      BY <2>2, <3>2
    <3>4. frames[g].len > 0
      <4>1. frames[g].start \in Nat /\ frames[g].len \in Nat  BY <2>1, Framed
      <4> QED  BY <3>1, <3>2, <4>1 DEF EndOf
    <3>5. PICK p \in Parsed :
            p.file = handle /\ p.start = frames[g].start /\ p.len = frames[g].len
      BY <1>1, <3>4, ParsedFrames
    <3> QED  BY <3>3, <3>5
  <2> QED  BY <2>3, <2>4
<1> QED  BY <1>1, Inductive, SnapAlways, PTL
=============================================================================
