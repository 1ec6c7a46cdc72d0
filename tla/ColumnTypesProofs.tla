--------------------------- MODULE ColumnTypesProofs ---------------------------
(***************************************************************************)
(* The types of a column, for every text, schema, batch and share of the   *)
(* rows: what polars is promised, what the two paths make of it, and which *)
(* values are lost.                                                        *)
(***************************************************************************)
EXTENDS ColumnTypes, TLAPS, WellFoundedInduction, FiniteSetTheorems

-----------------------------------------------------------------------------
(* Types and values.                                                       *)

LEMMA MergedTypes == \A a, b \in Types : Merged(a, b) \in Types
BY DEF Types, Merged

(* No value is lost to widening: what a row's type accepted, the column's  *)
(* merged type accepts.                                                    *)
THEOREM WideningKeeps ==
  \A a, b \in Types : /\ Accepted(a) \subseteq Accepted(Merged(a, b))
                      /\ Accepted(b) \subseteq Accepted(Merged(a, b))
BY DEF Types, Merged, Accepted, Classes

(* Every text has an inferred type, and the type accepts it.               *)
THEOREM InferredAccepts ==
  \A v \in Classes : InferType(v) \in Types /\ v \in Accepted(InferType(v))
<1> SUFFICES ASSUME NEW v \in Classes
             PROVE  InferType(v) \in Types /\ v \in Accepted(InferType(v))
  OBVIOUS
<1> DEFINE Earliest(i) == /\ v \in Accepted(Tried[i])
                          /\ \A j \in 1..(i - 1) : v \notin Accepted(Tried[j])
<1>1. /\ DOMAIN Tried = 1..6
      /\ Tried[1] = "DateTime" /\ Tried[2] = "Integer" /\ Tried[3] = "Duration"
      /\ Tried[4] = "Float" /\ Tried[5] = "Boolean" /\ Tried[6] = "String"
  BY DEF Tried
<1>2. \E i \in DOMAIN Tried : Earliest(i)
  <2>1. CASE v = "time"   BY <1>1, <2>1 DEF Accepted
  <2>2. CASE v = "int"    BY <1>1, <2>2 DEF Accepted
  <2>3. CASE v = "dur"    BY <1>1, <2>3 DEF Accepted
  <2>4. CASE v = "float"  BY <1>1, <2>4 DEF Accepted
  <2>5. CASE v = "bool"   BY <1>1, <2>5 DEF Accepted
  <2>6. CASE v = "word"   BY <1>1, <2>6 DEF Accepted, Classes
  <2> QED  BY <2>1, <2>2, <2>3, <2>4, <2>5, <2>6 DEF Classes
<1> DEFINE first == CHOOSE i \in DOMAIN Tried : Earliest(i)
<1>3. first \in DOMAIN Tried /\ Earliest(first)  BY <1>2
<1>4. InferType(v) = Tried[first]  BY DEF InferType
<1>5. \A i \in 1..6 : Tried[i] \in Types  BY <1>1 DEF Types
<1> HIDE DEF first
<1> QED  BY <1>1, <1>3, <1>4, <1>5

LEMMA LeastIn ==
  ASSUME NEW S \in SUBSET Nat, S # {}
  PROVE  \E n \in S : \A m \in S : n <= m
<1>1. PICK n \in S : \A m \in S : ~ (<<m, n>> \in OpToRel(<, Nat))
  BY NatLessThanWellFounded, WFMin
<1>2. \A m \in S : ~ (m < n)  BY <1>1 DEF OpToRel
<1> QED  BY <1>2

(* The recursion over the rows of a probe has a solution.                  *)
LEMMA AfterSolved ==
  ASSUME NEW rows, Len(rows) \in Nat
  PROVE  \A n \in 0..Len(rows) :
           FieldAfter(rows)[n] =
             IF n = 0 THEN "Unlisted" ELSE Widened(FieldAfter(rows)[n - 1], rows[n])
<1> DEFINE L == Len(rows)
           Step(g, n) == IF n = 0 THEN "Unlisted" ELSE Widened(g[n - 1], rows[n])
           Solved(k) == \E g : g = [n \in 0..k |-> Step(g, n)]
           Bad == {k \in 0..L : ~ Solved(k)}
<1>1. Solved(0)
  <2> DEFINE g == [n \in 0..0 |-> "Unlisted"]
  <2>1. \A n \in 0..0 : Step(g, n) = "Unlisted"  OBVIOUS
  <2>2. g = [n \in 0..0 |-> Step(g, n)]  BY <2>1
  <2> QED  BY <2>2
<1>2. ASSUME NEW k \in Nat, Solved(k) PROVE Solved(k + 1)
  <2>1. PICK g : g = [n \in 0..k |-> Step(g, n)]  BY <1>2
  <2> DEFINE h == [n \in 0..(k + 1) |-> Step(g, n)]
  <2>2. \A n \in 0..k : n \in 0..(k + 1)  OBVIOUS
  <2>3. \A n \in 0..k : h[n] = g[n]  BY <2>1, <2>2
  <2>4. \A n \in 0..(k + 1) : n # 0 => n - 1 \in 0..k  OBVIOUS
  <2>5. \A n \in 0..(k + 1) : Step(g, n) = Step(h, n)  BY <2>3, <2>4
  <2>6. h = [n \in 0..(k + 1) |-> Step(h, n)]  BY <2>5
  <2> QED  BY <2>6
<1> HIDE DEF Solved
<1>3. Bad = {}
  <2> SUFFICES ASSUME Bad # {} PROVE FALSE  OBVIOUS
  <2>1. Bad \in SUBSET Nat  OBVIOUS
  <2>2. PICK n \in Bad : \A m \in Bad : n <= m  BY <2>1, LeastIn
  <2>3. n \in Nat /\ n <= L /\ ~ Solved(n)  BY <2>2
  <2>4. n # 0  BY <1>1, <2>3
  <2>5. n - 1 \in Nat /\ (n - 1) + 1 = n /\ n - 1 \in 0..L /\ ~ (n <= n - 1)  BY <2>3, <2>4
  <2>6. Solved(n - 1)  BY <2>2, <2>5
  <2> QED  BY <1>2, <2>3, <2>5, <2>6
<1>4. \E g : g = [n \in 0..L |-> Step(g, n)]  BY <1>3 DEF Solved
<1>5. FieldAfter(rows) = CHOOSE g : g = [n \in 0..L |-> Step(g, n)]  BY DEF FieldAfter
<1>6. FieldAfter(rows) = [n \in 0..L |-> Step(FieldAfter(rows), n)]  BY <1>4, <1>5
<1>7. \A n \in 0..L : FieldAfter(rows)[n] = Step(FieldAfter(rows), n)  BY <1>6, Zenon
<1> QED  BY <1>7

(* What the probe makes of its first n rows: no type as long as the column *)
(* is in none of them, then one that accepts each value it has seen.       *)
Covers(field_, rows, n) ==
  /\ field_ \in Types \cup {"Unlisted"}
  /\ \A i \in 1..n : rows[i] # None => field_ \in Types /\ rows[i] \in Accepted(field_)

LEMMA WidenedCovers ==
  ASSUME NEW rows \in Seq(Classes \cup {None}), NEW n \in 1..Len(rows),
         NEW t, Covers(t, rows, n - 1)
  PROVE  Covers(Widened(t, rows[n]), rows, n)
<1>1. "Unlisted" \notin Types  BY DEF Types
<1>2. rows[n] \in Classes \cup {None}  OBVIOUS
<1>3. CASE rows[n] = None
  <2>1. Widened(t, rows[n]) = t  BY <1>3 DEF Widened
  <2>2. \A i \in 1..n : i = n \/ i \in 1..(n - 1)  OBVIOUS
  <2> QED  BY <1>3, <2>1, <2>2 DEF Covers
<1>4. CASE rows[n] # None /\ t = "Unlisted"
  <2>1. Widened(t, rows[n]) = InferType(rows[n])  BY <1>4 DEF Widened
  <2>2. \A i \in 1..(n - 1) : rows[i] = None  BY <1>1, <1>4 DEF Covers
  <2>3. \A i \in 1..n : i = n \/ i \in 1..(n - 1)  OBVIOUS
  <2> QED  BY <1>2, <1>4, <2>1, <2>2, <2>3, InferredAccepts DEF Covers
<1>5. CASE rows[n] # None /\ t # "Unlisted"
  <2> DEFINE u == InferType(rows[n])
             m == Merged(t, u)
  <2>1. Widened(t, rows[n]) = m  BY <1>5 DEF Widened
  <2>2. t \in Types /\ u \in Types /\ rows[n] \in Accepted(u)
    BY <1>2, <1>5, InferredAccepts DEF Covers
  <2> HIDE DEF u
  <2>3. m \in Types /\ Accepted(t) \subseteq Accepted(m) /\ Accepted(u) \subseteq Accepted(m)
    BY <2>2, MergedTypes, WideningKeeps
  <2>4. \A i \in 1..n : i = n \/ i \in 1..(n - 1)  OBVIOUS
  <2> HIDE DEF m
  <2>5. ASSUME NEW i \in 1..n, rows[i] # None PROVE rows[i] \in Accepted(m)
    <3>1. CASE i = n  BY <2>2, <2>3, <3>1
    <3>2. CASE i \in 1..(n - 1)
      <4>1. rows[i] \in Accepted(t)  BY <2>5, <3>2 DEF Covers
      <4> QED  BY <2>3, <4>1
    <3> QED  BY <2>4, <3>1, <3>2
  <2> QED  BY <2>1, <2>3, <2>5 DEF Covers
<1> QED  BY <1>3, <1>4, <1>5

LEMMA FieldAfterCovers ==
  ASSUME NEW rows \in Seq(Classes \cup {None})
  PROVE  \A n \in 0..Len(rows) : Covers(FieldAfter(rows)[n], rows, n)
<1> DEFINE L == Len(rows)
           A == FieldAfter(rows)
           Bad == {n \in 0..L : ~ Covers(A[n], rows, n)}
<1>0. L \in Nat  OBVIOUS
<1>1. A[0] = "Unlisted"
  <2>1. 0 \in 0..L  BY <1>0
  <2> QED  BY <2>1, <1>0, AfterSolved
<1>2. \A n \in 1..L : A[n] = Widened(A[n - 1], rows[n])
  <2>1. \A n \in 1..L : n \in 0..L /\ n # 0  OBVIOUS
  <2> QED  BY <2>1, <1>0, AfterSolved
<1>3. Covers(A[0], rows, 0)  BY <1>1 DEF Covers
<1> HIDE DEF A
<1>4. Bad = {}
  <2> SUFFICES ASSUME Bad # {} PROVE FALSE  OBVIOUS
  <2>1. Bad \in SUBSET Nat  OBVIOUS
  <2>2. PICK n \in Bad : \A m \in Bad : n <= m  BY <2>1, LeastIn
  <2>3. n \in Nat /\ n <= L /\ ~ Covers(A[n], rows, n)  BY <2>2
  <2>4. n # 0  BY <1>3, <2>3
  <2>5. n \in 1..L /\ n - 1 \in 0..L /\ ~ (n <= n - 1)  BY <2>3, <2>4
  <2>6. Covers(A[n - 1], rows, n - 1)  BY <2>2, <2>5
  <2> QED  BY <1>2, <2>3, <2>5, <2>6, WidenedCovers
<1> QED  BY <1>4 DEF A

-----------------------------------------------------------------------------
(* The shares of the workers.                                              *)

Given == text \in Texts /\ opts \in Options /\ share \in Shares

LEMMA GivenFacts ==
  ASSUME Given
  PROVE  /\ text \in Seq(Classes \cup {None}) /\ Len(text) \in Nat
         /\ opts.caller \in {"frame", "direct", "pull"}
         /\ opts.declared \in Fields \cup {None}
         /\ opts.handles \in BOOLEAN /\ opts.aligned \in BOOLEAN
         /\ opts.length \in Nat /\ opts.asked \in Nat \cup {None}
         /\ opts.batch \in Nat \ {0}
         /\ None \notin Classes /\ None \notin Fields /\ None \notin Nat
BY ColumnAssumption DEF Given

LEMMA Workers ==
  Cardinality(Worker) \in Nat /\ Cardinality(Worker) # 0 /\ Worker = 1..Cardinality(Worker)
<1>1. /\ IsFiniteSet(Worker) /\ Worker # {} /\ Worker = 1..Cardinality(Worker)
  BY ColumnAssumption
<1>2. Cardinality(Worker) \in Nat  BY <1>1, FS_CardinalityType
<1>3. Cardinality(Worker) # 0
  <2> SUFFICES ASSUME Cardinality(Worker) = 0 PROVE FALSE  OBVIOUS
  <2>1. Worker = 1..0  BY <1>1
  <2> QED  BY <1>1, <2>1
<1> QED  BY <1>1, <1>2, <1>3

LEMMA ShareFacts ==
  ASSUME Given
  PROVE  /\ \A w \in Worker : share[w].from \in Nat \ {0} /\ share[w].to \in Nat
         /\ \A w \in Busy : w \in Worker /\ share[w].to <= Len(text)
         /\ Busy # {} => opts.handles /\ opts.aligned /\ text # <<>>
<1> DEFINE L == Len(text)
<1>0. L \in Nat /\ (text = <<>> => L = 0)  BY GivenFacts
<1>1. CASE ~ (opts.handles /\ opts.aligned)
  <2>1. share = [w \in Worker |-> [from |-> 1, to |-> 0]]  BY <1>1 DEF Given, Shares
  <2>2. \A w \in Worker : share[w].from = 1 /\ share[w].to = 0  BY <2>1
  <2>3. Busy = {}  BY <2>2 DEF Busy
  <2> QED  BY <2>2, <2>3
<1>2. CASE opts.handles /\ opts.aligned
  <2>1. share \in [Worker -> [from : 1..(L + 1), to : 0..L]]  BY <1>2 DEF Given, Shares
  <2>2. \A w \in Worker : share[w] \in [from : 1..(L + 1), to : 0..L]  BY <2>1
  <2>3. \A w \in Worker : share[w].from \in 1..(L + 1) /\ share[w].to \in 0..L  BY <2>2
  <2> HIDE DEF L
  <2>4. \A w \in Worker : share[w].from \in Nat \ {0} /\ share[w].to \in Nat /\ share[w].to <= L
    BY <1>0, <2>3
  <2>5. L = 0 => Busy = {}  BY <2>4 DEF Busy
  <2> QED  BY <1>0, <1>2, <2>4, <2>5 DEF Busy, L
<1> QED  BY <1>1, <1>2

(* Every row is in the share of a worker.                                  *)
Owns(w, i) == share[w].from <= i /\ i <= share[w].to

LEMMA RowsDealt ==
  ASSUME Given, opts.handles /\ opts.aligned, NEW i \in 1..Len(text)
  PROVE  \E w \in Busy : Owns(w, i)
<1> DEFINE n == Cardinality(Worker)
           S == {w \in Worker : i <= share[w].to}
<1>0. i \in Nat /\ i >= 1 /\ i <= Len(text) /\ Len(text) \in Nat  BY GivenFacts
<1>1. n \in Nat /\ n # 0 /\ Worker = 1..n  BY Workers
<1>2. \A w \in Worker : /\ share[w].from = IF w - 1 \in Worker THEN share[w - 1].to + 1 ELSE 1
                        /\ w + 1 \notin Worker => share[w].to = Len(text)
  BY DEF Given, Shares
<1> HIDE DEF n
<1>3. n \in Worker /\ n + 1 \notin Worker  BY <1>1
<1>4. n \in S  BY <1>0, <1>2, <1>3
<1>5. S \in SUBSET Nat  BY <1>1
<1>6. PICK w \in S : \A v \in S : w <= v  BY <1>4, <1>5, LeastIn
<1>7. w \in Worker /\ w \in Nat /\ i <= share[w].to  BY <1>5, <1>6
<1>8. share[w].from <= i
  <2>1. CASE w - 1 \in Worker
    <3>1. w - 1 \notin S
      <4>1. ~ (w <= w - 1)  BY <1>7
      <4> QED  BY <1>6, <4>1
    <3>2. share[w - 1].to < i /\ share[w - 1].to \in Nat  BY <1>0, <2>1, <3>1, ShareFacts
    <3> QED  BY <1>0, <1>2, <1>7, <2>1, <3>2
  <2>2. CASE w - 1 \notin Worker  BY <1>0, <1>2, <1>7, <2>2
  <2> QED  BY <2>1, <2>2
<1>9. share[w].from \in Nat /\ share[w].to \in Nat  BY <1>7, ShareFacts
<1>10. share[w].from <= share[w].to  BY <1>0, <1>7, <1>8, <1>9
<1>11. w \in Busy  BY <1>7, <1>10 DEF Busy
<1> QED  BY <1>7, <1>8, <1>11 DEF Owns

-----------------------------------------------------------------------------
(* The schema: where it comes from, and what polars is told of it.         *)

Wanted == IF opts.declared # None THEN opts.declared ELSE Probed(opts.length)
Told == IF opts.declared # None THEN opts.declared ELSE Probed(AskedLength)
Promise(f) == IF f = "Unlisted" THEN None ELSE Announced(f)

Reading == pc \in {"workers", "single", "done", "unfit"}

SchemaInv ==
  /\ Given
  /\ pc \in {"start", "collect", "workers", "single", "done", "no_schema", "unfit"}
  /\ field \in Fields \cup {None}
  /\ pc = "start" => field = None /\ promised = None
  /\ pc = "workers" => opts.handles /\ text # <<>>
  /\ IsScan /\ pc = "collect" => field = IF opts.caller = "frame" THEN Wanted ELSE opts.declared
  /\ IsScan /\ Reading => field # None /\ field = Wanted
  /\ promised # None => IsScan /\ Told # None /\ promised = Promise(Told)

(* What a worker has pushed.                                               *)
Plain(f) == IF f \in {"Auto", "Unlisted"} THEN "String" ELSE f

Cell == {"kept", "default", "null"}

BuilderInv ==
  /\ builder \in [Worker -> [pushed : Nat, cells : Seq(Cell)]]
  /\ pc \notin {"start", "collect", "no_schema"} \/ \A w \in Worker : builder[w].pushed = 0
  /\ \A w \in Worker :
       /\ Len(builder[w].cells) = builder[w].pushed
       /\ IsScan => \A j \in 1..builder[w].pushed :
            builder[w].cells[j] = Built(text[share[w].from + j - 1], Plain(field))

(* The frames handed out.                                                  *)
FrameOfRows == [after : Nat, dtype : {"i64", "f64", "bool", "datetime", "str", None}, cells : Seq(Cell)]

FramesPlaced ==
  /\ frames \in Seq(FrameOfRows)
  /\ frames # <<>> => pc \in {"single", "done", "unfit"}
  /\ \A k \in DOMAIN frames : frames[k].after + Len(frames[k].cells) <= Len(text)

OfWorkers == Len(frames) = 1 /\ frames[1].dtype \in {None, Announced(field)}

FramesTyped ==
  field # None =>
    \/ \A k \in DOMAIN frames : frames[k].dtype \in {None, FilledDtype(Plain(field))}
    \/ pc = "done" /\ OfWorkers

Unfit ==
  pc = "unfit" =>
    /\ IsScan /\ BatchRows # {} /\ frames # <<>>
    /\ frames[Len(frames)].dtype # Column.dtype

(* The parallel scan answers whenever the workers' frames fit.             *)
Answerable == opts.aligned /\ Busy # {} /\ Fitting

ByWorkers ==
  /\ Len(frames) = 1 /\ frames[1].after = 0 /\ DOMAIN frames[1].cells = DOMAIN text
  /\ frames[1].dtype # None =>
       \A i \in DOMAIN text : frames[1].cells[i] = Built(text[i], Plain(field))

WorkersFirst ==
  /\ pc \in {"single", "unfit"} => ~ Answerable
  /\ pc = "done" /\ IsScan /\ Answerable => ByWorkers

KeptIn(c) ==
  c.dtype # None => \A k \in DOMAIN c.cells : text[c.after + k] # None => c.cells[k] = "kept"

ProbedKept == IsScan /\ Covered => \A k \in DOMAIN frames : KeptIn(frames[k])

IInv == /\ SchemaInv /\ BuilderInv
        /\ FramesPlaced /\ FramesTyped /\ Unfit /\ WorkersFirst /\ ProbedKept

-----------------------------------------------------------------------------
(* The steps that settle the schema.                                       *)

LEMMA ProbedField ==
  ASSUME Given, NEW n \in Nat
  PROVE  /\ Probed(n) \in Types \cup {"Unlisted", None}
         /\ n >= Len(text) /\ Probed(n) # None => Covers(Probed(n), text, Len(text))
<1> DEFINE L == Len(text)  m == Rows(n)
<1>1. L \in Nat /\ text \in Seq(Classes \cup {None})  BY GivenFacts
<1>2. m \in 0..L /\ (n >= L => m = L)  BY <1>1 DEF Rows
<1>3. Probed(n) = IF m = 0 THEN None ELSE FieldAfter(text)[m]  BY DEF Probed, Inferred
<1>4. Covers(FieldAfter(text)[m], text, m)  BY <1>1, <1>2, FieldAfterCovers
<1> HIDE DEF m, L
<1>5. CASE m = 0  BY <1>3, <1>5
<1>6. CASE m # 0  BY <1>2, <1>3, <1>4, <1>6 DEF Covers, L
<1> QED  BY <1>5, <1>6

LEMMA FieldKinds ==
  ASSUME Given
  PROVE  /\ Wanted \in Fields \cup {None} /\ Told \in Fields \cup {None}
         /\ opts.declared \in Fields \cup {None}
         /\ opts.caller # "direct" => Told = Wanted
         /\ opts.caller = "direct" /\ opts.declared = None /\ opts.asked \in {None, opts.length}
              => Told = Wanted
<1>1. AskedLength \in Nat /\ (opts.caller # "direct" => AskedLength = opts.length)
      /\ (opts.asked \in {None, opts.length} => AskedLength = opts.length)
  BY GivenFacts DEF AskedLength
<1>2. opts.length \in Nat /\ opts.declared \in Fields \cup {None}  BY GivenFacts
<1>3. Probed(opts.length) \in Fields \cup {None} /\ Probed(AskedLength) \in Fields \cup {None}
  BY <1>1, <1>2, ProbedField DEF Fields
<1> QED  BY <1>1, <1>2, <1>3 DEF Wanted, Told

(* What is derived from the inputs stays as it is.                         *)
LEMMA DerivedKept ==
  ASSUME UNCHANGED inputs
  PROVE  /\ Given' = Given /\ Wanted' = Wanted /\ Told' = Told /\ IsScan' = IsScan
         /\ Covered' = Covered /\ Busy' = Busy
BY DEF inputs, Given, Shares, Wanted, Told, Probed, Rows, Inferred, AskedLength, IsScan,
       Covered, Busy

(* As long as the field does, so does what the workers make of the column. *)
LEMMA FittingKept ==
  ASSUME UNCHANGED <<inputs, field>>
  PROVE  Fitting' = Fitting /\ Answerable' = Answerable
<1>1. Busy' = Busy  BY DerivedKept
<1>2. \A w : DtypeOf(w)' = DtypeOf(w)
  BY DEF inputs, DtypeOf, First, BuilderType, WorkerField
<1>3. Fitting' = Fitting  BY <1>1, <1>2 DEF Fitting
<1> QED  BY <1>1, <1>3 DEF Answerable, inputs

LEMMA InitInv == Init => IInv
<1> SUFFICES ASSUME Init PROVE IInv  OBVIOUS
<1>1. Given /\ pc = "start" /\ field = None /\ promised = None /\ frames = <<>>
      /\ builder = [w \in Worker |-> [pushed |-> 0, cells |-> <<>>]]
  BY DEF Init, Given
<1>2. SchemaInv  BY <1>1 DEF SchemaInv, Reading
<1>3. BuilderInv
  <2>1. [pushed |-> 0, cells |-> <<>>] \in [pushed : Nat, cells : Seq(Cell)]  OBVIOUS
  <2> QED  BY <1>1, <2>1 DEF BuilderInv
<1>4. FramesPlaced /\ FramesTyped /\ Unfit /\ WorkersFirst /\ ProbedKept
  BY <1>1 DEF FramesPlaced, FramesTyped, Unfit, WorkersFirst, ProbedKept
<1> QED  BY <1>2, <1>3, <1>4 DEF IInv

(* Before anything is read there is nothing to keep.                       *)
LEMMA NothingRead ==
  ASSUME IInv, UNCHANGED <<inputs, builder, frames>>,
         pc \in {"start", "collect"},
         pc' \in {"collect", "workers", "single", "no_schema"},
         pc' = "single" => ~ (opts.handles /\ text # <<>>)
  PROVE  BuilderInv' /\ FramesPlaced' /\ FramesTyped' /\ Unfit' /\ WorkersFirst' /\ ProbedKept'
<1>1. frames = <<>> /\ frames' = <<>>  BY DEF IInv, FramesPlaced
<1>2. \A w \in Worker : builder[w].pushed = 0  BY DEF IInv, BuilderInv
<1>3. BuilderInv'  BY <1>2 DEF IInv, BuilderInv, inputs
<1>4. FramesPlaced' /\ FramesTyped' /\ Unfit' /\ ProbedKept'
  BY <1>1 DEF FramesPlaced, FramesTyped, Unfit, ProbedKept
<1>5. WorkersFirst'
  <2>1. pc' = "single" => Busy = {}  BY ShareFacts DEF IInv, SchemaInv
  <2>2. Busy' = Busy  BY DerivedKept
  <2> QED  BY <2>1, <2>2 DEF WorkersFirst, Answerable
<1> QED  BY <1>3, <1>4, <1>5

LEMMA AnnounceInv == ASSUME IInv, Announce PROVE IInv'
<1>1. /\ pc = "start" /\ IsScan /\ UNCHANGED <<inputs, builder, frames>> /\ Given
      /\ field = None /\ promised = None
  BY DEF Announce, IInv, SchemaInv
<1>2. \/ Told = None /\ pc' = "no_schema" /\ UNCHANGED <<promised, field>>
      \/ /\ Told # None /\ promised' = Promise(Told) /\ pc' = "collect"
         /\ field' = IF opts.caller = "frame" THEN Told ELSE opts.declared
  BY DEF Announce, Told, Promise
<1>3. SchemaInv'
  <2>1. /\ Given' /\ Wanted' = Wanted /\ Told' = Told /\ IsScan' = IsScan /\ opts' = opts
    BY <1>1, DerivedKept DEF inputs
  <2>2. opts.caller = "frame" => Told = Wanted  BY <1>1, FieldKinds
  <2>3. field' \in Fields \cup {None}  BY <1>1, <1>2, FieldKinds
  <2>4. Promise(Told)' = Promise(Told)  BY <2>1 DEF Promise
  <2> QED  BY <1>1, <1>2, <2>1, <2>2, <2>3, <2>4 DEF SchemaInv, Reading
<1> QED  BY <1>1, <1>2, <1>3, NothingRead DEF IInv

LEMMA CollectInv == ASSUME IInv, Collect PROVE IInv'
<1>1. pc = "collect" /\ UNCHANGED <<inputs, promised, builder, frames>> /\ SchemaInv /\ Given
  BY DEF Collect, IInv, SchemaInv
<1> DEFINE f == IF field # None THEN field ELSE Probed(opts.length)
<1>2. \/ f = None /\ pc' = "no_schema" /\ field' = field
      \/ f # None /\ field' = f /\ pc' = FirstPath
  BY DEF Collect
<1>3. f = None \/ (IsScan => f = Wanted)
  <2> SUFFICES ASSUME IsScan PROVE f = None \/ f = Wanted  OBVIOUS
  <2>1. field = IF opts.caller = "frame" THEN Wanted ELSE opts.declared
    BY <1>1 DEF SchemaInv
  <2> QED  BY <2>1 DEF Wanted
<1>4. f \in Fields \cup {None}
  <2>1. opts.length \in Nat /\ field \in Fields \cup {None}  BY <1>1, GivenFacts DEF SchemaInv
  <2> QED  BY <1>1, <2>1, ProbedField DEF Fields
<1> HIDE DEF f
<1>5. SchemaInv'
  <2>1. /\ Given' /\ Wanted' = Wanted /\ Told' = Told /\ IsScan' = IsScan
    BY <1>1, DerivedKept
  <2>2. Promise(Told)' = Promise(Told)  BY <2>1 DEF Promise
  <2>3. /\ pc' \in {"workers", "single", "no_schema"} /\ opts' = opts /\ text' = text
        /\ pc' = "workers" => opts.handles /\ text # <<>>
    BY <1>1, <1>2 DEF FirstPath, inputs
  <2> QED  BY <1>1, <1>2, <1>3, <1>4, <2>1, <2>2, <2>3 DEF SchemaInv, Reading
<1>6. pc' = "single" => ~ (opts.handles /\ text # <<>>)  BY <1>2 DEF FirstPath
<1> QED  BY <1>1, <1>2, <1>5, <1>6, NothingRead DEF IInv, FirstPath

LEMMA PullInv == ASSUME IInv, Pull PROVE IInv'
<1>1. pc = "start" /\ ~ IsScan /\ UNCHANGED <<inputs, promised, builder, frames>> /\ SchemaInv /\ Given
      /\ pc' = FirstPath
  BY DEF Pull, IInv, SchemaInv
<1>2. field' \in Fields \cup {None}
  <2>1. opts.length \in Nat /\ opts.declared \in Fields \cup {None}  BY <1>1, GivenFacts
  <2>2. Probed(opts.length) \in Fields \cup {None}  BY <1>1, <2>1, ProbedField DEF Fields
  <2> QED  BY <2>1, <2>2 DEF Pull
<1>3. SchemaInv'
  <2>1. Given' /\ IsScan' = IsScan  BY <1>1, DerivedKept
  <2>2. promised = None  BY <1>1 DEF SchemaInv
  <2>3. /\ pc' \in {"workers", "single"} /\ opts' = opts /\ text' = text
        /\ pc' = "workers" => opts.handles /\ text # <<>>
    BY <1>1 DEF FirstPath, inputs
  <2> QED  BY <1>1, <1>2, <2>1, <2>2, <2>3 DEF SchemaInv, Reading
<1> QED  BY <1>1, <1>3, NothingRead DEF IInv, FirstPath

-----------------------------------------------------------------------------
(* The workers.                                                            *)

(* The schema is settled when they start.                                  *)
LEMMA SchemaKept ==
  ASSUME SchemaInv, UNCHANGED <<inputs, promised, field>>, pc \notin {"start", "collect", "no_schema"},
         pc' \in {pc, "single", "done", "unfit"}
  PROVE  SchemaInv'
<1>1. Given' = Given /\ Wanted' = Wanted /\ Told' = Told /\ IsScan' = IsScan  BY DerivedKept
<1>2. Promise(Told)' = Promise(Told)  BY <1>1 DEF Promise
<1> QED  BY <1>1, <1>2 DEF SchemaInv, Reading, inputs

LEMMA BuilderKept ==
  ASSUME BuilderInv, UNCHANGED <<inputs, field, builder>>, pc \notin {"start", "collect", "no_schema"},
         pc' \notin {"start", "collect", "no_schema"}
  PROVE  BuilderInv'
BY DEF BuilderInv, inputs, IsScan

(* With a schema all workers build the same type.                          *)
LEMMA SameBuilders ==
  ASSUME field # None
  PROVE  \A w : BuilderType(w) = Plain(field) /\ DtypeOf(w) \in {None, Announced(field)}
<1>1. \A w : BuilderType(w) = Plain(field)  BY DEF BuilderType, WorkerField, Plain
<1>2. Announced(Plain(field)) = Announced(field)  BY DEF Plain, Announced
<1> QED  BY <1>1, <1>2 DEF DtypeOf

LEMMA PushLineInv == ASSUME IInv, NEW w \in Worker, PushLine(w) PROVE IInv'
<1> DEFINE b == builder[w]
           c == Built(text[share[w].from + b.pushed], BuilderType(w))
<1>1. /\ pc = "workers" /\ UNCHANGED <<inputs, promised, field, pc, frames>>
      /\ share[w].from + b.pushed <= share[w].to
      /\ builder' = [builder EXCEPT ![w] = [pushed |-> b.pushed + 1, cells |-> Append(b.cells, c)]]
  BY DEF PushLine
<1>2. SchemaInv'  BY <1>1, SchemaKept DEF IInv
<1>3. builder \in [Worker -> [pushed : Nat, cells : Seq(Cell)]]  BY DEF IInv, BuilderInv
<1>4. b \in [pushed : Nat, cells : Seq(Cell)] /\ b.pushed \in Nat /\ b.cells \in Seq(Cell)
  BY <1>3
<1>5. c \in Cell  BY DEF Built, Cell
<1>6. Len(b.cells) = b.pushed  BY DEF IInv, BuilderInv
<1>7. IsScan => field # None  BY <1>1 DEF IInv, SchemaInv, Reading
<1>8. ASSUME IsScan PROVE c = Built(text[share[w].from + (b.pushed + 1) - 1], Plain(field))
  <2>1. share[w].from \in Nat  BY ShareFacts DEF IInv, SchemaInv
  <2>2. share[w].from + (b.pushed + 1) - 1 = share[w].from + b.pushed  BY <1>4, <2>1
  <2>3. BuilderType(w) = Plain(field)  BY <1>7, <1>8, SameBuilders
  <2> QED  BY <2>2, <2>3
<1> HIDE DEF c
<1>9. BuilderInv'
  <2>1. [pushed |-> b.pushed + 1, cells |-> Append(b.cells, c)] \in [pushed : Nat, cells : Seq(Cell)]
    BY <1>4, <1>5
  <2>2. builder' \in [Worker -> [pushed : Nat, cells : Seq(Cell)]]  BY <1>1, <1>3, <2>1
  <2>3. \A v \in Worker : v # w => builder'[v] = builder[v]  BY <1>1, <1>3
  <2>4. builder'[w] = [pushed |-> b.pushed + 1, cells |-> Append(b.cells, c)]  BY <1>1, <1>3
  <2>5. builder'[w].pushed = b.pushed + 1 /\ builder'[w].cells = Append(b.cells, c)  BY <2>4
  <2>6. Len(builder'[w].cells) = builder'[w].pushed  BY <1>4, <1>5, <1>6, <2>5
  <2>7. ASSUME IsScan, NEW j \in 1..builder'[w].pushed
        PROVE  builder'[w].cells[j] = Built(text[share[w].from + j - 1], Plain(field))
    <3>1. CASE j = b.pushed + 1
      <4>1. Append(b.cells, c)[b.pushed + 1] = c  BY <1>4, <1>5, <1>6
      <4> QED  BY <1>8, <2>5, <2>7, <3>1, <4>1
    <3>2. CASE j \in 1..b.pushed
      <4>1. Append(b.cells, c)[j] = b.cells[j]  BY <1>4, <1>5, <1>6, <3>2
      <4>2. b.cells[j] = Built(text[share[w].from + j - 1], Plain(field))
        BY <2>7, <3>2 DEF IInv, BuilderInv
      <4> QED  BY <2>5, <4>1, <4>2
    <3>3. j \in 1..(b.pushed + 1)  BY <2>5, <2>7
    <3> QED  BY <1>4, <3>1, <3>2, <3>3
  <2>8. \A v \in Worker :
          /\ Len(builder'[v].cells) = builder'[v].pushed
          /\ IsScan => \A j \in 1..builder'[v].pushed :
               builder'[v].cells[j] = Built(text[share[v].from + j - 1], Plain(field))
    <3> TAKE v \in Worker
    <3>1. CASE v = w  BY <2>6, <2>7, <3>1
    <3>2. CASE v # w  BY <2>3, <3>2 DEF IInv, BuilderInv
    <3> QED  BY <3>1, <3>2
  <2> QED  BY <1>1, <2>2, <2>8 DEF BuilderInv, inputs, IsScan
<1>10. FramesPlaced' /\ FramesTyped' /\ Unfit' /\ WorkersFirst'
  BY <1>1 DEF IInv, FramesPlaced, FramesTyped, Unfit, WorkersFirst, inputs, OfWorkers
<1>11. ProbedKept'
  <2>1. frames = <<>>  BY <1>1 DEF IInv, FramesPlaced
  <2> QED  BY <1>1, <2>1 DEF ProbedKept
<1> QED  BY <1>2, <1>9, <1>10, <1>11 DEF IInv

LEMMA CollectNothingInv == ASSUME IInv, CollectNothing PROVE IInv'
<1>1. /\ pc = "workers" /\ pc' = "single" /\ ~ (opts.aligned /\ Fitting)
      /\ UNCHANGED <<inputs, promised, field, builder, frames>>
  BY DEF CollectNothing
<1>2. frames = <<>>  BY <1>1 DEF IInv, FramesPlaced
<1>3. SchemaInv' /\ BuilderInv'  BY <1>1, SchemaKept, BuilderKept DEF IInv
<1>4. FramesPlaced' /\ FramesTyped' /\ Unfit' /\ ProbedKept'
  BY <1>1, <1>2 DEF FramesPlaced, FramesTyped, Unfit, ProbedKept
<1>5. WorkersFirst'  BY <1>1, FittingKept DEF WorkersFirst, Answerable
<1> QED  BY <1>3, <1>4, <1>5 DEF IInv

(* What the workers together show of a row is what its owner built of it.  *)
LEMMA CellsBuilt ==
  ASSUME SchemaInv, BuilderInv, Finished, opts.handles /\ opts.aligned, NEW i \in DOMAIN text
  PROVE  /\ CellAt(i) \in Cell
         /\ IsScan => CellAt(i) = Built(text[i], Plain(field))
<1>1. Given /\ text \in Seq(Classes \cup {None})  BY GivenFacts DEF SchemaInv
<1>2. i \in 1..Len(text) /\ i \in Nat  BY <1>1
<1>3. \E w \in Busy : Owns(w, i)  BY <1>1, <1>2, RowsDealt
<1>4. Owner(i) \in Busy /\ Owns(Owner(i), i)  BY <1>3 DEF Owner, Owns
<1> DEFINE w == Owner(i)
           j == i - share[w].from + 1
<1>5. w \in Worker  BY <1>4 DEF Busy
<1>6. share[w].from \in Nat \ {0} /\ share[w].to \in Nat  BY <1>1, <1>5, ShareFacts
<1>7. share[w].from <= i /\ i <= share[w].to /\ share[w].from + builder[w].pushed > share[w].to
  BY <1>4 DEF Owns, Finished
<1>8. builder[w] \in [pushed : Nat, cells : Seq(Cell)]  BY <1>5 DEF BuilderInv
<1>9. builder[w].pushed \in Nat /\ builder[w].cells \in Seq(Cell)
      /\ Len(builder[w].cells) = builder[w].pushed
  BY <1>5, <1>8 DEF BuilderInv
<1>10. CellAt(i) = builder[w].cells[j]  BY DEF CellAt
<1> HIDE DEF w
<1>11. j \in 1..builder[w].pushed /\ share[w].from + j - 1 = i  BY <1>2, <1>6, <1>7, <1>9
<1>12. IsScan => builder[w].cells[j] = Built(text[share[w].from + j - 1], Plain(field))
  BY <1>5, <1>11 DEF BuilderInv
<1> HIDE DEF j
<1> QED  BY <1>9, <1>10, <1>11, <1>12

(* What a probe of every row has seen, the type it chose holds.            *)
LEMMA CoveredAccepts ==
  ASSUME SchemaInv, IsScan, Covered, Reading, NEW i \in DOMAIN text, text[i] # None
  PROVE  field \in Types /\ text[i] \in Accepted(field) /\ text[i] \in Classes
<1>1. /\ Given /\ text \in Seq(Classes \cup {None}) /\ opts.length \in Nat
      /\ field # None /\ field = Probed(opts.length) /\ opts.length >= Len(text)
  BY GivenFacts DEF SchemaInv, Covered, Wanted
<1>2. Covers(field, text, Len(text))  BY <1>1, ProbedField
<1>3. i \in 1..Len(text)  BY <1>1
<1> QED  BY <1>1, <1>2, <1>3 DEF Covers

LEMMA CollectFrameInv == ASSUME IInv, CollectFrame PROVE IInv'
<1> DEFINE dtype == DtypeOf(CHOOSE w \in Busy : TRUE)
           cells == [i \in DOMAIN text |-> IF dtype = None THEN "null" ELSE CellAt(i)]
           c == [after |-> 0, dtype |-> dtype, cells |-> cells]
<1>1. /\ pc = "workers" /\ Finished /\ opts.aligned /\ Fitting /\ frames' = <<c>>
      /\ pc' = "done" /\ UNCHANGED <<inputs, promised, field, builder>>
  BY DEF CollectFrame
<1>2. opts.handles /\ opts.aligned /\ Given /\ text \in Seq(Classes \cup {None}) /\ Len(text) \in Nat
  BY <1>1, GivenFacts DEF IInv, SchemaInv
<1>3. SchemaInv' /\ BuilderInv'  BY <1>1, SchemaKept, BuilderKept DEF IInv
<1>4. dtype \in {"i64", "f64", "bool", "datetime", "str", None}  BY DEF DtypeOf, Announced
<1>5. field # None => dtype \in {None, Announced(field)}  BY SameBuilders
<1>6. \A i \in DOMAIN text :
        CellAt(i) \in Cell /\ (IsScan => CellAt(i) = Built(text[i], Plain(field)))
  BY <1>1, <1>2, CellsBuilt DEF IInv
<1> HIDE DEF dtype
<1>7. cells \in [1..Len(text) -> Cell]
  <2>1. "null" \in Cell /\ DOMAIN text = 1..Len(text)  BY <1>2 DEF Cell
  <2> QED  BY <1>6, <2>1
<1>8. cells \in Seq(Cell) /\ Len(cells) = Len(text) /\ DOMAIN cells = DOMAIN text
  BY <1>2, <1>7
<1>9. dtype # None /\ IsScan => \A i \in DOMAIN text : cells[i] = Built(text[i], Plain(field))
  BY <1>6
<1> HIDE DEF cells
<1>10. c.after = 0 /\ c.dtype = dtype /\ c.cells = cells /\ c \in FrameOfRows
  BY <1>4, <1>8 DEF FrameOfRows
<1> HIDE DEF c
<1>11. Len(frames') = 1 /\ frames'[1] = c /\ DOMAIN frames' = {1} /\ frames' \in Seq(FrameOfRows)
  BY <1>1, <1>10
<1>12. text' = text /\ opts' = opts /\ IsScan' = IsScan /\ Covered' = Covered
  BY <1>1, DerivedKept DEF inputs
<1>13. FramesPlaced'  BY <1>1, <1>2, <1>8, <1>10, <1>11, <1>12 DEF FramesPlaced
<1>14. FramesTyped'
  <2>1. field # None => frames'[1].dtype \in {None, Announced(field')}  BY <1>1, <1>5, <1>10, <1>11
  <2> QED  BY <1>1, <1>11, <2>1 DEF FramesTyped, OfWorkers
<1>15. Unfit'  BY <1>1 DEF Unfit
<1>16. WorkersFirst'  BY <1>1, <1>8, <1>9, <1>10, <1>11, <1>12 DEF WorkersFirst, ByWorkers
<1>17. ProbedKept'
  <2>1. ASSUME IsScan, Covered, dtype # None, NEW k \in DOMAIN cells, text[0 + k] # None
        PROVE  cells[k] = "kept"
    <3>1. 0 + k = k /\ k \in DOMAIN text  BY <1>2, <1>8, <2>1
    <3>2. field \in Types /\ text[k] \in Accepted(field)
      BY <1>1, <2>1, <3>1, CoveredAccepts DEF IInv, Reading
    <3>3. Plain(field) = field  BY <3>2 DEF Plain, Types
    <3>4. cells[k] = Built(text[k], field)  BY <1>9, <2>1, <3>1, <3>3
    <3> QED  BY <2>1, <3>1, <3>2, <3>4 DEF Built
  <2>2. \A k \in DOMAIN frames' : frames'[k] = c  BY <1>11
  <2> QED  BY <1>10, <1>12, <2>1, <2>2 DEF ProbedKept, KeptIn
<1> QED  BY <1>3, <1>13, <1>14, <1>15, <1>16, <1>17 DEF IInv

-----------------------------------------------------------------------------
(* The single-threaded path.                                               *)

(* The batch is what lies ahead of the rows read, and not empty unless     *)
(* they are all.                                                           *)
Last == Rows(RowsRead + opts.batch)

LEMMA BatchPlaced ==
  ASSUME Given, FramesPlaced, BatchRows # {}
  PROVE  /\ RowsRead \in Nat /\ Last \in Nat /\ RowsRead < Last /\ Last <= Len(text)
         /\ Cardinality(BatchRows) = Last - RowsRead
         /\ BatchRows \subseteq DOMAIN text
<1>1. Len(text) \in Nat /\ opts.batch \in Nat \ {0} /\ DOMAIN text = 1..Len(text)
  BY GivenFacts
<1>2. RowsRead \in Nat
  <2>1. CASE frames = <<>>  BY <2>1 DEF RowsRead
  <2>2. CASE frames # <<>>
    <3>1. frames \in Seq(FrameOfRows) /\ Len(frames) \in DOMAIN frames  BY <2>2 DEF FramesPlaced
    <3>2. frames[Len(frames)] \in FrameOfRows  BY <3>1
    <3>3. frames[Len(frames)].after \in Nat /\ Len(frames[Len(frames)].cells) \in Nat
      BY <3>2 DEF FrameOfRows
    <3> QED  BY <2>2, <3>3 DEF RowsRead
  <2> QED  BY <2>1, <2>2
<1>3. Last \in Nat /\ Last <= Len(text)  BY <1>1, <1>2 DEF Last, Rows
<1>4. BatchRows = (RowsRead + 1)..Last  BY DEF BatchRows, Last
<1> HIDE DEF Last
<1>5. RowsRead < Last  BY <1>2, <1>3, <1>4
<1>6. Cardinality((RowsRead + 1)..Last) = Last - (RowsRead + 1) + 1
  BY <1>2, <1>3, <1>5, FS_Interval
<1>7. Cardinality(BatchRows) = Last - RowsRead  BY <1>2, <1>3, <1>4, <1>6
<1>8. BatchRows \subseteq DOMAIN text  BY <1>1, <1>2, <1>3, <1>4
<1> QED  BY <1>2, <1>3, <1>5, <1>7, <1>8

(* With a schema every batch gives the column the same type.               *)
Present == \E i \in BatchRows : ValueAt(i) # None

LEMMA OneColumnType ==
  ASSUME field # None, Present
  PROVE  ColumnType = Plain(field)
<1>1. UsedField = field /\ \A i : ParsedAt(i) = Parsed(ValueAt(i), field)
  BY DEF UsedField, ParsedAt
<1>2. CASE field \notin {"Auto", "Unlisted"}  BY <1>1, <1>2 DEF ColumnType, Plain
<1>3. CASE field \in {"Auto", "Unlisted"}
  <2> DEFINE has == {ParsedAt(i).type : i \in {i \in BatchRows : ValueAt(i) # None}}
             First_(p) == Precedence[p] \in has /\ \A q \in 1..(p - 1) : Precedence[q] \notin has
  <2>1. \A i : ParsedAt(i).type = "String"  BY <1>1, <1>3 DEF Parsed
  <2>2. has = {"String"}  BY <2>1 DEF Present
  <2> HIDE DEF has
  <2>3. /\ DOMAIN Precedence = 1..6
        /\ Precedence[1] # "String" /\ Precedence[2] # "String" /\ Precedence[3] = "String"
        /\ Precedence[4] # "String" /\ Precedence[5] # "String" /\ Precedence[6] # "String"
    BY DEF Precedence
  <2>4. 3 \in DOMAIN Precedence /\ First_(3)  BY <2>2, <2>3
  <2>5. \A p \in DOMAIN Precedence : First_(p) => p = 3  BY <2>2, <2>3
  <2>6. (CHOOSE p \in DOMAIN Precedence : First_(p)) = 3  BY <2>4, <2>5
  <2>7. ColumnType = Precedence[CHOOSE p \in DOMAIN Precedence : First_(p)]
    BY <1>1, <1>3 DEF ColumnType, has
  <2> QED  BY <1>3, <2>3, <2>6, <2>7 DEF Plain
<1> QED  BY <1>2, <1>3

LEMMA ColumnPlaced ==
  ASSUME Given, FramesPlaced, BatchRows # {}
  PROVE  /\ Column \in FrameOfRows
         /\ Column.after + Len(Column.cells) <= Len(text)
         /\ field # None => Column.dtype \in {None, FilledDtype(Plain(field))}
<1> DEFINE n == Cardinality(BatchRows)
           cells == [k \in 1..n |-> IF \A i \in BatchRows : ValueAt(i) = None THEN "null"
                                    ELSE Filled(RowsRead + k, ColumnType)]
           dtype == IF \A i \in BatchRows : ValueAt(i) = None THEN None ELSE FilledDtype(ColumnType)
<1>1. n \in Nat /\ n = Last - RowsRead /\ RowsRead \in Nat /\ Last \in Nat /\ Last <= Len(text)
      /\ Len(text) \in Nat
  BY BatchPlaced, GivenFacts
<1>2. \A k : Filled(RowsRead + k, ColumnType) \in Cell  BY DEF Filled, Cell
<1>3. Column = [after |-> RowsRead, dtype |-> dtype, cells |-> cells]  BY DEF Column
<1>4. dtype \in {"i64", "f64", "bool", "datetime", "str", None}  BY DEF FilledDtype, Announced
<1>5. field # None => dtype \in {None, FilledDtype(Plain(field))}
  BY OneColumnType DEF Present
<1> HIDE DEF n, dtype
<1>6. cells \in [1..n -> Cell]
  <2>1. "null" \in Cell  BY DEF Cell
  <2> QED  BY <1>2, <2>1
<1> HIDE DEF cells
<1>7. cells \in Seq(Cell) /\ Len(cells) = n  BY <1>1, <1>6
<1>8. Column.after = RowsRead /\ Column.dtype = dtype /\ Column.cells = cells  BY <1>3
<1>9. Column \in FrameOfRows  BY <1>1, <1>3, <1>4, <1>7 DEF FrameOfRows
<1> QED  BY <1>1, <1>5, <1>7, <1>8, <1>9

(* The parse keeps a value the type accepts, and the column shows it.      *)
LEMMA AcceptedShown ==
  ASSUME NEW t \in Types, NEW v \in Accepted(t)
  PROVE  Parsed(v, t).kept /\ Converts(Parsed(v, t), t)
<1>1. CASE t \in {"Integer", "Float", "Boolean"}  BY <1>1 DEF Parsed, Converts
<1>2. CASE t \in {"DateTime", "Duration"}  BY <1>2 DEF Parsed, Converts
<1>3. CASE t = "String"  BY <1>3 DEF Parsed, Converts
<1> QED  BY <1>1, <1>2, <1>3 DEF Types

LEMMA ColumnKept ==
  ASSUME SchemaInv, FramesPlaced, BatchRows # {}, IsScan, Covered, Reading
  PROVE  KeptIn(Column)
<1> DEFINE n == Cardinality(BatchRows)
<1>0. DOMAIN text = 1..Len(text) /\ Len(text) \in Nat /\ Given  BY GivenFacts DEF SchemaInv
<1>1. n \in Nat /\ n = Last - RowsRead /\ RowsRead \in Nat /\ Last \in Nat /\ Last <= Len(text)
  BY <1>0, BatchPlaced
<1>2. field # None  BY DEF SchemaInv
<1> SUFFICES ASSUME Column.dtype # None, NEW k \in DOMAIN Column.cells,
                    text[Column.after + k] # None
             PROVE  Column.cells[k] = "kept"
  BY DEF KeptIn
<1>3. Present  BY DEF Column, Present
<1>4. Column.after = RowsRead /\ DOMAIN Column.cells = 1..n  BY DEF Column
<1>5. PICK i : i = RowsRead + k  OBVIOUS
<1>6. text[i] # None  BY <1>4, <1>5
<1> HIDE DEF n
<1>7. i \in DOMAIN text  BY <1>0, <1>1, <1>4, <1>5
<1>8. field \in Types /\ text[i] \in Accepted(field)  BY <1>6, <1>7, CoveredAccepts
<1>9. Plain(field) = field  BY <1>8 DEF Plain, Types
<1>10. ValueAt(i) = text[i]  BY <1>3 DEF Present, ValueAt
<1>11. ParsedAt(i) = Parsed(text[i], field)  BY <1>2, <1>10 DEF ParsedAt
<1>12. Filled(i, field) = "kept"  BY <1>6, <1>8, <1>10, <1>11, AcceptedShown DEF Filled
<1>13. ColumnType = field  BY <1>2, <1>3, <1>9, OneColumnType
<1>14. Column.cells[k] = Filled(RowsRead + k, ColumnType)  BY <1>3, <1>4 DEF Column, Present, n
<1> QED  BY <1>5, <1>12, <1>13, <1>14

(* The next batch depends on what has been read, and on the schema.        *)
LEMMA ColumnUnchanged ==
  ASSUME UNCHANGED <<inputs, field, frames>>
  PROVE  BatchRows' = BatchRows /\ Column' = Column
<1>1. text' = text /\ opts' = opts /\ field' = field /\ frames' = frames  BY DEF inputs
<1>2. RowsRead' = RowsRead  BY <1>1 DEF RowsRead
<1>3. BatchRows' = BatchRows  BY <1>1, <1>2 DEF BatchRows, Rows
<1>4. \A i : ValueAt(i)' = ValueAt(i)  BY <1>1, <1>2 DEF ValueAt
<1>5. \A i : ParsedAt(i)' = ParsedAt(i)  BY <1>1, <1>4 DEF ParsedAt
<1>6. UsedField' = UsedField  BY <1>1, <1>2 DEF UsedField
<1>7. ColumnType' = ColumnType
  <2> DEFINE has == {ParsedAt(i).type : i \in {i \in BatchRows : ValueAt(i) # None}}
             type(h) == IF UsedField \notin {"Auto", "Unlisted"} THEN UsedField
                        ELSE Precedence[CHOOSE p \in DOMAIN Precedence :
                               Precedence[p] \in h /\ \A q \in 1..(p - 1) : Precedence[q] \notin h]
  <2>1. {i \in BatchRows : ValueAt(i) # None}' = {i \in BatchRows : ValueAt(i) # None}
    BY <1>3, <1>4
  <2>2. has' = has  BY <1>5, <2>1
  <2>3. ColumnType = type(has)  BY DEF ColumnType
  <2>4. ColumnType' = type(has)'  BY DEF ColumnType
  <2> HIDE DEF has
  <2>5. type(has)' = type(has)  BY <1>6, <2>2
  <2> QED  BY <2>3, <2>4, <2>5
<1>8. \A i, t : Filled(i, t)' = Filled(i, t)  BY <1>4, <1>5 DEF Filled
<1> QED  BY <1>2, <1>3, <1>4, <1>7, <1>8 DEF Column

LEMMA SingleBatchInv == ASSUME IInv, SingleBatch PROVE IInv'
<1>1. /\ pc = "single" /\ BatchRows # {} /\ UNCHANGED <<inputs, promised, field, builder>>
      /\ pc' \in {"single", "unfit"}
  BY DEF SingleBatch
<1>2. /\ SchemaInv /\ FramesPlaced /\ FramesTyped /\ WorkersFirst /\ ProbedKept
      /\ Given /\ text' = text /\ opts' = opts /\ IsScan' = IsScan /\ Covered' = Covered
  BY <1>1, DerivedKept DEF IInv, SchemaInv, inputs
<1>3. SchemaInv' /\ BuilderInv'  BY <1>1, SchemaKept, BuilderKept DEF IInv
<1>4. WorkersFirst'  BY <1>1, <1>2, FittingKept DEF WorkersFirst
<1>5. CASE pc' = "unfit" /\ frames' = frames /\ IsScan /\ frames # <<>>
           /\ frames[Len(frames)].dtype # Column.dtype
  <2>1. FramesPlaced' /\ FramesTyped' /\ ProbedKept'
    BY <1>1, <1>2, <1>5 DEF FramesPlaced, FramesTyped, ProbedKept, KeptIn
  <2>2. BatchRows' = BatchRows /\ Column' = Column  BY <1>1, <1>5, ColumnUnchanged
  <2>3. Unfit'  BY <1>1, <1>2, <1>5, <2>2 DEF Unfit
  <2> QED  BY <1>3, <1>4, <2>1, <2>3 DEF IInv
<1>6. CASE frames' = Append(frames, Column) /\ pc' = pc
  <2> DEFINE n == Len(frames)
  <2>1. frames \in Seq(FrameOfRows) /\ n \in Nat /\ DOMAIN frames = 1..n
    BY <1>2 DEF FramesPlaced
  <2>2. /\ Column \in FrameOfRows /\ Column.after + Len(Column.cells) <= Len(text)
        /\ field # None => Column.dtype \in {None, FilledDtype(Plain(field))}
    BY <1>1, <1>2, ColumnPlaced
  <2>3. IsScan /\ Covered => KeptIn(Column)  BY <1>1, <1>2, ColumnKept DEF Reading
  <2>4. PICK c : c = Column  OBVIOUS
  <2>5. /\ frames' \in Seq(FrameOfRows) /\ DOMAIN frames' = 1..(n + 1)
        /\ frames'[n + 1] = c /\ \A k \in 1..n : frames'[k] = frames[k]
    BY <1>6, <2>1, <2>2, <2>4
  <2>6. \A k \in 1..(n + 1) : k = n + 1 \/ k \in DOMAIN frames  BY <2>1
  <2> HIDE DEF n
  <2>7. FramesPlaced'
    BY <1>1, <1>2, <1>6, <2>1, <2>2, <2>4, <2>5, <2>6 DEF FramesPlaced
  <2>8. FramesTyped'
    BY <1>1, <1>2, <1>6, <2>1, <2>2, <2>4, <2>5, <2>6 DEF FramesTyped
  <2>9. ProbedKept'
    BY <1>1, <1>2, <1>6, <2>1, <2>3, <2>4, <2>5, <2>6 DEF ProbedKept, KeptIn
  <2>10. Unfit'  BY <1>1, <1>6 DEF Unfit
  <2> QED  BY <1>3, <1>4, <2>7, <2>8, <2>9, <2>10 DEF IInv
<1> QED  BY <1>5, <1>6 DEF SingleBatch

LEMMA EndOfTextInv == ASSUME IInv, EndOfText PROVE IInv'
<1>1. /\ pc = "single" /\ pc' = "done" /\ UNCHANGED <<inputs, promised, field, builder, frames>>
  BY DEF EndOfText
<1>2. text' = text /\ opts' = opts /\ IsScan' = IsScan /\ Covered' = Covered
      /\ Answerable' = Answerable
  BY <1>1, DerivedKept, FittingKept DEF inputs
<1>3. SchemaInv' /\ BuilderInv'  BY <1>1, SchemaKept, BuilderKept DEF IInv
<1>4. FramesPlaced' /\ FramesTyped' /\ ProbedKept'
  BY <1>1, <1>2 DEF IInv, FramesPlaced, FramesTyped, ProbedKept, KeptIn
<1>5. Unfit' /\ WorkersFirst'  BY <1>1, <1>2 DEF IInv, Unfit, WorkersFirst
<1> QED  BY <1>3, <1>4, <1>5 DEF IInv

LEMMA StutterInv == ASSUME IInv, UNCHANGED vars PROVE IInv'
<1>1. UNCHANGED <<inputs, promised, field, pc, builder, frames>>  BY DEF vars
<1>2. text' = text /\ opts' = opts /\ share' = share  BY <1>1 DEF inputs
<1>3. /\ Given' = Given /\ Wanted' = Wanted /\ Told' = Told /\ IsScan' = IsScan
      /\ Covered' = Covered /\ Answerable' = Answerable
      /\ BatchRows' = BatchRows /\ Column' = Column
  BY <1>1, DerivedKept, FittingKept, ColumnUnchanged
<1>4. Promise(Told)' = Promise(Told)  BY <1>3 DEF Promise
<1>5. SchemaInv'  BY <1>1, <1>2, <1>3, <1>4 DEF IInv, SchemaInv, Reading
<1>6. BuilderInv'  BY <1>1, <1>2, <1>3 DEF IInv, BuilderInv
<1>7. FramesPlaced' /\ FramesTyped'  BY <1>1, <1>2 DEF IInv, FramesPlaced, FramesTyped, OfWorkers
<1>8. Unfit'  BY <1>1, <1>3 DEF IInv, Unfit
<1>9. WorkersFirst'  BY <1>1, <1>2, <1>3 DEF IInv, WorkersFirst, ByWorkers
<1>10. ProbedKept'  BY <1>1, <1>2, <1>3 DEF IInv, ProbedKept, KeptIn
<1> QED  BY <1>5, <1>6, <1>7, <1>8, <1>9, <1>10 DEF IInv

(* The inductive invariant of a column.                                    *)
THEOREM Inductive == Spec => []IInv
<1>1. ASSUME IInv, [Next]_vars PROVE IInv'
  BY <1>1, AnnounceInv, CollectInv, PullInv, PushLineInv, CollectFrameInv, CollectNothingInv,
     SingleBatchInv, EndOfTextInv, StutterInv DEF Next
<1> QED  BY InitInv, <1>1, PTL DEF Spec

-----------------------------------------------------------------------------
(* What follows for the column.                                            *)

LEMMA FramesWhileReading == ASSUME IInv, frames # <<>> PROVE Reading /\ (IsScan => field # None)
BY DEF IInv, FramesPlaced, SchemaInv, Reading

(* The batches' type is the announced one, durations apart.                *)
LEMMA FilledAnnounced == \A f \in Fields \ {"Duration"} : FilledDtype(Plain(f)) = Announced(f)
BY DEF Fields, Types, FilledDtype, Plain, Announced

LEMMA ColumnsTyped ==
  ASSUME IInv, field # None, NEW c \in Columns
  PROVE  \/ c.dtype = FilledDtype(Plain(field))
         \/ c.dtype = Announced(field) /\ Columns = {c}
<1>1. PICK k \in DOMAIN frames : frames[k].dtype # None /\ c = frames[k]  BY DEF Columns
<1>2. CASE \A j \in DOMAIN frames : frames[j].dtype \in {None, FilledDtype(Plain(field))}
  BY <1>1, <1>2
<1>3. CASE OfWorkers
  <2>1. DOMAIN frames = {1}  BY <1>3 DEF OfWorkers, IInv, FramesPlaced
  <2>2. k = 1 /\ Columns = {c}  BY <1>1, <2>1 DEF Columns
  <2> QED  BY <1>1, <1>3, <2>2 DEF OfWorkers
<1> QED  BY <1>2, <1>3 DEF IInv, FramesTyped

(* polars gets the type it was told: whatever path reads the column, and   *)
(* however its rows are cut into shares and batches.                       *)
THEOREM PromisesAreKept == Spec => []PromiseKept
<1>1. ASSUME IInv PROVE PromiseKept
  <2> SUFFICES ASSUME promised # None, field # "Duration",
                      opts.declared = None /\ opts.caller = "direct"
                        => opts.asked \in {None, opts.length},
                      NEW c \in Columns
               PROVE  c.dtype = promised
    BY DEF PromiseKept
  <2>1. IsScan /\ promised = Promise(Told) /\ Given  BY <1>1 DEF IInv, SchemaInv
  <2>2. frames # <<>>  BY DEF Columns
  <2>3. field # None /\ field = Wanted /\ field \in Fields \ {"Duration"}
    BY <1>1, <2>1, <2>2, FramesWhileReading DEF IInv, SchemaInv
  <2>4. Told = Wanted  BY <2>1, FieldKinds DEF Told, Wanted
  <2>5. promised = Announced(field)  BY <2>1, <2>3, <2>4 DEF Promise
  <2> QED  BY <1>1, <2>3, <2>5, ColumnsTyped, FilledAnnounced
<1> QED  BY <1>1, Inductive, PTL

(* No two batches and no two workers of a scan differ in the type of the   *)
(* column, unless one of them has no column at all.                        *)
THEOREM TypesDoNotDiffer == Spec => []OneType
<1>1. ASSUME IInv PROVE OneType
  <2>1. ASSUME pc = "unfit" PROVE None \in {frames[Len(frames)].dtype, Column.dtype}
    <3>1. IsScan /\ BatchRows # {} /\ frames # <<>> /\ frames[Len(frames)].dtype # Column.dtype
      BY <1>1, <2>1 DEF IInv, Unfit
    <3>2. field # None  BY <1>1, <3>1, FramesWhileReading
    <3>3. Column.dtype \in {None, FilledDtype(Plain(field))}
      BY <1>1, <3>1, <3>2, ColumnPlaced DEF IInv, SchemaInv
    <3>4. Len(frames) \in DOMAIN frames  BY <1>1, <3>1 DEF IInv, FramesPlaced
    <3>5. frames[Len(frames)].dtype \in {None, FilledDtype(Plain(field))}
      BY <1>1, <2>1, <3>2, <3>4 DEF IInv, FramesTyped
    <3> QED  BY <3>1, <3>3, <3>5
  <2>2. ASSUME IsScan, pc = "workers", NEW v \in Busy, NEW w \in Busy,
               None \notin {DtypeOf(v), DtypeOf(w)}
        PROVE  DtypeOf(v) = DtypeOf(w)
    <3>1. field # None  BY <1>1, <2>2 DEF IInv, SchemaInv, Reading
    <3> QED  BY <2>2, <3>1, SameBuilders
  <2>3. ASSUME IsScan \/ field # None, NEW c \in Columns, NEW d \in Columns
        PROVE  c.dtype = d.dtype
    <3>1. frames # <<>>  BY DEF Columns
    <3>2. field # None  BY <1>1, <2>3, <3>1, FramesWhileReading
    <3>3. \/ c.dtype = FilledDtype(Plain(field)) \/ Columns = {c}
      BY <1>1, <3>2, ColumnsTyped
    <3>4. \/ d.dtype = FilledDtype(Plain(field)) \/ Columns = {d}
      BY <1>1, <3>2, ColumnsTyped
    <3> QED  BY <3>3, <3>4
  <2> QED  BY <2>1, <2>2, <2>3 DEF OneType
<1> QED  BY <1>1, Inductive, PTL

(* A probe that saw every row has chosen a type that loses none of them.   *)
THEOREM NoProbedValueLost == Spec => []ProbedValuesKept
<1>1. IInv => ProbedValuesKept  BY DEF IInv, ProbedKept, KeptIn, ProbedValuesKept, Columns
<1> QED  BY <1>1, Inductive, PTL

(* The two paths agree on a single value.                                  *)
LEMMA ValueAgrees ==
  ASSUME NEW f \in Fields \ {"Duration"}, NEW v \in Classes, None \notin Classes
  PROVE  /\ Built(v, Plain(f)) # "null"
         /\ LET p == Parsed(v, f)
            IN  Built(v, Plain(f)) = "kept"
                  <=> p.kept /\ Converts(p, IF f \in {"Auto", "Unlisted"} THEN "String" ELSE f)
<1>1. v # None  OBVIOUS
<1>2. CASE f \in {"Integer", "Float", "Boolean"}
  <2>1. Plain(f) = f  BY <1>2 DEF Plain
  <2> QED  BY <1>1, <1>2, <2>1 DEF Built, Parsed, Converts
<1>3. CASE f = "DateTime"
  <2>1. Plain(f) = f  BY <1>3 DEF Plain
  <2> QED  BY <1>1, <1>3, <2>1 DEF Built, Parsed, Converts
<1>4. CASE f \in {"String", "Auto", "Unlisted"}
  <2>1. Plain(f) = "String" /\ v \in Accepted("String")  BY <1>4 DEF Plain, Accepted
  <2> QED  BY <1>1, <1>4, <2>1 DEF Built, Parsed, Converts
<1> QED  BY <1>2, <1>3, <1>4 DEF Fields, Types

(* Where the workers answer, they keep the values the single-threaded path *)
(* keeps, and leave null the rows without the key, and only those.         *)
THEOREM PathsKeepTheSame == Spec => []PathsAgree
<1>1. ASSUME IInv PROVE PathsAgree
  <2> SUFFICES ASSUME IsScan, FromWorkers, field # "Duration",
                      NEW c \in Columns, NEW k \in DOMAIN text
               PROVE  /\ c.cells[k] = "kept" <=> text[k] # None /\ KeptSingly(text[k])
                      /\ c.cells[k] = "null" <=> text[k] = None
    BY DEF PathsAgree
  <2>1. ByWorkers  BY <1>1 DEF IInv, WorkersFirst, FromWorkers, Answerable
  <2>2. DOMAIN frames = {1}  BY <1>1, <2>1 DEF IInv, FramesPlaced, ByWorkers
  <2>3. c = frames[1] /\ frames[1].dtype # None  BY <2>2 DEF Columns
  <2>4. c.cells[k] = Built(text[k], Plain(field))  BY <2>1, <2>3 DEF ByWorkers
  <2>5. field \in Fields \ {"Duration"}
    BY <1>1, <2>1 DEF IInv, SchemaInv, FromWorkers, Reading
  <2>6. text[k] \in Classes \cup {None} /\ None \notin Classes
    BY <1>1, GivenFacts DEF IInv, SchemaInv
  <2>7. CASE text[k] = None  BY <2>4, <2>7 DEF Built
  <2>8. CASE text[k] # None
    BY <2>4, <2>5, <2>6, <2>8, ValueAgrees DEF KeptSingly
  <2> QED  BY <2>7, <2>8
<1> QED  BY <1>1, Inductive, PTL
====
