-------------------------- MODULE BatchReaderProofs -------------------------
(***************************************************************************)
(* What the batches account for, for every text, every option and every    *)
(* sequence of calls: the slice, the lines, the order of the rows, the     *)
(* stream that is never opened again, and what a scan returns.             *)
(***************************************************************************)
EXTENDS BatchReader, TLAPS, FiniteSetTheorems

-----------------------------------------------------------------------------
(* The inductive invariant.                                                *)

(* The rows the call in work has read and not shown yet.                   *)
Pending == IF phase \in {"parse", "flush"} THEN Ids(accumulated) ELSE {}

Shown == raw \cup lost \cup Pending

(* Every line behind which the stream stands has gone somewhere; what is   *)
(* left of a broken line belongs to one that was given up.                 *)
Accounted ==
  /\ reader # None => \A i \in Kept : i <= reader => i \in Shown
  /\ torn => reader # None /\ reader + 1 \in lost

(* The rows of the call are rows of different lines, no more than the      *)
(* batch has room for; each was read in this call.                         *)
CallRows ==
  /\ phase \in {"parse", "flush"} =>
       /\ reader # None
       /\ \A i \in 1..Len(accumulated) : accumulated[i].id <= reader
       /\ \A i, j \in 1..Len(accumulated) : i < j => accumulated[i].id < accumulated[j].id
       /\ Len(accumulated) <= lines_read
       /\ BatchSize # None => Len(accumulated) <= BatchSize
  /\ phase = "flush" => BatchEnds /\ (SliceRead => finished)
  /\ phase \in {"open", "parse"} => ~ finished

(* Once rows of a slice were shown the slice is read, or the stream is at  *)
(* its end and nothing can be added.                                       *)
SliceCounted ==
  opts.n_rows # None =>
    /\ Cardinality(raw) <= opts.n_rows
    /\ raw # {} => /\ phase # "flush"
                   /\ \/ finished
                      \/ /\ reader = Len(text) /\ Cardinality(raw) < opts.n_rows
                         /\ phase = "parse" => accumulated = <<>>

(* Nothing more is to come.                                                *)
AllShown == \/ Kept \subseteq Shown
            \/ BatchSize = 0
            \/ opts.n_rows # None /\ Cardinality(Shown) >= opts.n_rows

EndsAccounted == finished \/ Ended => AllShown

IInv == TypeOK /\ Accounted /\ CallRows /\ SliceCounted /\ EndsAccounted

Rows == [id : 1..Len(text), keys : SUBSET AllKeys]

-----------------------------------------------------------------------------
(* Sets of lines.                                                          *)

LEMMA IdsAppended ==
  ASSUME NEW s \in Seq(Rows), NEW r \in Rows
  PROVE  Append(s, r) \in Seq(Rows) /\ Ids(Append(s, r)) = Ids(s) \cup {r.id}
<1> DEFINE t == Append(s, r)
<1>1. /\ t \in Seq(Rows) /\ Len(t) = Len(s) + 1 /\ t[Len(s) + 1] = r
      /\ \A i \in 1..Len(s) : t[i] = s[i]
      /\ DOMAIN t = 1..(Len(s) + 1) /\ DOMAIN s = 1..Len(s) /\ Len(s) \in Nat
  OBVIOUS
<1> HIDE DEF t
<1>2. 1..(Len(s) + 1) = 1..Len(s) \cup {Len(s) + 1}  BY <1>1
<1>3. Ids(t) = Ids(s) \cup {r.id}  BY <1>1, <1>2 DEF Ids
<1> QED  BY <1>1, <1>3 DEF t

LEMMA IdsTyped ==
  ASSUME NEW s \in Seq(Rows)
  PROVE  Ids(s) \subseteq 1..Len(text) /\ (s = <<>> => Ids(s) = {})
<1>1. \A i \in DOMAIN s : s[i] \in Rows  OBVIOUS
<1>2. \A r \in Rows : r.id \in 1..Len(text)  BY DEF Rows
<1>3. s = <<>> => DOMAIN s = {}  OBVIOUS
<1> QED  BY <1>1, <1>2, <1>3 DEF Ids

(* Rows in the order of the text are rows of different lines.              *)
LEMMA IdsCounted ==
  ASSUME NEW s \in Seq(Rows),
         \A i, j \in 1..Len(s) : i < j => s[i].id < s[j].id
  PROVE  Cardinality(Ids(s)) = Len(s)
<1> DEFINE f == [i \in 1..Len(s) |-> s[i].id]
<1>1. Len(s) \in Nat /\ DOMAIN s = 1..Len(s) /\ \A i \in 1..Len(s) : s[i].id \in Nat
  <2>1. \A i \in 1..Len(s) : s[i] \in Rows  OBVIOUS
  <2>2. \A r \in Rows : r.id \in Nat  BY DEF Rows
  <2> QED  BY <2>1, <2>2
<1>2. f \in Bijection(1..Len(s), Ids(s))
  <2>1. f \in [1..Len(s) -> Ids(s)]  BY <1>1 DEF Ids
  <2>2. \A y \in Ids(s) : \E i \in 1..Len(s) : f[i] = y  BY <1>1 DEF Ids
  <2>3. \A i, j \in 1..Len(s) : f[i] = f[j] => i = j
    <3> TAKE i, j \in 1..Len(s)
    <3>1. i < j \/ j < i \/ i = j  BY <1>1
    <3> QED  BY <1>1, <3>1
  <2> HIDE DEF f
  <2>4. f \in Surjection(1..Len(s), Ids(s))  BY <2>1, <2>2 DEF Surjection
  <2>5. f \in Injection(1..Len(s), Ids(s))  BY <2>1, <2>3 DEF Injection, IsInjective
  <2> QED  BY <2>4, <2>5 DEF Bijection, Injection, Surjection
<1>3. IsFiniteSet(1..Len(s)) /\ Cardinality(1..Len(s)) = Len(s)
  <2>1. Len(s) \in Int /\ (1 > Len(s) => Len(s) = 0)  BY <1>1
  <2> QED  BY <2>1, FS_Interval
<1> QED  BY <1>2, <1>3, FS_Bijection DEF ExistsBijection

LEMMA LinesCounted ==
  ASSUME TypeOK, NEW T \in SUBSET (1..Len(text)), NEW S \in SUBSET T
  PROVE  /\ Cardinality(S) \in Nat /\ Cardinality(T) \in Nat
         /\ Cardinality(S) <= Cardinality(T)
<1>1. IsFiniteSet(T)
  <2>1. Len(text) \in Nat  BY DEF TypeOK
  <2>2. IsFiniteSet(1..Len(text))  BY <2>1, FS_Interval
  <2> QED  BY <2>2, FS_Subset
<1>2. IsFiniteSet(S) /\ Cardinality(S) <= Cardinality(T)  BY <1>1, FS_Subset
<1> QED  BY <1>1, <1>2, FS_CardinalityType

LEMMA Typed ==
  ASSUME TypeOK
  PROVE  /\ Len(text) \in Nat /\ DOMAIN text = 1..Len(text)
         /\ BatchSize \in Nat \cup {None} /\ None \notin Nat
         /\ accumulated \in Seq(Rows) /\ Kept \subseteq Accepted
         /\ Accepted \subseteq 1..Len(text) /\ Shown \subseteq 1..Len(text)
<1>1. /\ accumulated \in Seq(Rows) /\ Len(text) \in Nat /\ DOMAIN text = 1..Len(text)
      /\ BatchSize \in Nat \cup {None} /\ None \notin Nat
  BY BatchAssumption DEF TypeOK, Rows, BatchSize
<1>2. Pending \subseteq 1..Len(text)  BY <1>1, IdsTyped DEF Pending
<1> QED  BY <1>1, <1>2 DEF TypeOK, Shown, Kept, Accepted

(* What was all there is to show stays so.                                 *)
LEMMA AllShownStays ==
  ASSUME TypeOK, TypeOK', UNCHANGED scanned, Shown \subseteq Shown', AllShown
  PROVE  AllShown'
<1>1. BatchSize' = BatchSize /\ Kept' = Kept /\ text' = text /\ opts' = opts
  BY DEF scanned, BatchSize, Kept, Accepted
<1>2. CASE opts.n_rows # None /\ Cardinality(Shown) >= opts.n_rows
  <2>1. Shown' \subseteq 1..Len(text)
    <3>1. (raw \subseteq 1..Len(text) /\ lost \subseteq 1..Len(text))'  BY DEF TypeOK
    <3>2. accumulated' \in Seq([id : 1..Len(text), keys : SUBSET AllKeys])
      BY <1>1 DEF TypeOK
    <3>3. Ids(accumulated') \subseteq 1..Len(text)  BY <3>2, IdsTyped DEF Rows
    <3> QED  BY <1>1, <3>1, <3>3 DEF Shown, Pending, Ids
  <2>2. /\ Cardinality(Shown) \in Nat /\ Cardinality(Shown') \in Nat
        /\ Cardinality(Shown) <= Cardinality(Shown')
    BY <2>1, LinesCounted
  <2>3. opts.n_rows \in Nat  BY <1>2 DEF TypeOK
  <2> QED  BY <1>1, <1>2, <2>2, <2>3 DEF AllShown
<1> QED  BY <1>1, <1>2 DEF AllShown

-----------------------------------------------------------------------------
(* Rows in order.                                                          *)

(* The members of a finite set of numbers, counted from the smallest.      *)
LEMMA NthAscends ==
  ASSUME NEW n \in Nat, NEW S \in SUBSET (1..n)
  PROVE  /\ Cardinality(S) \in Nat
         /\ \A k \in 1..Cardinality(S) : Nth(S, k) \in S
         /\ \A k, l \in 1..Cardinality(S) : k < l => Nth(S, k) < Nth(S, l)
         /\ \A i \in S : \E k \in 1..Cardinality(S) : i = Nth(S, k)
<1> DEFINE c == Cardinality(S)
           upto(i) == {j \in S : j <= i}
           rank == [i \in S |-> Cardinality(upto(i))]
<1>1. IsFiniteSet(S) /\ c \in Nat
  <2>1. IsFiniteSet(1..n)  BY FS_Interval
  <2>2. IsFiniteSet(S)  BY <2>1, FS_Subset
  <2> QED  BY <2>2, FS_CardinalityType
<1>2. ASSUME NEW i \in S
      PROVE  IsFiniteSet(upto(i)) /\ Cardinality(upto(i)) \in 1..c
  <2>1. upto(i) \in SUBSET S /\ i \in upto(i)  OBVIOUS
  <2>2. IsFiniteSet(upto(i)) /\ Cardinality(upto(i)) <= c  BY <1>1, <2>1, FS_Subset
  <2>3. Cardinality(upto(i)) \in Nat  BY <2>2, FS_CardinalityType
  <2>4. Cardinality(upto(i)) # 0  BY <2>1, <2>2, FS_EmptySet
  <2> QED  BY <1>1, <2>2, <2>3, <2>4
<1>3. ASSUME NEW i \in S, NEW j \in S, i < j
      PROVE  rank[i] < rank[j]
  <2>0. i \in Nat /\ j \in Nat /\ \A l \in S : l \in Nat  OBVIOUS
  <2>1. upto(i) \in SUBSET upto(j)
    <3>1. ASSUME NEW l \in S, l <= i PROVE l <= j  BY <1>3, <2>0, <3>1
    <3> QED  BY <3>1
  <2>7. j \in upto(j) /\ j \notin upto(i)  BY <1>3, <2>0
  <2>2. upto(i) # upto(j)  BY <2>7
  <2>3. IsFiniteSet(upto(i)) /\ IsFiniteSet(upto(j))  BY <1>2
  <2>4. Cardinality(upto(i)) <= Cardinality(upto(j)) /\ Cardinality(upto(i)) # Cardinality(upto(j))
    BY <2>1, <2>2, <2>3, FS_Subset
  <2>5. Cardinality(upto(i)) \in Nat /\ Cardinality(upto(j)) \in Nat  BY <1>2
  <2>6. rank[i] = Cardinality(upto(i)) /\ rank[j] = Cardinality(upto(j))  OBVIOUS
  <2> QED  BY <2>4, <2>5, <2>6
<1>4. rank \in [S -> 1..c] /\ \A i \in S : rank[i] \in Nat
  BY <1>1, <1>2
<1>5. \A i, j \in S : rank[i] = rank[j] => i = j
  <2> TAKE i, j \in S
  <2>1. i < j \/ j < i \/ i = j  OBVIOUS
  <2> QED  BY <1>3, <1>4, <2>1
<1>6. \A k \in 1..c : \E i \in S : rank[i] = k
  <2>1. rank \in Injection(S, 1..c)  BY <1>4, <1>5 DEF Injection, IsInjective
  <2>2. IsFiniteSet(1..c) /\ Cardinality(1..c) = c
    <3>1. c \in Int /\ (1 > c => c = 0)  BY <1>1
    <3> QED  BY <3>1, FS_Interval
  <2>3. rank \in Surjection(S, 1..c)  BY <2>1, <2>2, FS_Injection
  <2> QED  BY <2>3 DEF Surjection
<1>7. ASSUME NEW k \in 1..c PROVE Nth(S, k) \in S /\ rank[Nth(S, k)] = k
  <2>1. \E i \in S : Cardinality({j \in S : j <= i}) = k  BY <1>6
  <2>2. Nth(S, k) \in S /\ Cardinality({j \in S : j <= Nth(S, k)}) = k  BY <2>1 DEF Nth
  <2> QED  BY <2>2
<1>8. ASSUME NEW k \in 1..c, NEW l \in 1..c, k < l PROVE Nth(S, k) < Nth(S, l)
  <2>1. /\ Nth(S, k) \in S /\ rank[Nth(S, k)] = k
        /\ Nth(S, l) \in S /\ rank[Nth(S, l)] = l
    BY <1>7
  <2> HIDE DEF rank
  <2>2. PICK i \in S, j \in S : i = Nth(S, k) /\ j = Nth(S, l)  BY <2>1
  <2>3. ~ (j < i) /\ i # j  BY <1>3, <1>8, <2>1, <2>2
  <2> QED  BY <2>2, <2>3
<1>9. ASSUME NEW i \in S PROVE \E k \in 1..c : i = Nth(S, k)
  <2>1. PICK k \in 1..c : rank[i] = k  BY <1>4
  <2>2. Nth(S, k) \in S /\ rank[Nth(S, k)] = k  BY <1>7
  <2> HIDE DEF rank
  <2> QED  BY <1>5, <2>1, <2>2
<1> QED  BY <1>1, <1>7, <1>8, <1>9

(* The rows come in the order of the text.                                 *)
Ascending(rows) == \A i, j \in 1..Len(rows) : i < j => rows[i].id < rows[j].id

(* The rows of a parallel frame are its lines, in the order of the text.   *)
LEMMA TextRows ==
  ASSUME TypeOK, NEW T \in SUBSET (1..Len(text))
  PROVE  /\ InOrderOfText(T) \in Seq(Rows) /\ Ascending(InOrderOfText(T))
         /\ Ids(InOrderOfText(T)) = T
         /\ \A i \in DOMAIN InOrderOfText(T) :
              InOrderOfText(T)[i].keys = text[InOrderOfText(T)[i].id].keys
<1> DEFINE s == InOrderOfText(T)
<1>1. Len(text) \in Nat /\ DOMAIN text = 1..Len(text)  BY Typed
<1>2. PICK c \in Nat : c = Cardinality(T)  BY <1>1, NthAscends
<1>3. /\ \A k \in 1..c : Nth(T, k) \in T
      /\ \A k, l \in 1..c : k < l => Nth(T, k) < Nth(T, l)
      /\ \A i \in T : \E k \in 1..c : i = Nth(T, k)
  BY <1>1, <1>2, NthAscends
<1>4. s = [k \in 1..c |-> [id |-> Nth(T, k), keys |-> text[Nth(T, k)].keys]]
  BY <1>2 DEF InOrderOfText
<1>5. \A i \in T : text[i].keys \in SUBSET AllKeys
  <2>1. \A i \in T : text[i] \in Lines  BY <1>1 DEF TypeOK
  <2> QED  BY <2>1, BatchAssumption
<1>6. ASSUME NEW k \in 1..c
      PROVE  s[k] \in Rows /\ s[k].id = Nth(T, k) /\ s[k].keys = text[Nth(T, k)].keys
  <2>1. PICK i \in T : i = Nth(T, k)  BY <1>3
  <2>2. s[k] = [id |-> i, keys |-> text[i].keys]  BY <1>4, <2>1
  <2> HIDE DEF s
  <2> QED  BY <1>5, <2>1, <2>2 DEF Rows
<1>7. s \in Seq(Rows) /\ Len(s) = c /\ DOMAIN s = 1..c
  <2>1. s \in [1..c -> Rows]  BY <1>4, <1>6
  <2> HIDE DEF s
  <2> QED  BY <2>1
<1> HIDE DEF s
<1>8. Ids(s) = T
  <2>1. ASSUME NEW i \in T PROVE i \in Ids(s)
    <3>1. PICK k \in 1..c : i = Nth(T, k)  BY <1>3
    <3> QED  BY <1>6, <1>7, <3>1 DEF Ids
  <2>2. ASSUME NEW k \in 1..c PROVE s[k].id \in T  BY <1>3, <1>6
  <2> QED  BY <1>7, <2>1, <2>2 DEF Ids
<1> QED  BY <1>3, <1>6, <1>7, <1>8 DEF Ascending, s

(* What passes the predicate, in the order it had.                         *)
LEMMA FilteredRows ==
  ASSUME TypeOK, NEW rows \in Seq(Rows), Ascending(rows)
  PROVE  /\ Filtered(rows) \in Seq(Rows) /\ Ascending(Filtered(rows))
         /\ Ids(Filtered(rows)) = {rows[i].id : i \in {j \in DOMAIN rows : Verdict(rows[j])}}
<1> DEFINE through == {i \in DOMAIN rows : Verdict(rows[i])}
           s == Filtered(rows)
<1>1. Len(rows) \in Nat /\ DOMAIN rows = 1..Len(rows)  OBVIOUS
<1>2. PICK T \in SUBSET (1..Len(rows)) : T = through  BY <1>1
<1>3. PICK c \in Nat : c = Cardinality(T)  BY <1>1, NthAscends
<1>4. /\ \A k \in 1..c : Nth(T, k) \in T
      /\ \A k, l \in 1..c : k < l => Nth(T, k) < Nth(T, l)
      /\ \A i \in T : \E k \in 1..c : i = Nth(T, k)
  BY <1>1, <1>3, NthAscends
<1>5. s = [k \in 1..c |-> rows[Nth(T, k)]]  BY <1>2, <1>3 DEF Filtered
<1>6. ASSUME NEW k \in 1..c PROVE s[k] = rows[Nth(T, k)] /\ s[k] \in Rows
  <2>1. PICK i \in T : i = Nth(T, k)  BY <1>4
  <2>2. s[k] = rows[i] /\ rows[i] \in Rows  BY <1>5, <2>1
  <2> QED  BY <2>1, <2>2
<1>7. s \in Seq(Rows) /\ Len(s) = c /\ DOMAIN s = 1..c
  <2>1. s \in [1..c -> Rows]  BY <1>5, <1>6
  <2> HIDE DEF s
  <2> QED  BY <2>1
<1>8. Ids(s) = {rows[i].id : i \in T}
  <2> HIDE DEF s
  <2>1. ASSUME NEW i \in T PROVE rows[i].id \in Ids(s)
    <3>1. PICK k \in 1..c : i = Nth(T, k)  BY <1>4
    <3> QED  BY <1>6, <1>7, <3>1 DEF Ids
  <2>2. ASSUME NEW k \in 1..c PROVE s[k].id \in {rows[i].id : i \in T}  BY <1>4, <1>6
  <2> QED  BY <1>7, <2>1, <2>2 DEF Ids
<1>9. Ascending(s)
  <2> HIDE DEF s
  <2> SUFFICES ASSUME NEW i \in 1..c, NEW j \in 1..c, i < j PROVE s[i].id < s[j].id
    BY <1>7 DEF Ascending
  <2>1. PICK a \in T, b \in T : a = Nth(T, i) /\ b = Nth(T, j)  BY <1>4
  <2>2. a < b  BY <1>4, <2>1
  <2>3. rows[a].id < rows[b].id  BY <2>2 DEF Ascending
  <2> QED  BY <1>6, <2>1, <2>3
<1> QED  BY <1>2, <1>7, <1>8, <1>9

(* Rows that follow rows.                                                  *)
LEMMA IdsJoined ==
  ASSUME NEW r \in Seq(Rows), NEW s \in Seq(Rows)
  PROVE  Ids(r \o s) = Ids(r) \cup Ids(s)
<1> DEFINE t == r \o s
<1>1. /\ Len(r) \in Nat /\ Len(s) \in Nat
      /\ DOMAIN r = 1..Len(r) /\ DOMAIN s = 1..Len(s) /\ DOMAIN t = 1..(Len(r) + Len(s))
      /\ \A i \in 1..Len(r) : t[i] = r[i]
      /\ \A i \in 1..Len(s) : t[Len(r) + i] = s[i]
  OBVIOUS
<1> HIDE DEF t
<1>2. ASSUME NEW i \in 1..Len(r) PROVE r[i].id \in Ids(t)
  <2>1. i \in DOMAIN t  BY <1>1
  <2> QED  BY <1>1, <2>1 DEF Ids
<1>3. ASSUME NEW i \in 1..Len(s) PROVE s[i].id \in Ids(t)
  <2>1. PICK k \in DOMAIN t : k = Len(r) + i  BY <1>1
  <2>2. t[k] = s[i]  BY <1>1, <2>1
  <2> QED  BY <2>2 DEF Ids
<1>4. ASSUME NEW k \in DOMAIN t PROVE t[k].id \in Ids(r) \cup Ids(s)
  <2>1. CASE k \in 1..Len(r)  BY <1>1, <2>1 DEF Ids
  <2>2. CASE k \notin 1..Len(r)
    <3>1. PICK i \in 1..Len(s) : k = Len(r) + i
      <4>1. k - Len(r) \in 1..Len(s) /\ k = Len(r) + (k - Len(r))  BY <1>1, <2>2
      <4> QED  BY <4>1
    <3>2. t[k] = s[i]  BY <1>1, <3>1
    <3> QED  BY <1>1, <3>2 DEF Ids
  <2> QED  BY <2>1, <2>2
<1> QED  BY <1>1, <1>2, <1>3, <1>4 DEF Ids, t

LEMMA AppendAscends ==
  ASSUME TypeOK, NEW r \in Seq(Rows), NEW s \in Seq(Rows), Ascending(r), Ascending(s),
         \A i \in Ids(r), j \in Ids(s) : i < j
  PROVE  /\ r \o s \in Seq(Rows) /\ Ascending(r \o s)
         /\ Ids(r \o s) = Ids(r) \cup Ids(s)
<1> DEFINE t == r \o s
<1>1. /\ Len(r) \in Nat /\ Len(s) \in Nat
      /\ DOMAIN r = 1..Len(r) /\ DOMAIN s = 1..Len(s)
  OBVIOUS
<1>2. /\ t \in Seq(Rows) /\ Len(t) = Len(r) + Len(s) /\ DOMAIN t = 1..(Len(r) + Len(s))
      /\ \A i \in 1..Len(r) : t[i] = r[i]
      /\ \A i \in 1..Len(s) : t[Len(r) + i] = s[i]
  OBVIOUS
<1>3. Ids(t) = Ids(r) \cup Ids(s)  BY IdsJoined
<1> HIDE DEF t
<1>4. \A k \in 1..Len(t) : k \in 1..Len(r) \/ k - Len(r) \in 1..Len(s)
  BY <1>1, <1>2
<1>5. ASSUME NEW i \in 1..Len(t), NEW j \in 1..Len(t), i < j PROVE t[i].id < t[j].id
  <2>1. CASE i \in 1..Len(r) /\ j \in 1..Len(r)
    <3>1. t[i] = r[i] /\ t[j] = r[j]  BY <1>2, <2>1
    <3> QED  BY <1>5, <2>1, <3>1 DEF Ascending
  <2>2. CASE i \in 1..Len(r) /\ j - Len(r) \in 1..Len(s)
    <3>1. t[i] = r[i]  BY <1>2, <2>2
    <3>2. PICK l \in 1..Len(s) : t[j] = s[l]
      <4>1. PICK l \in 1..Len(s) : l = j - Len(r)  BY <2>2
      <4>2. j = Len(r) + l  BY <1>1, <4>1
      <4> QED  BY <1>2, <4>2
    <3>3. r[i].id \in Ids(r) /\ s[l].id \in Ids(s)  BY <1>1, <2>2 DEF Ids
    <3> QED  BY <3>1, <3>2, <3>3
  <2>3. CASE i - Len(r) \in 1..Len(s) /\ j - Len(r) \in 1..Len(s)
    <3>1. PICK k \in 1..Len(s), l \in 1..Len(s) : k = i - Len(r) /\ l = j - Len(r)  BY <2>3
    <3>2. k < l /\ i = Len(r) + k /\ j = Len(r) + l  BY <1>1, <1>5, <3>1
    <3>3. t[i] = s[k] /\ t[j] = s[l]  BY <1>2, <3>2
    <3> QED  BY <3>2, <3>3 DEF Ascending
  <2>4. CASE i - Len(r) \in 1..Len(s) /\ j \in 1..Len(r)  BY <1>1, <1>5, <2>4
  <2> QED  BY <1>4, <2>1, <2>2, <2>3, <2>4
<1> QED  BY <1>2, <1>3, <1>5 DEF Ascending, t

-----------------------------------------------------------------------------
(* The steps.                                                              *)

LEMMA InitInv == Init => IInv
<1> SUFFICES ASSUME Init PROVE IInv  OBVIOUS
<1>1. PICK r \in Inputs : text = r.text /\ opts = r.opts /\ faults = r.faults
  BY DEF Init
<1>2. TypeOK
  <2>1. text \in Seq(Lines) /\ {opts.n_rows, opts.batch_size} \subseteq Nat \cup {None}
    BY <1>1, BatchAssumption
  <2>2. Len(text) \in Nat  BY <2>1
  <2>3. reader \in 0..Len(text) \cup {None}  BY <2>2 DEF Init
  <2>4. accumulated \in Seq([id : 1..Len(text), keys : SUBSET AllKeys])  BY DEF Init
  <2>5. /\ torn \in BOOLEAN /\ offset \in Nat /\ finished \in BOOLEAN /\ lines_read \in Nat
        /\ phase \in {"idle", "batch", "open", "parse", "flush", "answered"}
        /\ raw \subseteq 1..Len(text) /\ lost \subseteq 1..Len(text)
    BY DEF Init
  <2> QED  BY <2>1, <2>3, <2>4, <2>5 DEF TypeOK
<1>3. Accounted
  BY <1>2, Typed, BatchAssumption DEF Init, Accounted
<1>4. CallRows  BY DEF Init, CallRows
<1>5. SliceCounted
  <2>1. Cardinality(raw) = 0  BY FS_EmptySet DEF Init
  <2> QED  BY <1>2, <2>1 DEF Init, SliceCounted, TypeOK
<1>6. EndsAccounted  BY DEF Init, EndsAccounted, Ended
<1> QED  BY <1>2, <1>3, <1>4, <1>5, <1>6 DEF IInv

(* A step between batches changes no row; it may open the stream.          *)
LEMMA QuietInv ==
  ASSUME IInv, TypeOK', UNCHANGED <<scanned, torn, finished, raw, lost>>,
         phase \notin {"parse", "flush"}, phase' \notin {"parse", "flush"},
         reader' = reader \/ (reader = None /\ reader' = 0),
         phase' = "open" => ~ finished, Ended' => AllShown
  PROVE  IInv'
<1>1. /\ Pending = {} /\ Pending' = {} /\ Shown' = Shown /\ Kept' = Kept
      /\ BatchSize' = BatchSize /\ text' = text /\ opts' = opts
  BY DEF Pending, Shown, Kept, Accepted, scanned, BatchSize
<1>2. TypeOK  BY DEF IInv
<1>3. Accounted'
  BY <1>1, <1>2, Typed DEF IInv, Accounted
<1>4. CallRows'  BY DEF CallRows
<1>5. SliceCounted'
  BY <1>1, <1>2, Typed DEF IInv, SliceCounted
<1>6. EndsAccounted'
  <2>1. AllShown' <=> AllShown  BY <1>1 DEF AllShown
  <2> QED  BY <2>1 DEF IInv, EndsAccounted
<1> QED  BY <1>3, <1>4, <1>5, <1>6 DEF IInv

LEMMA CallerInv == ASSUME IInv, Caller PROVE IInv'
<1> USE DEF Call, Pulled, JoinBatch, EndScan, stateVars, callVars, historyVars, scanned, Answer
<1>1. /\ UNCHANGED <<scanned, stateVars, callVars, historyVars>>
      /\ phase \in {"idle", "answered"} /\ phase' \in {"idle", "batch"}
  BY DEF Caller
<1>2. TypeOK'  BY <1>1 DEF IInv, TypeOK
<1> QED  BY <1>1, <1>2, QuietInv DEF Ended

LEMMA AnswerFinishedInv == ASSUME IInv, AnswerFinished PROVE IInv'
<1>1. TypeOK'
  BY DEF AnswerFinished, Answer, IInv, TypeOK, scanned, stateVars, callVars, historyVars
<1>2. AllShown  BY DEF IInv, EndsAccounted, AnswerFinished
<1> QED
  BY <1>1, <1>2, QuietInv
  DEF AnswerFinished, Answer, Ended, scanned, stateVars, callVars, historyVars

LEMMA DeclineInv == ASSUME IInv, ParallelFailed \/ SingleBatch PROVE IInv'
<1> USE DEF ParallelFailed, SingleBatch, Answer, scanned, stateVars, callVars, historyVars
<1>1. TypeOK'  BY DEF IInv, TypeOK
<1>2. ~ Ended'  BY DEF Ended
<1> QED  BY <1>1, <1>2, QuietInv

LEMMA OpenReaderInv == ASSUME IInv, OpenReader PROVE IInv'
<1> USE DEF scanned, callVars, callerVars, historyVars
<1>1. TypeOK /\ Opened \in 0..Len(text) /\ phase = "open" /\ ~ finished
      /\ (Opened = reader \/ (reader = None /\ Opened = 0))
  BY Typed DEF IInv, TypeOK, Opened, OpenReader, CallRows
<1>2. CASE phase' = "answered"
  <2>1. /\ reader' = reader \/ reader' = Opened
        /\ UNCHANGED <<scanned, callVars, torn, offset, finished, raw, lost>>
        /\ answer'.kind = "error"
    BY <1>2 DEF OpenReader, Answer
  <2>2. TypeOK'  BY <1>1, <1>2, <2>1 DEF TypeOK
  <2>3. ~ Ended'  BY <2>1 DEF Ended
  <2> QED  BY <1>1, <1>2, <2>1, <2>2, <2>3, QuietInv
<1>3. CASE phase' # "answered"
  <2>1. /\ phase' = "parse" /\ reader' = Opened /\ accumulated' = <<>> /\ lines_read' = 0
        /\ UNCHANGED <<scanned, torn, offset, finished, raw, lost>>
    BY <1>3 DEF OpenReader, Answer
  <2>2. TypeOK'  BY <1>1, <2>1 DEF TypeOK
  <2>3. /\ Pending = {} /\ Pending' = {} /\ Shown' = Shown /\ Kept' = Kept
        /\ BatchSize' = BatchSize /\ text' = text /\ opts' = opts
    BY <1>1, <2>1 DEF Pending, Shown, Kept, Accepted, BatchSize, Ids
  <2>4. Accounted'  BY <1>1, <2>1, <2>3, Typed DEF IInv, Accounted
  <2>5. CallRows'
    <3>1. reader' # None  BY <1>1, <2>1, Typed
    <3>2. Len(accumulated') = 0  BY <2>1
    <3>3. BatchSize' # None => 0 <= BatchSize'  BY <1>1, <2>3, Typed
    <3> QED  BY <1>1, <2>1, <3>1, <3>2, <3>3 DEF CallRows
  <2>6. SliceCounted'
    BY <1>1, <2>1, <2>3, Typed DEF IInv, SliceCounted
  <2>7. EndsAccounted'  BY <1>1, <2>1 DEF EndsAccounted, Ended
  <2> QED  BY <2>2, <2>4, <2>5, <2>6, <2>7 DEF IInv
<1> QED  BY <1>2, <1>3

(* The line behind which the stream stands next.                           *)
LEMMA ReadLine ==
  ASSUME IInv, Reads
  PROVE  /\ TypeOK /\ reader \in Nat /\ reader + 1 \in 1..Len(text) /\ ~ finished
         /\ phase = "parse" /\ Pending = Ids(accumulated)
         /\ text[reader + 1] \in Lines
         /\ \A l \in NextLines : /\ ~ torn => l = text[reader + 1]
                                 /\ l.keys \in SUBSET AllKeys
<1>1. /\ TypeOK /\ phase = "parse" /\ reader # None /\ reader < Len(text) /\ ~ finished
  BY DEF IInv, CallRows, Reads
<1>2. reader \in Nat /\ reader + 1 \in 1..Len(text)
  <2>1. reader \in 0..Len(text) /\ Len(text) \in Nat  BY <1>1, Typed DEF TypeOK
  <2> QED  BY <1>1, <2>1
<1>3. text[reader + 1] \in Lines  BY <1>1, <1>2 DEF TypeOK
<1> DEFINE l == text[reader + 1]
<1>4. l \in [kind : {"row", "skip", "bad"}, keys : SUBSET AllKeys,
             passes : BOOLEAN, kept : BOOLEAN]
  BY <1>3, BatchAssumption
<1> HIDE DEF l
<1>5. /\ l.keys \in SUBSET AllKeys /\ [l EXCEPT !.kind = "skip"].keys = l.keys
      /\ \A K \in SUBSET l.keys : [l EXCEPT !.keys = K].keys = K
  BY <1>4
<1>6. NextLines = IF torn THEN {[l EXCEPT !.keys = K] : K \in SUBSET l.keys}
                               \cup {[l EXCEPT !.kind = "skip"]}
                  ELSE {l}
  BY DEF NextLines, l
<1>7. ASSUME NEW m \in NextLines PROVE (~ torn => m = l) /\ m.keys \in SUBSET AllKeys
  <2>1. CASE ~ torn  BY <1>5, <1>6, <1>7, <2>1
  <2>2. CASE torn
    <3>1. CASE m = [l EXCEPT !.kind = "skip"]  BY <1>5, <2>2, <3>1
    <3>2. CASE \E K \in SUBSET l.keys : m = [l EXCEPT !.keys = K]
      <4>1. PICK K \in SUBSET l.keys : m = [l EXCEPT !.keys = K]  BY <3>2
      <4>2. m.keys = K  BY <1>5, <4>1
      <4> QED  BY <1>5, <2>2, <4>1, <4>2
    <3> QED  BY <1>6, <1>7, <2>2, <3>1, <3>2
  <2> QED  BY <2>1, <2>2
<1> QED  BY <1>1, <1>2, <1>3, <1>7 DEF Pending, l

(* A line is read, and its row goes where the step puts it.                *)
LEMMA AdvanceInv ==
  ASSUME IInv, Reads, Advance, UNCHANGED <<scanned, offset, finished, raw>>,
         lost \subseteq lost', lost' \subseteq 1..Len(text), lines_read' \in Nat,
         TypeOK', phase' \in {"parse", "answered"}, CallRows', ~ Ended',
         Shown \subseteq Shown',
         reader + 1 \in Kept => reader + 1 \in Shown'
  PROVE  IInv'
<1>1. /\ TypeOK /\ reader \in Nat /\ ~ finished /\ phase = "parse"
      /\ reader' = reader + 1 /\ torn' = FALSE /\ reader + 1 \in 1..Len(text)
  BY ReadLine DEF Advance
<1>2. /\ Kept' = Kept /\ BatchSize' = BatchSize /\ text' = text /\ opts' = opts
      /\ finished' = finished /\ raw' = raw
  BY DEF Kept, Accepted, BatchSize, scanned
<1>3. Kept \subseteq Nat  BY <1>1, Typed
<1>4. Accounted'
  <2>1. ASSUME NEW i \in Kept, i <= reader + 1 PROVE i \in Shown'
    <3>1. CASE i <= reader
      <4>1. reader # None  BY <1>1, Typed
      <4> QED  BY <3>1, <4>1 DEF IInv, Accounted
    <3>2. CASE i = reader + 1  BY <3>2
    <3> QED  BY <1>1, <1>3, <2>1, <3>1, <3>2
  <2> QED  BY <1>1, <1>2, <2>1 DEF Accounted
<1>5. SliceCounted'
  <2>0. Len(text) \in Nat  BY <1>1, Typed
  <2>1. reader # Len(text)  BY ONLY <1>1, <2>0
  <2> QED  BY <1>1, <1>2, <2>1 DEF IInv, SliceCounted
<1>6. EndsAccounted'  BY <1>1, <1>2 DEF EndsAccounted
<1> QED  BY <1>4, <1>5, <1>6 DEF IInv

(* What is left of a broken line, or a line that is no row, is no row that *)
(* is kept, or its row was given up.                                       *)
LEMMA NotKept ==
  ASSUME IInv, Reads, NEW l \in NextLines, l.kind # "row" \/ ~ l.kept
  PROVE  reader + 1 \in Kept => reader + 1 \in lost
<1>1. CASE torn  BY <1>1 DEF IInv, Accounted
<1>2. CASE ~ torn
  <2>1. l = text[reader + 1]  BY <1>2, ReadLine
  <2> QED  BY <2>1 DEF Kept, Accepted
<1> QED  BY <1>1, <1>2

LEMMA PassOverInv == ASSUME IInv, SkipLine \/ RejectRow PROVE IInv'
<1> USE DEF SkipLine, RejectRow, callVars, historyVars
<1>1. /\ Reads /\ Advance /\ UNCHANGED <<scanned, offset, finished, raw, lost, accumulated>>
      /\ phase' = phase /\ (lines_read' = lines_read \/ lines_read' = lines_read + 1)
  OBVIOUS
<1>2. PICK l \in NextLines : l.kind # "row" \/ ~ l.kept  OBVIOUS
<1>3. reader + 1 \in Kept => reader + 1 \in lost  BY <1>1, <1>2, NotKept
<1>4. /\ TypeOK /\ reader \in Nat /\ ~ finished /\ phase = "parse" /\ lines_read \in Nat
      /\ reader' = reader + 1 /\ torn' = FALSE /\ reader + 1 \in 1..Len(text)
  BY <1>1, ReadLine DEF Advance, TypeOK
<1>5. TypeOK'
  <2>1. reader' \in 0..Len(text) /\ lines_read' \in Nat
    <3>1. Len(text) \in Nat  BY <1>4, Typed
    <3> QED  BY <1>1, <1>4, <3>1
  <2> QED  BY <1>1, <1>4, <2>1 DEF TypeOK, scanned
<1>6. Shown' = Shown  BY <1>1 DEF Shown, Pending, Ids
<1>7. CallRows'
  <2>1. /\ reader # None /\ Len(accumulated) <= lines_read
        /\ \A i \in 1..Len(accumulated) : accumulated[i].id <= reader
        /\ \A i, j \in 1..Len(accumulated) : i < j => accumulated[i].id < accumulated[j].id
        /\ BatchSize # None => Len(accumulated) <= BatchSize
    BY <1>4 DEF IInv, CallRows
  <2>2. \A i \in 1..Len(accumulated) : accumulated[i].id \in Nat
    <3>1. \A i \in 1..Len(accumulated) : accumulated[i] \in Rows  BY <1>4, Typed
    <3> QED  BY <3>1 DEF Rows
  <2>3. \A i \in 1..Len(accumulated) : accumulated[i].id <= reader + 1
    BY <1>4, <2>1, <2>2
  <2>4. BatchSize' = BatchSize  BY <1>1 DEF BatchSize, scanned
  <2>5. Len(accumulated) \in Nat  BY <1>4, Typed
  <2>6. Len(accumulated) <= lines_read'  BY <1>1, <1>4, <2>1, <2>5
  <2>7. reader' # None  BY <1>4, Typed
  <2> QED  BY <1>1, <1>4, <2>1, <2>3, <2>4, <2>6, <2>7 DEF CallRows
<1>8. ~ Ended'  BY <1>1, <1>4 DEF Ended
<1> QED  BY <1>1, <1>3, <1>4, <1>5, <1>6, <1>7, <1>8, AdvanceInv DEF TypeOK, Shown

LEMMA KeepRowInv == ASSUME IInv, KeepRow PROVE IInv'
<1> USE DEF historyVars
<1>1. PICK l \in NextLines :
        /\ l.kind = "row" /\ l.kept
        /\ accumulated' = Append(accumulated, [id |-> reader + 1, keys |-> Pruned(l.keys)])
  BY DEF KeepRow
<1>2. /\ Reads /\ Advance /\ UNCHANGED <<scanned, offset, finished, raw, lost>>
      /\ phase' = phase /\ lines_read' = lines_read + 1
  BY DEF KeepRow
<1>3. /\ TypeOK /\ reader \in Nat /\ ~ finished /\ phase = "parse" /\ lines_read \in Nat
      /\ reader' = reader + 1 /\ torn' = FALSE /\ reader + 1 \in 1..Len(text)
      /\ accumulated \in Seq(Rows) /\ Len(accumulated) \in Nat
      /\ Pending = Ids(accumulated) /\ l.keys \in SUBSET AllKeys
  BY <1>2, ReadLine, Typed DEF Advance, TypeOK
<1> DEFINE r == [id |-> reader + 1, keys |-> Pruned(l.keys)]
<1>4. r \in Rows /\ r.id = reader + 1  BY <1>3 DEF Rows, Pruned
<1>5. accumulated' = Append(accumulated, r)  BY <1>1
<1> HIDE DEF r
<1>6. accumulated' \in Seq(Rows) /\ Ids(accumulated') = Ids(accumulated) \cup {reader + 1}
  BY <1>3, <1>4, <1>5, IdsAppended
<1>7. TypeOK'
  <2>1. reader' \in 0..Len(text) /\ lines_read' \in Nat
    <3>1. Len(text) \in Nat  BY <1>3, Typed
    <3> QED  BY <1>2, <1>3, <3>1
  <2> QED  BY <1>2, <1>3, <1>6, <2>1 DEF TypeOK, scanned, Rows
<1>8. Pending' = Ids(accumulated')  BY <1>2, <1>3 DEF Pending, Ids
<1>9. Shown \subseteq Shown' /\ reader + 1 \in Shown'
  BY <1>2, <1>3, <1>6, <1>8 DEF Shown
<1>10. CallRows'
  <2>1. /\ Len(accumulated) <= lines_read
        /\ \A i \in 1..Len(accumulated) : accumulated[i].id <= reader
        /\ \A i, j \in 1..Len(accumulated) : i < j => accumulated[i].id < accumulated[j].id
    BY <1>3 DEF IInv, CallRows
  <2>2. \A i \in 1..Len(accumulated) : accumulated[i].id \in Nat
    <3>1. \A i \in 1..Len(accumulated) : accumulated[i] \in Rows  BY <1>3
    <3> QED  BY <3>1 DEF Rows
  <2>3. /\ Len(accumulated') = Len(accumulated) + 1
        /\ \A i \in 1..Len(accumulated) : accumulated'[i] = accumulated[i]
        /\ accumulated'[Len(accumulated) + 1].id = reader + 1
    BY <1>3, <1>4, <1>5
  <2>4. \A i \in 1..Len(accumulated') : i \in 1..Len(accumulated) \/ i = Len(accumulated) + 1
    BY <1>3, <2>3
  <2>5. \A i \in 1..Len(accumulated') : accumulated'[i].id <= reader + 1
    BY <1>3, <2>1, <2>2, <2>3, <2>4
  <2>6. \A i, j \in 1..Len(accumulated') : i < j => accumulated'[i].id < accumulated'[j].id
    <3> SUFFICES ASSUME NEW i \in 1..Len(accumulated'), NEW j \in 1..Len(accumulated'), i < j
                 PROVE  accumulated'[i].id < accumulated'[j].id
      OBVIOUS
    <3>1. i \in 1..Len(accumulated)  BY <1>3, <2>3, <2>4
    <3>2. CASE j \in 1..Len(accumulated)  BY <2>1, <2>3, <3>1, <3>2
    <3>3. CASE j = Len(accumulated) + 1
      <4>1. accumulated[i].id <= reader /\ accumulated[i].id \in Nat  BY <2>1, <2>2, <3>1
      <4> QED  BY <1>3, <2>3, <3>1, <3>3, <4>1
    <3> QED  BY <2>4, <3>2, <3>3
  <2>7. BatchSize' = BatchSize  BY <1>2 DEF BatchSize, scanned
  <2>8. BatchSize # None => Len(accumulated') <= BatchSize
    <3>1. BatchSize # None => BatchSize \in Nat  BY <1>3, Typed
    <3>2. BatchSize # None => ~ (Len(accumulated) >= BatchSize)  BY <1>2 DEF Reads, BatchFull
    <3> QED  BY <1>3, <2>3, <3>1, <3>2
  <2>9. Len(accumulated') <= lines_read'  BY <1>2, <1>3, <2>1, <2>3
  <2>10. reader' # None  BY <1>3, Typed
  <2> QED  BY <1>2, <1>3, <2>5, <2>6, <2>7, <2>8, <2>9, <2>10 DEF CallRows
<1>11. ~ Ended'  BY <1>2, <1>3 DEF Ended
<1>12. lost \subseteq lost' /\ lost' \subseteq 1..Len(text) /\ lines_read' \in Nat
  BY <1>2, <1>3 DEF TypeOK
<1> QED  BY <1>2, <1>3, <1>7, <1>9, <1>10, <1>11, <1>12, AdvanceInv

(* The rows of a call that fails are among the lines it lost.              *)
LEMMA AbandonKeeps ==
  ASSUME IInv, phase \in {"parse", "flush"}, NEW D \in SUBSET (1..Len(text)), Abandon(D)
  PROVE  /\ lost \subseteq lost' /\ lost' \subseteq 1..Len(text) /\ D \subseteq lost'
         /\ phase' = "answered" /\ CallRows' /\ ~ Ended'
         /\ Shown \subseteq Shown'
         /\ UNCHANGED <<scanned, offset, finished, raw, accumulated, lines_read>>
<1>1. TypeOK /\ accumulated \in Seq(Rows)  BY Typed DEF IInv
<1>2. /\ phase' = "answered" /\ answer'.kind = "error"
      /\ lost' = lost \cup Ids(accumulated) \cup D
      /\ UNCHANGED <<scanned, offset, finished, raw, accumulated, lines_read>>
  BY DEF Abandon, Answer, callVars
<1>3. Ids(accumulated) \subseteq 1..Len(text)  BY <1>1, IdsTyped
<1> QED  BY <1>1, <1>2, <1>3 DEF Shown, Pending, CallRows, Ended, TypeOK

LEMMA BadLineInv == ASSUME IInv, BadLine PROVE IInv'
<1>1. Reads /\ Advance /\ Abandon({})  BY DEF BadLine
<1>2. PICK l \in NextLines : l.kind = "bad"  BY DEF BadLine
<1>3. /\ TypeOK /\ reader \in Nat /\ phase = "parse" /\ lines_read \in Nat
      /\ reader' = reader + 1 /\ torn' = FALSE /\ reader + 1 \in 1..Len(text)
  BY <1>1, ReadLine DEF Advance, TypeOK
<1>4. /\ lost \subseteq lost' /\ lost' \subseteq 1..Len(text)
      /\ phase' = "answered" /\ CallRows' /\ ~ Ended' /\ Shown \subseteq Shown'
      /\ UNCHANGED <<scanned, offset, finished, raw, accumulated, lines_read>>
  BY <1>1, <1>3, AbandonKeeps
<1>5. TypeOK'
  <2>1. reader' \in 0..Len(text)
    <3>1. Len(text) \in Nat  BY <1>3, Typed
    <3> QED  BY <1>3, <3>1
  <2> QED  BY <1>3, <1>4, <2>1 DEF TypeOK, scanned
<1>6. reader + 1 \in Kept => reader + 1 \in Shown'
  <2>1. reader + 1 \in Kept => reader + 1 \in lost  BY <1>1, <1>2, NotKept
  <2> QED  BY <1>4, <2>1 DEF Shown
<1>7. lines_read' \in Nat  BY <1>3, <1>4
<1> QED  BY <1>1, <1>4, <1>5, <1>6, <1>7, AdvanceInv

(* A read that fails moves no stream on; it may break the next line.       *)
LEMMA ReadFailsInv == ASSUME IInv, ReadFails PROVE IInv'
<1>1. Reads /\ reader' = reader  BY DEF ReadFails
<1>2. PICK D \in {{}, {reader + 1}} :
        Abandon(D) /\ (torn' = torn \/ (D = {reader + 1} /\ torn' = TRUE))
  BY DEF ReadFails
<1>3. /\ TypeOK /\ reader \in Nat /\ phase = "parse" /\ ~ finished
      /\ reader + 1 \in 1..Len(text) /\ reader # None
  BY <1>1, ReadLine, Typed
<1>4. /\ lost \subseteq lost' /\ lost' \subseteq 1..Len(text) /\ D \subseteq lost'
      /\ phase' = "answered" /\ CallRows' /\ ~ Ended' /\ Shown \subseteq Shown'
      /\ UNCHANGED <<scanned, offset, finished, raw, accumulated, lines_read>>
  BY <1>2, <1>3, AbandonKeeps
<1>5. TypeOK'  BY <1>1, <1>2, <1>3, <1>4 DEF TypeOK, scanned
<1>6. /\ Kept' = Kept /\ BatchSize' = BatchSize /\ text' = text /\ opts' = opts
  BY <1>4 DEF Kept, Accepted, BatchSize, scanned
<1>7. Accounted'  BY <1>1, <1>2, <1>3, <1>4, <1>6 DEF IInv, Accounted
<1>8. SliceCounted'
  BY <1>1, <1>3, <1>4, <1>6 DEF IInv, SliceCounted
<1>9. EndsAccounted'  BY <1>3, <1>4 DEF EndsAccounted
<1> QED  BY <1>4, <1>5, <1>7, <1>8, <1>9 DEF IInv

LEMMA AnswerNoneInv == ASSUME IInv, AnswerNone PROVE IInv'
<1>1. /\ phase = "parse" /\ phase' = "answered" /\ reader = Len(text) /\ accumulated = <<>>
      /\ finished' = TRUE /\ offset' = offset + lines_read
      /\ UNCHANGED <<scanned, reader, torn, accumulated, lines_read, raw, lost>>
  BY DEF AnswerNone, Answer, callVars, historyVars
<1>2. TypeOK  BY DEF IInv
<1>3. TypeOK'  BY <1>1, <1>2 DEF TypeOK, scanned
<1>4. /\ Kept' = Kept /\ BatchSize' = BatchSize /\ text' = text /\ opts' = opts
  BY <1>1 DEF Kept, Accepted, BatchSize, scanned
<1>5. Pending = {} /\ Pending' = {} /\ Shown' = Shown
  BY <1>1, <1>2, Typed, IdsTyped DEF Shown, Pending
<1>6. Accounted'  BY <1>1, <1>4, <1>5 DEF IInv, Accounted
<1>7. CallRows'  BY <1>1 DEF CallRows
<1>8. SliceCounted'  BY <1>1, <1>4 DEF IInv, SliceCounted
<1>9. Kept \subseteq Shown
  <2> SUFFICES ASSUME NEW i \in Kept PROVE i \in Shown  OBVIOUS
  <2>1. i <= reader /\ reader # None  BY <1>1, <1>2, Typed
  <2> QED  BY <2>1 DEF IInv, Accounted
<1>10. EndsAccounted'  BY <1>4, <1>5, <1>9 DEF EndsAccounted, AllShown
<1> QED  BY <1>3, <1>6, <1>7, <1>8, <1>10 DEF IInv

LEMMA EndBatchInv == ASSUME IInv, EndBatch PROVE IInv'
<1>1. /\ phase = "parse" /\ phase' = "flush" /\ BatchEnds /\ finished' = (finished \/ SliceRead)
      /\ UNCHANGED <<scanned, reader, torn, offset, accumulated, lines_read, raw, lost>>
  BY DEF EndBatch, callVars, historyVars
<1>2. TypeOK /\ ~ finished  BY <1>1 DEF IInv, CallRows
<1>3. TypeOK'  BY <1>1, <1>2 DEF TypeOK, scanned
<1>4. /\ Kept' = Kept /\ BatchSize' = BatchSize /\ text' = text /\ opts' = opts
      /\ Pending = Ids(accumulated) /\ Pending' = Pending /\ Shown' = Shown
  BY <1>1 DEF Kept, Accepted, BatchSize, scanned, Pending, Shown, Ids
<1>5. Accounted'  BY <1>1, <1>4 DEF IInv, Accounted
<1>6. CallRows'
  <2>1. BatchEnds' = BatchEnds /\ SliceRead' = SliceRead
    BY <1>1, <1>4 DEF BatchEnds, BatchFull, SliceRead
  <2> QED  BY <1>1, <1>4, <2>1 DEF IInv, CallRows
<1>7. SliceCounted'
  <2> SUFFICES ASSUME opts.n_rows # None
               PROVE  Cardinality(raw) <= opts.n_rows /\ raw = {}
    BY <1>1, <1>4 DEF SliceCounted
  <2>1. Cardinality(raw) <= opts.n_rows  BY DEF IInv, SliceCounted
  <2>2. ASSUME raw # {} PROVE FALSE
    <3>1. accumulated = <<>> /\ Cardinality(raw) < opts.n_rows
      BY <1>1, <1>2, <2>2 DEF IInv, SliceCounted
    <3>2. Len(accumulated) >= opts.n_rows  BY <1>1, <3>1 DEF BatchEnds, BatchFull, BatchSize
    <3>3. Cardinality(raw) \in Nat /\ opts.n_rows \in Nat
      BY <1>2, LinesCounted DEF TypeOK
    <3>4. Len(accumulated) = 0  BY <3>1
    <3> QED  BY <3>1, <3>2, <3>3, <3>4
  <2> QED  BY <2>1, <2>2
<1>8. EndsAccounted'
  <2> SUFFICES ASSUME SliceRead PROVE AllShown'
    BY <1>1, <1>2 DEF EndsAccounted, Ended
  <2>1. opts.n_rows # None /\ Len(accumulated) >= opts.n_rows  BY DEF SliceRead
  <2>2. Cardinality(Pending) = Len(accumulated)
    <3>1. accumulated \in Seq(Rows)  BY <1>2, Typed
    <3>2. \A i, j \in 1..Len(accumulated) : i < j => accumulated[i].id < accumulated[j].id
      BY <1>1 DEF IInv, CallRows
    <3> QED  BY <1>4, <3>1, <3>2, IdsCounted
  <2>3. Pending \subseteq Shown /\ Shown \subseteq 1..Len(text)  BY <1>2, Typed DEF Shown
  <2>4. /\ Cardinality(Pending) \in Nat /\ Cardinality(Shown) \in Nat
        /\ Cardinality(Pending) <= Cardinality(Shown)
    BY <1>2, <2>3, LinesCounted
  <2>5. opts.n_rows \in Nat  BY <1>2, <2>1 DEF TypeOK
  <2>6. Cardinality(Shown) >= opts.n_rows  BY <2>1, <2>2, <2>4, <2>5
  <2> QED  BY <1>4, <2>1, <2>6 DEF AllShown
<1> QED  BY <1>3, <1>5, <1>6, <1>7, <1>8 DEF IInv

(* A batch without a row that ends with neither lines nor a full slice was *)
(* empty by request.                                                       *)
LEMMA EmptyBatch ==
  ASSUME IInv, phase = "flush", accumulated = <<>> \/ lines_read = 0
  PROVE  accumulated = <<>> /\ BatchSize = 0
<1>1. TypeOK /\ BatchEnds /\ Len(accumulated) <= lines_read
  BY DEF IInv, CallRows
<1>2. Len(accumulated) = 0
  <2>1. Len(accumulated) \in Nat  BY <1>1, Typed
  <2>2. accumulated = <<>> => Len(accumulated) = 0  OBVIOUS
  <2> QED  BY <1>1, <2>1, <2>2
<1>3. accumulated = <<>>
  <2>1. accumulated \in Seq(Rows)  BY <1>1, Typed
  <2> QED  BY <1>2, <2>1
<1>4. BatchSize # None /\ 0 >= BatchSize  BY <1>1, <1>2, <1>3 DEF BatchEnds, BatchFull
<1> QED  BY <1>1, <1>3, <1>4, Typed

(* The rows of a batch leave the call.                                     *)
LEMMA FlushInv ==
  ASSUME IInv, phase = "flush", phase' = "answered", TypeOK',
         UNCHANGED <<scanned, reader, torn>>,
         Shown \subseteq Shown', lost \subseteq lost', finished => finished', SliceCounted',
         finished' \/ Ended' => finished \/ accumulated = <<>> \/ lines_read = 0
  PROVE  IInv'
<1>1. TypeOK  BY DEF IInv
<1>2. /\ Kept' = Kept /\ BatchSize' = BatchSize /\ text' = text /\ opts' = opts
  BY DEF Kept, Accepted, BatchSize, scanned
<1>3. Accounted'  BY <1>2 DEF IInv, Accounted
<1>4. CallRows'  BY DEF CallRows
<1>5. EndsAccounted'
  <2>1. CASE finished
    <3>1. AllShown  BY <2>1 DEF IInv, EndsAccounted
    <3> QED  BY <1>1, <3>1, AllShownStays DEF EndsAccounted
  <2>2. CASE accumulated = <<>> \/ lines_read = 0
    <3>1. BatchSize = 0  BY <2>2, EmptyBatch
    <3> QED  BY <1>2, <3>1 DEF EndsAccounted, AllShown
  <2> QED  BY <2>1, <2>2 DEF EndsAccounted
<1> QED  BY <1>3, <1>4, <1>5 DEF IInv

LEMMA AnswerNoSchemaInv == ASSUME IInv, AnswerNoSchema PROVE IInv'
<1>1. /\ phase = "flush" /\ phase' = "answered" /\ accumulated = <<>>
      /\ finished' = FinishedAfter /\ offset' = offset + lines_read
      /\ UNCHANGED <<scanned, reader, torn, accumulated, lines_read, raw, lost>>
  BY DEF AnswerNoSchema, NoSchema, Answer, callVars, historyVars
<1>2. TypeOK /\ finished' \in BOOLEAN /\ (finished => finished')
  BY <1>1 DEF IInv, FinishedAfter, TypeOK
<1>3. TypeOK'  BY <1>1, <1>2 DEF TypeOK, scanned
<1>4. Shown = Shown'
  BY <1>1, <1>2, Typed, IdsTyped DEF Shown, Pending
<1>5. SliceCounted'
  <2>1. opts' = opts  BY <1>1 DEF scanned
  <2> QED  BY <1>1, <2>1 DEF IInv, SliceCounted
<1> QED  BY <1>1, <1>2, <1>3, <1>4, <1>5, FlushInv

LEMMA AnswerBatchInv == ASSUME IInv, AnswerBatch PROVE IInv'
<1>1. /\ phase = "flush" /\ phase' = "answered"
      /\ finished' = FinishedAfter /\ offset' = offset + lines_read
      /\ raw' = raw \cup Ids(accumulated) /\ answer'.kind = "frame"
      /\ UNCHANGED <<scanned, reader, torn, accumulated, lines_read, lost>>
  BY DEF AnswerBatch, Answer, callVars
<1>2. /\ TypeOK /\ finished' \in BOOLEAN /\ (finished => finished')
      /\ (finished' => finished \/ lines_read = 0)
      /\ accumulated \in Seq(Rows) /\ Ids(accumulated) \subseteq 1..Len(text)
  BY <1>1, Typed, IdsTyped DEF IInv, FinishedAfter, TypeOK
<1>3. TypeOK'
  <2>1. raw' \subseteq 1..Len(text)  BY <1>1, <1>2 DEF TypeOK
  <2>2. offset' \in Nat
    <3>1. offset \in Nat /\ lines_read \in Nat  BY <1>2 DEF TypeOK
    <3> QED  BY <1>1, <3>1
  <2> QED  BY <1>1, <1>2, <2>1, <2>2 DEF TypeOK, scanned
<1>4. Shown = Shown'  BY <1>1 DEF Shown, Pending
<1>5. ~ Ended'  BY <1>1 DEF Ended
<1>6. SliceCounted'
  <2> SUFFICES ASSUME opts.n_rows # None
               PROVE  /\ Cardinality(raw') <= opts.n_rows
                      /\ finished' \/ (reader' = Len(text) /\ Cardinality(raw') < opts.n_rows)
    BY <1>1 DEF SliceCounted, scanned
  <2>1. opts.n_rows \in Nat /\ BatchSize = opts.n_rows  BY <1>2 DEF TypeOK, BatchSize
  <2>2. raw = {}  BY <1>1 DEF IInv, SliceCounted
  <2>3. /\ Len(accumulated) <= BatchSize /\ BatchEnds /\ (SliceRead => finished)
        /\ \A i, j \in 1..Len(accumulated) : i < j => accumulated[i].id < accumulated[j].id
    BY <1>1, <2>1, Typed DEF IInv, CallRows
  <2>4. Cardinality(raw') = Len(accumulated)  BY <1>1, <1>2, <2>2, <2>3, IdsCounted
  <2>5. Len(accumulated) \in Nat  BY <1>2
  <2>6. CASE Len(accumulated) >= opts.n_rows
    <3>1. finished  BY <2>3, <2>6 DEF SliceRead
    <3> QED  BY <1>2, <2>1, <2>3, <2>4, <3>1
  <2>7. CASE ~ (Len(accumulated) >= opts.n_rows)
    <3>1. ~ BatchFull  BY <2>1, <2>7 DEF BatchFull
    <3>2. reader = Len(text)  BY <2>3, <3>1 DEF BatchEnds
    <3> QED  BY <1>1, <2>1, <2>4, <2>5, <2>7, <3>2
  <2> QED  BY <2>6, <2>7
<1> QED  BY <1>1, <1>2, <1>3, <1>4, <1>5, <1>6, FlushInv

LEMMA AnswerFlushErrorInv == ASSUME IInv, AnswerFlushError PROVE IInv'
<1>1. phase = "flush" /\ Abandon({}) /\ UNCHANGED <<reader, torn>>
  BY DEF AnswerFlushError
<1>2. /\ lost \subseteq lost' /\ lost' \subseteq 1..Len(text)
      /\ phase' = "answered" /\ ~ Ended' /\ Shown \subseteq Shown'
      /\ UNCHANGED <<scanned, offset, finished, raw, accumulated, lines_read>>
  BY <1>1, AbandonKeeps
<1>3. TypeOK  BY DEF IInv
<1>4. TypeOK'  BY <1>1, <1>2, <1>3 DEF TypeOK, scanned
<1>5. SliceCounted'
  <2>1. opts' = opts  BY <1>2 DEF scanned
  <2> QED  BY <1>1, <1>2, <2>1 DEF IInv, SliceCounted
<1> QED  BY <1>1, <1>2, <1>4, <1>5, FlushInv

LEMMA ParallelFrameInv == ASSUME IInv, ParallelFrameAnswered PROVE IInv'
<1>1. PICK T \in Claims \ {{}} : raw' = raw \cup T
  BY DEF ParallelFrameAnswered
<1>2. /\ phase = "batch" /\ phase' = "answered" /\ ~ finished /\ reader = None
      /\ finished' = TRUE
      /\ UNCHANGED <<scanned, reader, torn, offset, accumulated, lines_read, lost>>
  BY DEF ParallelFrameAnswered, TriesParallel, Answer, callVars
<1>3. TypeOK  BY DEF IInv
<1>4. T \subseteq Accepted /\ Accepted \subseteq 1..Len(text) /\ Kept \subseteq Accepted
  BY <1>3, Typed DEF Claims
<1>5. /\ Kept' = Kept /\ BatchSize' = BatchSize /\ text' = text /\ opts' = opts
  BY <1>2 DEF Kept, Accepted, BatchSize, scanned
<1>6. TypeOK'  BY <1>1, <1>2, <1>3, <1>4 DEF TypeOK, scanned
<1>7. Shown' = Shown \cup T  BY <1>1, <1>2 DEF Shown, Pending
<1>8. Accounted'  BY <1>2 DEF IInv, Accounted
<1>9. CallRows'  BY <1>2 DEF CallRows
<1>10. CASE opts.n_rows = None
  <2>1. T = Accepted  BY <1>10 DEF Claims
  <2>2. SliceCounted'  BY <1>5, <1>10 DEF SliceCounted
  <2>3. AllShown'  BY <1>4, <1>5, <1>7, <2>1 DEF AllShown
  <2> QED  BY <1>6, <1>8, <1>9, <2>2, <2>3 DEF IInv, EndsAccounted
<1>11. CASE opts.n_rows # None
  <2>1. opts.n_rows \in Nat  BY <1>3, <1>11 DEF TypeOK
  <2>2. raw = {} /\ raw' = T
    <3>1. reader # Len(text)  BY <1>2, <1>3, Typed
    <3> QED  BY <1>1, <1>2, <1>11, <3>1 DEF IInv, SliceCounted
  <2>3. /\ Cardinality(T) \in Nat /\ Cardinality(T) <= Cardinality(Accepted)
        /\ Cardinality(Accepted) \in Nat
    BY <1>3, <1>4, LinesCounted
  <2>4. \/ opts.n_rows >= Cardinality(Accepted) /\ T = Accepted
        \/ Cardinality(T) = opts.n_rows
    BY <1>11 DEF Claims
  <2>5. Cardinality(T) <= opts.n_rows  BY <2>1, <2>3, <2>4
  <2>6. SliceCounted'  BY <1>2, <1>5, <2>2, <2>5 DEF SliceCounted
  <2>7. AllShown'
    <3>1. CASE T = Accepted  BY <1>4, <1>5, <1>7, <3>1 DEF AllShown
    <3>2. CASE Cardinality(T) = opts.n_rows
      <4>1. Shown' \subseteq 1..Len(text)  BY <1>3, <1>4, <1>7, Typed
      <4>2. Cardinality(T) <= Cardinality(Shown') /\ Cardinality(Shown') \in Nat
        BY <1>3, <1>7, <4>1, LinesCounted
      <4>3. Cardinality(Shown') >= opts.n_rows  BY <2>1, <2>3, <3>2, <4>2
      <4> QED  BY <1>5, <1>11, <4>3 DEF AllShown
    <3> QED  BY <2>4, <3>1, <3>2
  <2> QED  BY <1>6, <1>8, <1>9, <2>6, <2>7 DEF IInv, EndsAccounted
<1> QED  BY <1>10, <1>11

LEMMA StutterInv == ASSUME IInv, UNCHANGED vars PROVE IInv'
<1> USE DEF vars, scanned, stateVars, callVars, historyVars
<1>1. /\ Kept' = Kept /\ BatchSize' = BatchSize /\ Pending' = Pending /\ Shown' = Shown
      /\ BatchEnds' = BatchEnds /\ SliceRead' = SliceRead /\ Ended' = Ended
  BY DEF Kept, Accepted, BatchSize, Pending, Shown, Ids, BatchEnds, BatchFull, SliceRead, Ended
<1>2. TypeOK' /\ Accounted'  BY <1>1 DEF IInv, TypeOK, Accounted
<1>3. CallRows' /\ SliceCounted' /\ EndsAccounted'
  BY <1>1 DEF IInv, CallRows, SliceCounted, EndsAccounted, AllShown
<1> QED  BY <1>2, <1>3 DEF IInv

LEMMA NextInv == ASSUME IInv, [Next]_vars PROVE IInv'
<1>1. CASE Caller  BY <1>1, CallerInv
<1>2. CASE Batch
  BY <1>2, AnswerFinishedInv, ParallelFrameInv, DeclineInv, OpenReaderInv, PassOverInv,
     KeepRowInv, BadLineInv, ReadFailsInv, AnswerNoneInv, EndBatchInv, AnswerNoSchemaInv,
     AnswerBatchInv, AnswerFlushErrorInv
  DEF Batch
<1>3. CASE UNCHANGED vars  BY <1>3, StutterInv
<1> QED  BY <1>1, <1>2, <1>3 DEF Next

(* The invariant holds throughout, for every text and every sequence of    *)
(* calls.                                                                  *)
THEOREM Inductive == Spec => []IInv
BY InitInv, NextInv, PTL DEF Spec

(* The state of the reader is what the program takes it for.               *)
THEOREM TypeCorrect == Spec => []TypeOK
<1>1. IInv => TypeOK  BY DEF IInv
<1> QED  BY <1>1, Inductive, PTL

(* However the calls fall, no more rows than the slice has are behind the  *)
(* frames, and when it is read the reader is finished.                     *)
THEOREM SliceIsFinal == Spec => []SliceFinishes
<1>1. ASSUME IInv PROVE SliceFinishes
  <2> SUFFICES ASSUME opts.n_rows # None
               PROVE  /\ Cardinality(raw) <= opts.n_rows
                      /\ raw # {} /\ Cardinality(raw) = opts.n_rows => finished
    BY DEF SliceFinishes
  <2>1. opts.n_rows \in Nat /\ TypeOK  BY <1>1 DEF IInv, TypeOK
  <2>2. Cardinality(raw) \in Nat  BY <2>1, LinesCounted DEF TypeOK
  <2> QED  BY <1>1, <2>1, <2>2 DEF IInv, SliceCounted
<1> QED  BY <1>1, Inductive, PTL

(* When a call says there is no more, every line that the filters let      *)
(* through was handed out or reported lost, over failures and retries.     *)
THEOREM LinesAccountedFor == Spec => []AllAccountedFor
<1>1. ASSUME IInv PROVE AllAccountedFor
  <2> SUFFICES ASSUME Ended
               PROVE \/ Kept \subseteq raw \cup lost
                     \/ BatchSize = 0
                     \/ opts.n_rows # None /\ Cardinality(raw \cup lost) >= opts.n_rows
    BY DEF AllAccountedFor
  <2>1. AllShown  BY <1>1 DEF IInv, EndsAccounted
  <2>2. Shown = raw \cup lost  BY DEF Ended, Shown, Pending
  <2> QED  BY <2>1, <2>2 DEF AllShown
<1> QED  BY <1>1, Inductive, PTL

(* No call opens the stream again or moves it back, and a reader that is   *)
(* finished stays so, whatever fails.                                      *)
THEOREM StreamNeverRewinds == Spec => NeverRewinds
<1> DEFINE A == /\ reader # None => reader' # None /\ reader' >= reader
                /\ finished => finished'
<1>1. ASSUME IInv, [Next]_vars PROVE A
  <2>1. TypeOK /\ (reader # None => reader \in Nat)
    <3>1. TypeOK  BY <1>1 DEF IInv
    <3>2. Len(text) \in Nat  BY <3>1, Typed
    <3> QED  BY <3>1, <3>2 DEF TypeOK
  <2>2. CASE UNCHANGED <<reader, finished>>  BY <2>1, <2>2
  <2>3. CASE SkipLine \/ RejectRow \/ KeepRow \/ BadLine
    <3>1. Reads /\ reader' = reader + 1 /\ finished' = finished
      BY <2>3 DEF SkipLine, RejectRow, KeepRow, BadLine, Advance, Abandon
    <3>2. reader \in Nat /\ reader' \in Nat  BY <1>1, <3>1, ReadLine
    <3>3. reader' # None  BY <2>1, <3>2, Typed
    <3> QED  BY <3>1, <3>2, <3>3
  <2>4. CASE OpenReader
    <3>1. finished' = finished /\ reader' \in {reader, Opened}  BY <2>4 DEF OpenReader
    <3> QED  BY <2>1, <3>1 DEF Opened
  <2>5. CASE reader' = reader /\ (finished => finished')  BY <2>1, <2>5
  <2>6. CASE Caller
    BY <2>2, <2>6 DEF Caller, Call, Pulled, JoinBatch, EndScan, stateVars
  <2>7. CASE AnswerFinished \/ ParallelFailed \/ SingleBatch \/ ReadFails \/ AnswerFlushError
    BY <2>2, <2>7
    DEF AnswerFinished, ParallelFailed, SingleBatch, ReadFails, AnswerFlushError, Abandon,
        stateVars
  <2>8. CASE ParallelFrameAnswered \/ AnswerNone \/ EndBatch \/ AnswerNoSchema \/ AnswerBatch
    BY <2>5, <2>8
    DEF ParallelFrameAnswered, AnswerNone, EndBatch, AnswerNoSchema, AnswerBatch, FinishedAfter
  <2>9. CASE UNCHANGED vars  BY <2>2, <2>9 DEF vars, stateVars
  <2> QED  BY <1>1, <2>3, <2>4, <2>6, <2>7, <2>8, <2>9 DEF Next, Batch
<1>2. ASSUME IInv, [Next]_vars PROVE [A]_vars  BY <1>1, <1>2
<1> QED  BY <1>2, Inductive, PTL DEF Spec, NeverRewinds

-----------------------------------------------------------------------------
(* What has been handed out lies behind the stream; rows of a parallel     *)
(* scan are the only ones without a stream, and then nothing follows.      *)
GivenBehind ==
  /\ given \in Seq(Rows) /\ Ascending(given) /\ Ids(given) \subseteq raw
  /\ reader = None /\ ~ finished => raw = {}
  /\ reader = None /\ finished => opts.parallel /\ raw \in Claims
  /\ reader # None => \A i \in raw \cup Pending : i \in Kept /\ i <= reader
  /\ \A i \in raw, j \in Pending : i < j

(* A step that hands out no row and reads none that is kept.               *)
LEMMA GivenStays ==
  ASSUME IInv, GivenBehind, TypeOK', UNCHANGED <<scanned, given, raw>>, Pending' \subseteq Pending,
         \/ reader = None /\ reader' = None /\ finished' = finished
         \/ reader = None /\ ~ finished /\ reader' \in Nat
         \/ reader \in Nat /\ reader' \in Nat /\ reader <= reader'
  PROVE  GivenBehind'
<1>1. /\ Kept' = Kept /\ Claims' = Claims /\ opts' = opts /\ text' = text
      /\ Rows' = Rows /\ Ids(given)' = Ids(given) /\ Ascending(given)' = Ascending(given)
  BY DEF scanned, Kept, Accepted, Claims, Rows, Ids, Ascending
<1>2. TypeOK /\ None \notin Nat /\ (reader = None => Pending = {}) /\ Kept \subseteq Nat
  <2>1. TypeOK /\ (reader = None => phase \notin {"parse", "flush"})  BY DEF IInv, CallRows
  <2>2. reader = None => Pending = {}  BY <2>1 DEF Pending
  <2> QED  BY <2>1, <2>2, Typed
<1>3. (given \in Seq(Rows) /\ Ascending(given) /\ Ids(given) \subseteq raw)'
  BY <1>1 DEF GivenBehind
<1>4. (reader = None /\ ~ finished => raw = {})'  BY <1>2 DEF GivenBehind
<1>5. (reader = None /\ finished => opts.parallel /\ raw \in Claims)'
  BY <1>1, <1>2 DEF GivenBehind
<1>6. (reader # None => \A i \in raw \cup Pending : i \in Kept /\ i <= reader)'
  <2> SUFFICES ASSUME reader' # None, NEW i \in raw \cup Pending
               PROVE  i \in Kept /\ i <= reader'
    BY <1>1
  <2>1. CASE reader \in Nat /\ reader' \in Nat /\ reader <= reader'
    <3>1. i \in Kept /\ i <= reader  BY <1>2, <2>1 DEF GivenBehind
    <3>2. i \in Nat  BY <1>2, <3>1
    <3> QED  BY <2>1, <3>1, <3>2
  <2>2. CASE reader = None /\ ~ finished  BY <1>2, <2>2 DEF GivenBehind
  <2> QED  BY <2>1, <2>2
<1>7. (\A i \in raw, j \in Pending : i < j)'  BY DEF GivenBehind
<1> QED  BY <1>3, <1>4, <1>5, <1>6, <1>7 DEF GivenBehind

LEMMA KeepRowGiven == ASSUME IInv, IInv', GivenBehind, KeepRow PROVE GivenBehind'
<1>1. PICK l \in NextLines :
        /\ l.kind = "row" /\ l.kept
        /\ accumulated' = Append(accumulated, [id |-> reader + 1, keys |-> Pruned(l.keys)])
  BY DEF KeepRow
<1>2. /\ Reads /\ Advance /\ UNCHANGED <<scanned, finished, raw, given>> /\ phase' = phase
  BY DEF KeepRow, historyVars
<1>3. /\ TypeOK /\ reader \in Nat /\ phase = "parse" /\ reader' = reader + 1
      /\ reader + 1 \in 1..Len(text) /\ accumulated \in Seq(Rows)
      /\ Pending = Ids(accumulated) /\ l.keys \in SUBSET AllKeys /\ DOMAIN text = 1..Len(text)
      /\ text[reader + 1] \in Lines /\ None \notin Nat /\ Kept \subseteq Nat
  BY <1>2, ReadLine, Typed DEF Advance
<1>4. reader + 1 \in Kept
  <2> DEFINE t == text[reader + 1]
  <2>1. l.kind = t.kind /\ l.kept = t.kept
    <3>1. t \in [kind : {"row", "skip", "bad"}, keys : SUBSET AllKeys,
                 passes : BOOLEAN, kept : BOOLEAN]
      BY <1>3, BatchAssumption
    <3> HIDE DEF t
    <3>2. /\ [t EXCEPT !.kind = "skip"].kind = "skip"
          /\ \A K \in SUBSET t.keys : /\ [t EXCEPT !.keys = K].kind = t.kind
                                      /\ [t EXCEPT !.keys = K].kept = t.kept
      BY <3>1
    <3>3. l = t \/ l = [t EXCEPT !.kind = "skip"] \/ \E K \in SUBSET t.keys : l = [t EXCEPT !.keys = K]
      BY DEF NextLines, t
    <3> QED  BY <1>1, <3>2, <3>3
  <2> QED  BY <1>1, <1>3, <2>1 DEF Kept, Accepted
<1> DEFINE r == [id |-> reader + 1, keys |-> Pruned(l.keys)]
<1>5. r \in Rows /\ r.id = reader + 1 /\ accumulated' = Append(accumulated, r)
  BY <1>1, <1>3 DEF Rows, Pruned
<1> HIDE DEF r
<1>6. Ids(accumulated') = Ids(accumulated) \cup {reader + 1}  BY <1>3, <1>5, IdsAppended
<1>7. Pending' = Pending \cup {reader + 1}  BY <1>2, <1>3, <1>6 DEF Pending, Ids
<1>8. /\ Kept' = Kept /\ Claims' = Claims /\ opts' = opts
      /\ Rows' = Rows /\ Ids(given)' = Ids(given) /\ Ascending(given)' = Ascending(given)
  BY <1>2 DEF scanned, Kept, Accepted, Claims, Rows, Ids, Ascending
<1>9. \A i \in raw \cup Pending : i \in Kept /\ i <= reader /\ i \in Nat
  BY <1>3 DEF GivenBehind
<1>10. reader' # None  BY <1>3
<1>11. \A i \in raw' \cup Pending' : i \in Kept' /\ i <= reader'
  BY <1>2, <1>3, <1>4, <1>7, <1>8, <1>9
<1>12. \A i \in raw', j \in Pending' : i < j  BY <1>2, <1>3, <1>7, <1>9 DEF GivenBehind
<1> QED  BY <1>2, <1>8, <1>10, <1>11, <1>12 DEF GivenBehind

(* The rows of a batch come after everything handed out before.            *)
LEMMA AnswerBatchGiven == ASSUME IInv, IInv', GivenBehind, AnswerBatch PROVE GivenBehind'
<1> DEFINE df == Filled(accumulated)
           shown == Filtered(df.rows)
<1>1. /\ phase = "flush" /\ phase' = "answered" /\ given' = given \o shown
      /\ raw' = raw \cup Ids(accumulated) /\ UNCHANGED <<scanned, reader>>
  BY DEF AnswerBatch, Answer, Pushed
<1>2. /\ TypeOK /\ reader # None /\ accumulated \in Seq(Rows) /\ Ascending(accumulated)
      /\ Pending = Ids(accumulated) /\ Pending' = {}
  BY <1>1, Typed DEF IInv, CallRows, Pending, Ascending
<1>3. /\ df.rows \in Seq(Rows) /\ Ascending(df.rows) /\ Ids(df.rows) \subseteq Pending
  <2>1. df.rows = <<>> \/ df.rows = accumulated  BY DEF Filled
  <2>2. CASE df.rows = accumulated  BY <1>2, <2>2
  <2>3. CASE df.rows = <<>>
    <3> HIDE DEF df
    <3>1. Len(df.rows) = 0 /\ df.rows \in Seq(Rows)  BY <2>3
    <3>2. Ids(df.rows) = {}  BY <1>2, <2>3, <3>1, IdsTyped
    <3> QED  BY <3>1, <3>2 DEF Ascending
  <2> QED  BY <2>1, <2>2, <2>3
<1> HIDE DEF df
<1>4. /\ shown \in Seq(Rows) /\ Ascending(shown)
      /\ Ids(shown) = {df.rows[i].id : i \in {j \in DOMAIN df.rows : Verdict(df.rows[j])}}
  BY <1>2, <1>3, FilteredRows
<1> HIDE DEF shown
<1>5. Ids(shown) \subseteq Pending
  <2>1. Ids(shown) \subseteq Ids(df.rows)  BY <1>4 DEF Ids
  <2> QED  BY <1>3, <2>1
<1>6. \A i \in Ids(given), j \in Ids(shown) : i < j  BY <1>5 DEF GivenBehind
<1>7. /\ given' \in Seq(Rows) /\ Ascending(given') /\ Ids(given') = Ids(given) \cup Ids(shown)
  BY <1>1, <1>2, <1>4, <1>6, AppendAscends DEF GivenBehind
<1>8. Kept' = Kept /\ Rows' = Rows /\ Ids(given)' = Ids(given') /\ Ascending(given)' = Ascending(given')
  BY <1>1 DEF scanned, Kept, Accepted, Rows, Ids, Ascending
<1>9. Ids(given') \subseteq raw'  BY <1>1, <1>2, <1>5, <1>7 DEF GivenBehind
<1>10. \A i \in raw' \cup Pending' : i \in Kept' /\ i <= reader'
  BY <1>1, <1>2, <1>8 DEF GivenBehind
<1>11. \A i \in raw', j \in Pending' : i < j  BY <1>2
<1> QED  BY <1>1, <1>2, <1>7, <1>8, <1>9, <1>10, <1>11 DEF GivenBehind

(* The parallel scan answers first or not at all.                          *)
LEMMA ParallelFrameGiven ==
  ASSUME IInv, IInv', GivenBehind, ParallelFrameAnswered PROVE GivenBehind'
<1>1. PICK T \in Claims \ {{}} :
        raw' = raw \cup T /\ given' = given \o Filtered(InOrderOfText(T))
  BY DEF ParallelFrameAnswered, Pushed
<1>2. /\ phase = "batch" /\ phase' = "answered" /\ ~ finished /\ reader = None
      /\ finished' = TRUE /\ opts.parallel /\ UNCHANGED <<scanned, reader>>
  BY DEF ParallelFrameAnswered, TriesParallel, Answer
<1>3. TypeOK /\ T \in SUBSET (1..Len(text)) /\ Pending' = {}
  <2>1. TypeOK  BY DEF IInv
  <2>2. T \subseteq Accepted  BY DEF Claims
  <2> QED  BY <1>2, <2>1, <2>2, Typed DEF Pending
<1> DEFINE rows == InOrderOfText(T)
           shown == Filtered(rows)
<1>4. rows \in Seq(Rows) /\ Ascending(rows) /\ Ids(rows) = T  BY <1>3, TextRows
<1> HIDE DEF rows
<1>5. /\ shown \in Seq(Rows) /\ Ascending(shown)
      /\ Ids(shown) = {rows[i].id : i \in {j \in DOMAIN rows : Verdict(rows[j])}}
  BY <1>3, <1>4, FilteredRows
<1>6. given' = given \o shown  BY <1>1 DEF rows
<1> HIDE DEF shown
<1>7. Ids(shown) \subseteq T  BY <1>4, <1>5 DEF Ids
<1>8. raw = {} /\ Ids(given) = {} /\ given \in Seq(Rows) /\ Ascending(given)
  BY <1>2 DEF GivenBehind
<1>9. /\ given' \in Seq(Rows) /\ Ascending(given') /\ Ids(given') = Ids(shown)
  BY <1>3, <1>5, <1>6, <1>8, AppendAscends
<1>10. /\ Claims' = Claims /\ opts' = opts /\ raw' = T
       /\ Rows' = Rows /\ Ids(given)' = Ids(given') /\ Ascending(given)' = Ascending(given')
  BY <1>1, <1>2, <1>8 DEF scanned, Accepted, Claims, Rows, Ids, Ascending
<1> QED  BY <1>2, <1>3, <1>7, <1>9, <1>10 DEF GivenBehind

LEMMA InitGiven == Init => GivenBehind
<1> SUFFICES ASSUME Init PROVE GivenBehind  OBVIOUS
<1>1. TypeOK  BY InitInv DEF IInv
<1>2. /\ given = <<>> /\ given \in Seq(Rows) /\ Len(given) = 0 /\ raw = {} /\ ~ finished
      /\ phase = "idle"
  BY DEF Init
<1>3. Ids(given) = {} /\ Pending = {}  BY <1>1, <1>2, IdsTyped DEF Pending
<1> QED  BY <1>2, <1>3 DEF GivenBehind, Ascending

LEMMA NextGiven == ASSUME IInv, IInv', GivenBehind, [Next]_vars PROVE GivenBehind'
<1>1. /\ TypeOK /\ TypeOK' /\ None \notin Nat
      /\ reader \in Nat \cup {None} /\ (phase = "open" => ~ finished)
      /\ (phase \in {"parse", "flush"} => reader \in Nat)
  <2>1. TypeOK /\ TypeOK' /\ None \notin Nat /\ Len(text) \in Nat
    BY Typed DEF IInv
  <2>2. reader \in Nat \cup {None}  BY <2>1 DEF TypeOK
  <2> QED  BY <2>1, <2>2 DEF IInv, CallRows
<1>2. CASE Caller \/ AnswerFinished \/ ParallelFailed \/ SingleBatch \/ UNCHANGED vars
  <2>1. /\ UNCHANGED <<scanned, given, raw, reader, finished, accumulated>>
        /\ phase' \in {"parse", "flush"} => phase' = phase
    BY <1>2
    DEF Caller, Call, Pulled, JoinBatch, EndScan, AnswerFinished, ParallelFailed, SingleBatch,
        Answer, vars, scanned, stateVars, callVars, historyVars
  <2>2. Pending' \subseteq Pending  BY <2>1 DEF Pending, Ids
  <2> QED  BY <1>1, <2>1, <2>2, GivenStays
<1>3. CASE OpenReader
  <2>1. /\ phase = "open" /\ reader' \in {reader, Opened} /\ finished' = finished
        /\ (phase' \in {"parse", "flush"} => accumulated' = <<>>)
        /\ UNCHANGED <<scanned, given, raw>>
    BY <1>3 DEF OpenReader, Answer, historyVars
  <2>2. Pending' = {}  BY <2>1 DEF Pending, Ids
  <2> QED  BY <1>1, <2>1, <2>2, GivenStays DEF Opened
<1>4. CASE SkipLine \/ RejectRow \/ BadLine
  <2>1. /\ Reads /\ reader' = reader + 1 /\ UNCHANGED <<scanned, given, raw, accumulated>>
        /\ phase' \in {phase, "answered"}
    BY <1>4 DEF SkipLine, RejectRow, BadLine, Advance, Abandon, Answer, callVars, historyVars
  <2>2. Pending' \subseteq Pending  BY <2>1 DEF Pending, Ids
  <2>3. reader \in Nat /\ reader' \in Nat /\ reader <= reader'  BY <1>1, <2>1 DEF Reads
  <2> QED  BY <1>1, <2>1, <2>2, <2>3, GivenStays
<1>5. CASE ReadFails \/ AnswerNone \/ EndBatch \/ AnswerNoSchema \/ AnswerFlushError
  <2>1. /\ phase \in {"parse", "flush"} /\ UNCHANGED <<scanned, given, raw, accumulated, reader>>
        /\ phase' \in {"flush", "answered"}
    BY <1>5
    DEF ReadFails, AnswerNone, EndBatch, AnswerNoSchema, AnswerFlushError, Reads, Abandon,
        Answer, callVars, historyVars
  <2>2. Pending' \subseteq Pending  BY <2>1 DEF Pending, Ids
  <2>3. reader \in Nat /\ reader' \in Nat /\ reader <= reader'  BY <1>1, <2>1
  <2> QED  BY <1>1, <2>1, <2>2, <2>3, GivenStays
<1>6. CASE KeepRow  BY <1>6, KeepRowGiven
<1>7. CASE AnswerBatch  BY <1>7, AnswerBatchGiven
<1>8. CASE ParallelFrameAnswered  BY <1>8, ParallelFrameGiven
<1> QED  BY <1>2, <1>3, <1>4, <1>5, <1>6, <1>7, <1>8 DEF Next, Batch

(* Rows are handed out from behind the stream only.                         *)
THEOREM Behind == Spec => []GivenBehind
BY InitGiven, NextGiven, Inductive, PTL DEF Spec

(* Over all calls, the failed ones and the parallel one included, the rows *)
(* come in the order of the text, and no line is handed out twice.         *)
THEOREM RowsInOrder == Spec => []InOrder
<1>1. GivenBehind => InOrder
  <2> SUFFICES ASSUME GivenBehind PROVE InOrder  OBVIOUS
  <2>1. DOMAIN given = 1..Len(given)  BY DEF GivenBehind
  <2> QED  BY <2>1 DEF GivenBehind, Ascending, InOrder
<1> QED  BY <1>1, Behind, PTL

-----------------------------------------------------------------------------
(* The loop of scan().                                                     *)

(* A call of scan() reads whole lines only.  A batch with a line that has  *)
(* a key has a column; on a uniform text no row is cut.                    *)
BatchKeys ==
  opts.caller = "scan" /\ phase \in {"parse", "flush"} =>
    /\ column_keys # {} \/ (\E i \in Pending : text[i].keys # {})
         => \E j \in DOMAIN accumulated : accumulated[j].keys # {}
    /\ Uniform =>
         /\ \A j \in DOMAIN accumulated : accumulated[j].keys = text[accumulated[j].id].keys
         /\ \A i \in Accepted : column_keys \in {{}, text[i].keys}

FrameSet == [columns : SUBSET (AllKeys \cup opts.columns), rows : Seq(Rows)]

ScanFrames ==
  /\ acc \in FrameSet /\ (acc.columns = {} => acc = NoFrame)
  /\ answer.kind \in {"none", "frame", "error"} /\ answer.frame \in FrameSet
  /\ answer.frame.columns = {} => answer.frame.rows = <<>>

(* An error that scan() has returned or is about to.                       *)
Broken == scan = "failed" \/ (phase = "answered" /\ answer.kind = "error")

(* The rows answered and not joined yet.                                   *)
Unjoined == IF phase = "answered" /\ answer.kind = "frame" THEN answer.frame.rows ELSE <<>>

Keyed(S) == {i \in S : text[i].keys # {}}

ScanLoop ==
  /\ opts.caller # "scan" => scan = "running"
  /\ opts.caller = "scan" =>
       /\ scan \in {"running", "done", "failed"}
       /\ phase # "idle" => scan = "running"
       /\ torn \/ lost # {} => Broken
       /\ scan # "failed" => given = acc.rows \o Unjoined
       /\ scan = "done" => AllShown
       /\ opts.predicate = None => Keyed(raw) \subseteq Ids(given)

ColumnsOf(i) == IF opts.columns = {} THEN text[i].keys ELSE opts.columns

ScanUniform ==
  opts.caller = "scan" /\ Uniform =>
    /\ Ids(given) = Passing(raw)
    /\ BatchSize # 0 =>
         /\ phase = "answered" /\ answer.kind = "frame"
              => \E i \in Accepted : answer.frame.columns = ColumnsOf(i)
         /\ acc # NoFrame => \E i \in Accepted : acc.columns = ColumnsOf(i)
         /\ Broken => faults # {} \/ \E i \in Accepted : ~ Asked(text[i].keys)

ScanInv == BatchKeys /\ ScanFrames /\ ScanLoop /\ ScanUniform

(* What is known of a frame, before it is pushed down.                     *)
LEMMA PushedFrame ==
  ASSUME TypeOK, NEW columns \in SUBSET AllKeys, NEW rows \in Seq(Rows), Ascending(rows),
         columns = {} => rows = <<>>
  PROVE  LET frame == Pushed([columns |-> columns, rows |-> rows]) IN
         /\ frame \in FrameSet /\ (columns = {} /\ opts.columns = {} => frame.rows = <<>>)
         /\ frame.columns = IF opts.columns = {} THEN columns ELSE opts.columns
         /\ Ids(frame.rows) = {rows[i].id : i \in {j \in DOMAIN rows : Verdict(rows[j])}}
<1> DEFINE shown == Filtered(rows)
           cols == IF opts.columns = {} THEN columns ELSE opts.columns
<1>1. /\ shown \in Seq(Rows)
      /\ Ids(shown) = {rows[i].id : i \in {j \in DOMAIN rows : Verdict(rows[j])}}
  BY FilteredRows
<1>2. Pushed([columns |-> columns, rows |-> rows]) = [columns |-> cols, rows |-> shown]
  BY DEF Pushed
<1>3. rows = <<>> => shown = <<>>
  <2> SUFFICES ASSUME rows = <<>> PROVE shown = <<>>  OBVIOUS
  <2>1. DOMAIN rows = {}  OBVIOUS
  <2>2. Ids(shown) = {}  BY <1>1, <2>1
  <2> HIDE DEF shown
  <2>3. Len(shown) \in Nat /\ DOMAIN shown = 1..Len(shown)  BY <1>1
  <2>4. DOMAIN shown = {}  BY <2>2 DEF Ids
  <2>5. Len(shown) = 0
    <3>1. 1 \notin 1..Len(shown)  BY <2>3, <2>4
    <3> QED  BY <2>3, <3>1
  <2> QED  BY <1>1, <2>5
<1>4. cols \in SUBSET (AllKeys \cup opts.columns)  OBVIOUS
<1> HIDE DEF shown, cols
<1>5. [columns |-> cols, rows |-> shown] \in FrameSet  BY <1>1, <1>4 DEF FrameSet
<1> QED  BY <1>1, <1>2, <1>3, <1>5 DEF cols

LEMMA BatchFrame ==
  ASSUME IInv, GivenBehind, phase = "flush"
  PROVE  LET df == Filled(accumulated)
             frame == Pushed(df)
         IN  /\ frame \in FrameSet /\ (frame.columns = {} => frame.rows = <<>>)
             /\ opts.caller = "scan" /\ opts.predicate = None /\ BatchKeys
                  => Keyed(Pending) \subseteq Ids(frame.rows)
             /\ opts.caller = "scan" /\ Uniform /\ BatchKeys /\ Asked(df.columns)
                  => Ids(frame.rows) = Passing(Pending)
             /\ opts.caller = "scan" /\ Uniform /\ BatchKeys /\ BatchSize # 0
                  => \E i \in Accepted : frame.columns = ColumnsOf(i) /\ df.columns = text[i].keys
<1>1. /\ TypeOK /\ accumulated \in Seq(Rows) /\ Ascending(accumulated)
      /\ Pending = Ids(accumulated) /\ DOMAIN accumulated = 1..Len(accumulated)
      /\ Kept \subseteq Accepted /\ reader # None
  BY Typed DEF IInv, CallRows, Pending, Ascending
<1> DEFINE columns == UNION {accumulated[i].keys : i \in DOMAIN accumulated}
           rows == IF columns = {} THEN <<>> ELSE accumulated
           df == [columns |-> columns, rows |-> rows]
           frame == Pushed(df)
<1>2. Filled(accumulated) = df  BY DEF Filled
<1>3. columns \in SUBSET AllKeys
  <2>1. \A i \in DOMAIN accumulated : accumulated[i] \in Rows  BY <1>1
  <2> QED  BY <2>1 DEF Rows
<1>4. rows \in Seq(Rows) /\ Ascending(rows) /\ (columns = {} => rows = <<>>)
  <2>1. CASE columns = {}
    <3>1. rows = <<>> /\ <<>> \in Seq(Rows) /\ Len(<<>>) = 0  BY <2>1
    <3> QED  BY <3>1 DEF Ascending
  <2>2. CASE columns # {}  BY <1>1, <2>2
  <2> QED  BY <2>1, <2>2
<1>5. /\ frame \in FrameSet /\ (columns = {} /\ opts.columns = {} => frame.rows = <<>>)
      /\ frame.columns = IF opts.columns = {} THEN columns ELSE opts.columns
      /\ Ids(frame.rows) = {rows[i].id : i \in {j \in DOMAIN rows : Verdict(rows[j])}}
  <2> HIDE DEF columns, rows
  <2> QED  BY <1>1, <1>3, <1>4, PushedFrame
<1>6. frame.columns = {} => frame.rows = <<>>  BY <1>5
<1>7. ASSUME opts.caller = "scan", opts.predicate = None, BatchKeys
      PROVE  Keyed(Pending) \subseteq Ids(frame.rows)
  <2> SUFFICES ASSUME NEW i \in Pending, text[i].keys # {} PROVE i \in Ids(frame.rows)
    BY DEF Keyed
  <2>1. \E j \in DOMAIN accumulated : accumulated[j].keys # {}  BY <1>7 DEF BatchKeys
  <2>2. rows = accumulated  BY <2>1
  <2>3. PICK j \in DOMAIN accumulated : accumulated[j].id = i  BY <1>1 DEF Ids
  <2>4. Verdict(accumulated[j])  BY <1>7 DEF Verdict
  <2> HIDE DEF rows, columns
  <2> QED  BY <1>5, <2>2, <2>3, <2>4
<1>8. ASSUME opts.caller = "scan", Uniform, BatchKeys
      PROVE  /\ \A j \in DOMAIN accumulated : /\ accumulated[j].keys = text[accumulated[j].id].keys
                                              /\ accumulated[j].id \in Accepted
             /\ \A j \in DOMAIN accumulated : columns = accumulated[j].keys /\ columns # {}
  <2>1. \A j \in DOMAIN accumulated : /\ accumulated[j].keys = text[accumulated[j].id].keys
                                      /\ accumulated[j].id \in Pending
    BY <1>1, <1>8 DEF BatchKeys, Ids
  <2>2. Pending \subseteq Kept  BY <1>1 DEF GivenBehind
  <2>3. \A j \in DOMAIN accumulated : accumulated[j].id \in Accepted  BY <1>1, <2>1, <2>2
  <2>4. \A i, j \in DOMAIN accumulated : accumulated[i].keys = accumulated[j].keys
    BY <1>8, <2>1, <2>3 DEF Uniform
  <2>5. \A j \in DOMAIN accumulated : accumulated[j].keys # {}
    BY <1>8, <2>1, <2>3 DEF Uniform
  <2>6. \A j \in DOMAIN accumulated : columns = accumulated[j].keys  BY <2>4
  <2> QED  BY <2>1, <2>3, <2>5, <2>6
<1>9. ASSUME opts.caller = "scan", Uniform, BatchKeys, Asked(columns)
      PROVE  Ids(frame.rows) = Passing(Pending)
  <2>1. CASE DOMAIN accumulated = {}
    <3>1. Pending = {} /\ columns = {}  BY <1>1, <2>1 DEF Ids
    <3>2. rows = <<>> /\ DOMAIN rows = {}  BY <3>1
    <3> HIDE DEF rows, columns
    <3>3. Ids(frame.rows) = {}  BY <1>5, <3>2
    <3> QED  BY <3>1, <3>3 DEF Passing
  <2>2. CASE DOMAIN accumulated # {}
    <3>1. rows = accumulated  BY <1>8, <1>9, <2>2
    <3>2. ASSUME NEW j \in DOMAIN accumulated
          PROVE  Verdict(accumulated[j])
                   <=> opts.predicate = None \/ text[accumulated[j].id].passes
      <4>1. columns = accumulated[j].keys  BY <1>8, <1>9
      <4>2. opts.predicate = None \/ opts.predicate \in accumulated[j].keys
        BY <1>9, <4>1 DEF Asked
      <4> QED  BY <4>2 DEF Verdict
    <3> HIDE DEF rows, columns
    <3>3. Ids(frame.rows) = {accumulated[i].id : i \in {j \in DOMAIN accumulated :
                                   opts.predicate = None \/ text[accumulated[j].id].passes}}
      BY <1>5, <3>1, <3>2
    <3> QED  BY <1>1, <3>3 DEF Passing, Ids
  <2> QED  BY <2>1, <2>2
<1>10. ASSUME opts.caller = "scan", Uniform, BatchKeys, BatchSize # 0
       PROVE  \E i \in Accepted : frame.columns = ColumnsOf(i) /\ columns = text[i].keys
  <2>1. accumulated # <<>>  BY <1>10, EmptyBatch
  <2>2. 1 \in DOMAIN accumulated  BY <1>1, <2>1
  <2>3. accumulated[1].id \in Accepted /\ columns = text[accumulated[1].id].keys
    BY <1>8, <1>10, <2>2
  <2> HIDE DEF columns, rows
  <2> QED  BY <1>5, <2>3 DEF ColumnsOf
<1> HIDE DEF columns, rows, frame
<1>11. df.columns = columns  OBVIOUS
<1> HIDE DEF df
<1> QED  BY <1>2, <1>5, <1>6, <1>7, <1>9, <1>10, <1>11 DEF frame

LEMMA TextFrame ==
  ASSUME TypeOK, Uniform, NEW T \in Claims \ {{}}
  PROVE  LET columns == UNION {text[i].keys : i \in T}
             frame == Pushed([columns |-> columns, rows |-> InOrderOfText(T)])
         IN  /\ frame \in FrameSet /\ (frame.columns = {} => frame.rows = <<>>)
             /\ opts.predicate = None => Ids(frame.rows) = T
             /\ Asked(columns) => Ids(frame.rows) = Passing(T)
             /\ \E i \in Accepted : frame.columns = ColumnsOf(i)
<1> DEFINE columns == UNION {text[i].keys : i \in T}
           rows == InOrderOfText(T)
           frame == Pushed([columns |-> columns, rows |-> rows])
<1>1. /\ T \in SUBSET Accepted /\ Accepted \subseteq 1..Len(text) /\ DOMAIN text = 1..Len(text)
      /\ T # {}
  <2>1. T \subseteq Accepted  BY DEF Claims
  <2> QED  BY <2>1, Typed
<1>2. /\ \A i \in T : columns = text[i].keys /\ columns # {}
      /\ columns \in SUBSET AllKeys
  <2>1. \A i, j \in T : text[i].keys = text[j].keys /\ text[i].keys # {}  BY <1>1 DEF Uniform
  <2>2. \A i \in T : columns = text[i].keys  BY <2>1
  <2>3. \A i \in T : text[i] \in Lines  BY <1>1 DEF TypeOK
  <2>4. \A i \in T : text[i].keys \in SUBSET AllKeys  BY <2>3, BatchAssumption
  <2> QED  BY <1>1, <2>1, <2>2, <2>4
<1>3. /\ rows \in Seq(Rows) /\ Ascending(rows) /\ Ids(rows) = T
      /\ \A i \in DOMAIN rows : rows[i].keys = text[rows[i].id].keys
  BY <1>1, TextRows
<1>4. columns # {}  BY <1>1, <1>2
<1> HIDE DEF columns, rows
<1>5. /\ frame \in FrameSet
      /\ frame.columns = IF opts.columns = {} THEN columns ELSE opts.columns
      /\ Ids(frame.rows) = {rows[i].id : i \in {j \in DOMAIN rows : Verdict(rows[j])}}
  BY <1>2, <1>3, <1>4, PushedFrame
<1> HIDE DEF frame
<1>6. frame.columns # {}  BY <1>4, <1>5
<1>7. ASSUME opts.predicate = None PROVE Ids(frame.rows) = T
  <2>1. \A j \in DOMAIN rows : Verdict(rows[j])  BY <1>7 DEF Verdict
  <2> QED  BY <1>3, <1>5, <2>1 DEF Ids
<1>8. ASSUME Asked(columns) PROVE Ids(frame.rows) = Passing(T)
  <2>1. \A j \in DOMAIN rows : rows[j].id \in T  BY <1>3 DEF Ids
  <2>2. \A j \in DOMAIN rows :
          Verdict(rows[j]) <=> opts.predicate = None \/ text[rows[j].id].passes
    <3> SUFFICES ASSUME NEW j \in DOMAIN rows
                 PROVE  Verdict(rows[j]) <=> opts.predicate = None \/ text[rows[j].id].passes
      OBVIOUS
    <3>1. rows[j].keys = columns  BY <1>2, <1>3, <2>1
    <3>2. opts.predicate = None \/ opts.predicate \in rows[j].keys  BY <1>8, <3>1 DEF Asked
    <3> QED  BY <3>2 DEF Verdict
  <2>3. Ids(frame.rows) = {rows[i].id : i \in {j \in DOMAIN rows :
                              opts.predicate = None \/ text[rows[j].id].passes}}
    BY <1>5, <2>2
  <2> QED  BY <1>3, <2>3 DEF Passing, Ids
<1>9. \E i \in Accepted : frame.columns = ColumnsOf(i)
  <2>1. PICK i \in T : TRUE  BY <1>1
  <2> QED  BY <1>1, <1>2, <1>5, <2>1 DEF ColumnsOf
<1> QED  BY <1>5, <1>6, <1>7, <1>8, <1>9 DEF frame, columns, rows

(* The parts of the invariant, step by step.                               *)
LEMMA WholeLine ==
  ASSUME IInv, ScanLoop, opts.caller = "scan", Reads
  PROVE  ~ torn /\ NextLines = {text[reader + 1]}
<1>1. phase = "parse" /\ scan = "running"  BY DEF Reads, ScanLoop
<1>2. ~ Broken  BY <1>1 DEF Broken
<1> QED  BY <1>2 DEF ScanLoop, NextLines

LEMMA BatchKeysKept ==
  ASSUME IInv, IInv', GivenBehind, GivenBehind', ScanInv, [Next]_vars
  PROVE  BatchKeys'
<1> SUFFICES ASSUME opts'.caller = "scan", phase' \in {"parse", "flush"} PROVE BatchKeys'
  BY DEF BatchKeys
<1>1. /\ TypeOK /\ DOMAIN text = 1..Len(text)  BY Typed DEF IInv
<1>2. /\ text' = text /\ opts' = opts /\ Uniform' = Uniform /\ Accepted' = Accepted
  <2>1. UNCHANGED scanned
    BY DEF Next, Batch, Caller, Call, Pulled, JoinBatch, EndScan, AnswerFinished,
       ParallelFrameAnswered, ParallelFailed, SingleBatch, OpenReader, SkipLine, RejectRow,
       KeepRow, BadLine, ReadFails, AnswerNone, EndBatch, AnswerNoSchema, AnswerBatch,
       AnswerFlushError, Abandon, vars
  <2> QED  BY <2>1 DEF scanned, Uniform, Accepted
<1>3. CASE phase \in {"parse", "flush"} /\ UNCHANGED <<accumulated, column_keys>>
  <2>1. Pending' = Pending  BY <1>3 DEF Pending, Ids
  <2> QED  BY <1>2, <1>3, <2>1 DEF ScanInv, BatchKeys
<1>4. CASE accumulated' = <<>> /\ column_keys' = {}
  <2>1. Pending' = {}  BY <1>4 DEF Pending, Ids
  <2>2. DOMAIN accumulated' = {}  BY <1>4
  <2> QED  BY <1>2, <1>4, <2>1, <2>2 DEF BatchKeys
<1>5. CASE KeepRow
  <2> DEFINE t == text[reader + 1]
             r == [id |-> reader + 1, keys |-> Pruned(t.keys)]
  <2>1. Reads  BY <1>5 DEF KeepRow
  <2>2. NextLines = {t}  BY <1>2, <2>1, WholeLine DEF ScanInv
  <2>3. /\ t.kind = "row" /\ t.kept /\ phase' = phase /\ accumulated' = Append(accumulated, r)
        /\ column_keys' = IF opts.aligned /\ column_keys = {} THEN t.keys ELSE column_keys
    BY <1>5, <2>2 DEF KeepRow
  <2>4. /\ phase = "parse" /\ reader + 1 \in 1..Len(text) /\ t.keys \in SUBSET AllKeys
        /\ accumulated \in Seq(Rows) /\ Pending = Ids(accumulated)
    BY <2>1, <2>2, ReadLine, Typed DEF Reads
  <2>5. r \in Rows /\ r.id = reader + 1 /\ r.keys = Pruned(t.keys)  BY <2>4 DEF Rows, Pruned
  <2> HIDE DEF r
  <2>6. /\ Len(accumulated) \in Nat /\ DOMAIN accumulated = 1..Len(accumulated)
        /\ DOMAIN accumulated' = 1..(Len(accumulated) + 1)
        /\ accumulated'[Len(accumulated) + 1] = r
        /\ \A j \in 1..Len(accumulated) : accumulated'[j] = accumulated[j]
    BY <2>3, <2>4, <2>5
  <2>7. \A j \in DOMAIN accumulated' : j \in DOMAIN accumulated \/ accumulated'[j] = r
    BY <2>6
  <2>8. \A j \in DOMAIN accumulated : j \in DOMAIN accumulated' /\ accumulated'[j] = accumulated[j]
    BY <2>6
  <2>9. PICK last \in DOMAIN accumulated' : accumulated'[last] = r  BY <2>6
  <2>10. Pending' = Pending \cup {reader + 1}
    <3>1. Ids(accumulated') = Ids(accumulated) \cup {reader + 1}
      BY <2>3, <2>4, <2>5, IdsAppended
    <3> QED  BY <2>3, <2>4, <3>1 DEF Pending, Ids
  <2>11. reader + 1 \in Accepted  BY <1>1, <2>3, <2>4 DEF Accepted
  <2>12. /\ column_keys # {} \/ (\E i \in Pending : text[i].keys # {})
              => \E j \in DOMAIN accumulated : accumulated[j].keys # {}
         /\ Uniform => \A j \in DOMAIN accumulated :
                         accumulated[j].keys = text[accumulated[j].id].keys
         /\ Uniform => \A i \in Accepted : column_keys \in {{}, text[i].keys}
    BY <1>2, <2>4 DEF ScanInv, BatchKeys
  <2>13. ASSUME column_keys' # {} \/ \E i \in Pending' : text[i].keys # {}
         PROVE  \E j \in DOMAIN accumulated' : accumulated'[j].keys # {}
    <3>1. CASE \E j \in DOMAIN accumulated : accumulated[j].keys # {}
      BY <2>8, <3>1
    <3>2. CASE ~ \E j \in DOMAIN accumulated : accumulated[j].keys # {}
      <4>1. column_keys = {} /\ \A i \in Pending : text[i].keys = {}  BY <2>12, <3>2
      <4>2. t.keys # {}  BY <2>3, <2>10, <2>13, <4>1
      <4>3. r.keys = t.keys  BY <2>5, <4>1 DEF Pruned
      <4> QED  BY <2>9, <4>2, <4>3
    <3> QED  BY <3>1, <3>2
  <2>14. ASSUME Uniform
         PROVE  /\ \A j \in DOMAIN accumulated' :
                     accumulated'[j].keys = text[accumulated'[j].id].keys
                /\ \A i \in Accepted : column_keys' \in {{}, text[i].keys}
    <3>1. \A i \in Accepted : text[i].keys = t.keys  BY <2>11, <2>14 DEF Uniform
    <3>2. column_keys \in {{}, t.keys}  BY <2>11, <2>12, <2>14
    <3>3. r.keys = t.keys  BY <2>5, <3>2 DEF Pruned
    <3>4. \A i \in Accepted : column_keys' \in {{}, text[i].keys}
      BY <2>3, <2>12, <2>14, <3>1
    <3> QED  BY <2>5, <2>7, <2>8, <2>12, <2>14, <3>3, <3>4
  <2> QED  BY <1>2, <2>3, <2>13, <2>14 DEF BatchKeys
<1>6. (phase \in {"parse", "flush"} /\ UNCHANGED <<accumulated, column_keys>>)
      \/ (accumulated' = <<>> /\ column_keys' = {}) \/ KeepRow
  BY DEF Next, Batch, Caller, Call, Pulled, JoinBatch, EndScan, AnswerFinished,
     ParallelFrameAnswered, ParallelFailed, SingleBatch, OpenReader, SkipLine, RejectRow,
     BadLine, ReadFails, AnswerNone, EndBatch, AnswerNoSchema, AnswerBatch,
     AnswerFlushError, Abandon, Answer, vars, callVars, Reads
<1> QED  BY <1>3, <1>4, <1>5, <1>6

(* What every step leaves alone.                                           *)
LEMMA ScannedStays ==
  ASSUME [Next]_vars
  PROVE  /\ UNCHANGED <<text, opts, faults, FrameSet, Accepted, Kept, Uniform, BatchSize>>
         /\ \A i : ColumnsOf(i)' = ColumnsOf(i)
<1>1. UNCHANGED scanned
  BY DEF Next, Batch, Caller, Call, Pulled, JoinBatch, EndScan, AnswerFinished,
     ParallelFrameAnswered, ParallelFailed, SingleBatch, OpenReader, SkipLine, RejectRow,
     KeepRow, BadLine, ReadFails, AnswerNone, EndBatch, AnswerNoSchema, AnswerBatch,
     AnswerFlushError, Abandon, vars
<1> QED
  BY <1>1 DEF scanned, FrameSet, Rows, Accepted, Kept, Uniform, ColumnsOf, BatchSize

LEMMA NoFrameTyped ==
  NoFrame \in FrameSet /\ NoFrame.columns = {} /\ NoFrame.rows = <<>>
BY DEF NoFrame, FrameSet

LEMMA ScanFramesKept ==
  ASSUME IInv, IInv', GivenBehind, ScanInv, [Next]_vars
  PROVE  ScanFrames'
<1>1. FrameSet' = FrameSet /\ TypeOK  BY ScannedStays DEF IInv
<1>2. CASE JoinBatch
  <2>1. answer' = answer  BY <1>2 DEF JoinBatch
  <2>2. CASE acc' = acc  BY <1>1, <2>1, <2>2 DEF ScanInv, ScanFrames
  <2>3. CASE acc' # acc
    <3>1. acc' = Joined /\ answer.frame.columns # {}  BY <1>2, <2>3 DEF JoinBatch, callerVars
    <3>2. acc \in FrameSet /\ answer.frame \in FrameSet  BY DEF ScanInv, ScanFrames
    <3>3. CASE acc = NoFrame
      <4>1. acc' = answer.frame  BY <3>1, <3>3 DEF Joined
      <4> QED  BY <1>1, <2>1, <3>1, <3>2, <4>1 DEF ScanInv, ScanFrames
    <3>4. CASE acc # NoFrame
      <4>1. acc' = [acc EXCEPT !.rows = acc.rows \o answer.frame.rows]
        BY <3>1, <3>4 DEF Joined
      <4>2. acc.rows \o answer.frame.rows \in Seq(Rows)  BY <3>2 DEF FrameSet
      <4>3. acc' \in FrameSet /\ acc'.columns = acc.columns  BY <3>2, <4>1, <4>2 DEF FrameSet
      <4>4. acc.columns # {}  BY <3>4 DEF ScanInv, ScanFrames
      <4> QED  BY <1>1, <2>1, <4>3, <4>4 DEF ScanInv, ScanFrames
    <3> QED  BY <3>3, <3>4
  <2> QED  BY <2>2, <2>3
<1>3. CASE AnswerBatch
  <2>1. /\ acc' = acc /\ answer'.frame = Pushed(Filled(accumulated)) /\ phase = "flush"
        /\ answer'.kind = "frame"
    BY <1>3 DEF AnswerBatch, Answer, callerVars
  <2>2. /\ answer'.frame \in FrameSet
        /\ answer'.frame.columns = {} => answer'.frame.rows = <<>>
    BY <2>1, BatchFrame
  <2> QED  BY <1>1, <2>1, <2>2 DEF ScanInv, ScanFrames
<1>4. CASE ParallelFrameAnswered
  <2>0. PICK T \in Claims \ {{}} :
          Answer("frame", Pushed([columns |-> UNION {text[i].keys : i \in T},
                                  rows |-> InOrderOfText(T)]))
    BY <1>4 DEF ParallelFrameAnswered
  <2>1. /\ answer'.frame = Pushed([columns |-> UNION {text[i].keys : i \in T},
                                   rows |-> InOrderOfText(T)])
        /\ answer'.kind = "frame"
    BY <2>0 DEF Answer
  <2>2. acc' = acc /\ Uniform  BY <1>4 DEF ParallelFrameAnswered, callerVars
  <2>3. /\ answer'.frame \in FrameSet
        /\ answer'.frame.columns = {} => answer'.frame.rows = <<>>
    BY <1>1, <2>1, <2>2, TextFrame
  <2> QED  BY <1>1, <2>1, <2>2, <2>3 DEF ScanInv, ScanFrames
<1>5. CASE acc' = acc /\ (answer' = answer \/ (answer'.frame = NoFrame
                                                /\ answer'.kind \in {"none", "error"}))
  <2>1. CASE answer' = answer  BY <1>1, <1>5, <2>1 DEF ScanInv, ScanFrames
  <2>2. CASE answer'.frame = NoFrame /\ answer'.kind \in {"none", "error"}
    BY <1>1, <1>5, <2>2, NoFrameTyped DEF ScanInv, ScanFrames
  <2> QED  BY <1>5, <2>1, <2>2
<1>6. JoinBatch \/ AnswerBatch \/ ParallelFrameAnswered
      \/ (acc' = acc /\ (answer' = answer \/ (answer'.frame = NoFrame
                                              /\ answer'.kind \in {"none", "error"})))
  BY DEF Next, Batch, Caller, Call, Pulled, EndScan, AnswerFinished,
     ParallelFailed, SingleBatch, OpenReader, SkipLine, RejectRow, KeepRow,
     BadLine, ReadFails, AnswerNone, EndBatch, AnswerNoSchema,
     AnswerFlushError, Abandon, Answer, vars, callerVars
<1> QED  BY <1>2, <1>3, <1>4, <1>5, <1>6

(* As many rows as were handed out are behind them.                        *)
LEMMA GivenCounted ==
  ASSUME TypeOK, GivenBehind
  PROVE  /\ Len(given) \in Nat /\ Cardinality(raw) \in Nat
         /\ Len(given) <= Cardinality(raw)
<1>1. given \in Seq(Rows) /\ Ascending(given) /\ Ids(given) \subseteq raw
  BY DEF GivenBehind
<1>2. Cardinality(Ids(given)) = Len(given)  BY <1>1, IdsCounted DEF Ascending
<1>3. raw \in SUBSET (1..Len(text)) /\ Ids(given) \in SUBSET raw  BY <1>1 DEF TypeOK
<1>4. Cardinality(raw) \in Nat /\ Cardinality(Ids(given)) <= Cardinality(raw)
  BY <1>3, LinesCounted
<1> QED  BY <1>1, <1>2, <1>4

LEMMA ScanLoopKept ==
  ASSUME IInv, IInv', GivenBehind, GivenBehind', ScanInv, ScanFrames', [Next]_vars
  PROVE  ScanLoop'
<1>1. /\ TypeOK /\ TypeOK' /\ text' = text /\ opts' = opts /\ Kept' = Kept /\ BatchSize' = BatchSize
      /\ acc \in FrameSet /\ answer.frame \in FrameSet /\ acc' \in FrameSet
  BY ScannedStays DEF IInv, ScanInv, ScanFrames
<1>2. /\ acc.rows \in Seq(Rows) /\ answer.frame.rows \in Seq(Rows)
      /\ acc.rows \o <<>> = acc.rows /\ given \in Seq(Rows)
  BY <1>1 DEF FrameSet, GivenBehind
<1>3. opts.caller # "scan" => scan' = "running"
  BY <1>1
  DEF Next, Batch, Caller, Call, Pulled, JoinBatch, EndScan, AnswerFinished, callerVars,
      ParallelFrameAnswered, ParallelFailed, SingleBatch, OpenReader, SkipLine, RejectRow,
      KeepRow, BadLine, ReadFails, AnswerNone, EndBatch, AnswerNoSchema, AnswerBatch,
      AnswerFlushError, Abandon, vars, ScanInv, ScanLoop
<1> SUFFICES ASSUME opts.caller = "scan" PROVE ScanLoop'
  <2>1. opts.caller # "scan" => ScanLoop'  BY <1>1, <1>3 DEF ScanLoop
  <2> QED  BY <2>1
<1>4. /\ scan \in {"running", "done", "failed"}
      /\ phase # "idle" => scan = "running"
      /\ torn \/ lost # {} => Broken
      /\ scan # "failed" => given = acc.rows \o Unjoined
      /\ scan = "done" => AllShown
      /\ opts.predicate = None => Keyed(raw) \subseteq Ids(given)
  BY DEF ScanInv, ScanLoop
<1>5. Keyed(raw)' = Keyed(raw') /\ Ids(given)' = Ids(given')  BY <1>1 DEF Keyed, Ids
<1>6. CASE UNCHANGED vars
  <2>1. /\ UNCHANGED <<scan, phase, torn, lost, given, acc, raw, answer, accumulated>>
    BY <1>6 DEF vars, callerVars, historyVars, stateVars, callVars
  <2>2. Shown' = Shown /\ Broken' = Broken /\ Unjoined' = Unjoined
    BY <2>1 DEF Shown, Pending, Ids, Broken, Unjoined
  <2>3. AllShown' = AllShown  BY <1>1, <2>2 DEF AllShown
  <2> QED  BY <1>1, <1>4, <1>5, <2>1, <2>2, <2>3 DEF ScanLoop
<1>7. CASE Call
  <2>1. /\ phase = "idle" /\ phase' = "batch" /\ scan = "running" /\ scan' = scan /\ acc' = acc
        /\ UNCHANGED <<torn, lost, given, raw, answer>>
    BY <1>7 DEF Call, callerVars, historyVars, stateVars
  <2>2. ~ Broken /\ Unjoined = <<>> /\ Unjoined' = <<>>  BY <2>1 DEF Broken, Unjoined
  <2> QED  BY <1>1, <1>4, <1>5, <2>1, <2>2 DEF ScanLoop
<1>8. CASE Batch
  <2>1. phase \in {"batch", "open", "parse", "flush"} /\ scan' = scan /\ acc' = acc
    BY <1>8
    DEF Batch, AnswerFinished, callerVars, Reads,
        ParallelFrameAnswered, ParallelFailed, SingleBatch, OpenReader, SkipLine, RejectRow,
        KeepRow, BadLine, ReadFails, AnswerNone, EndBatch, AnswerNoSchema, AnswerBatch,
        AnswerFlushError, Abandon
  <2>2. scan = "running" /\ ~ Broken /\ Unjoined = <<>>
    BY <1>4, <2>1 DEF Broken, Unjoined
  <2>3. ~ torn /\ lost = {} /\ given = acc.rows  BY <1>2, <1>4, <2>2
  <2>4. CASE AnswerBatch
    <3> DEFINE frame == Pushed(Filled(accumulated))
    <3>1. /\ phase = "flush" /\ phase' = "answered" /\ answer' = [kind |-> "frame", frame |-> frame]
          /\ given' = given \o frame.rows /\ raw' = raw \cup Ids(accumulated)
          /\ UNCHANGED <<torn, lost>>
      BY <2>4 DEF AnswerBatch, Answer
    <3>2. frame \in FrameSet /\ (opts.predicate = None => Keyed(Pending) \subseteq Ids(frame.rows))
      BY <3>1, BatchFrame DEF ScanInv
    <3> HIDE DEF frame
    <3>3. given' = acc'.rows \o Unjoined'  BY <2>1, <2>3, <3>1 DEF Unjoined
    <3>4. ASSUME opts.predicate = None PROVE Keyed(raw') \subseteq Ids(given')
      <4>1. Keyed(raw') = Keyed(raw) \cup Keyed(Pending)  BY <3>1 DEF Keyed, Pending
      <4>2. Ids(given) \cup Ids(frame.rows) \subseteq Ids(given')
        <5>1. PICK s \in Seq(Rows) : s = frame.rows  BY <3>2 DEF FrameSet
        <5>2. given' = given \o s  BY <3>1, <5>1
        <5> QED  BY <1>2, <5>1, <5>2, IdsJoined
      <4> QED  BY <1>4, <3>2, <3>4, <4>1, <4>2
    <3> QED  BY <1>1, <1>5, <2>1, <2>2, <2>3, <3>1, <3>3, <3>4 DEF ScanLoop
  <2>5. CASE ParallelFrameAnswered
    <3>1. PICK T \in Claims \ {{}} :
            LET frame == Pushed([columns |-> UNION {text[i].keys : i \in T},
                                 rows |-> InOrderOfText(T)])
            IN  Answer("frame", frame) /\ raw' = raw \cup T /\ given' = given \o frame.rows
      BY <2>5 DEF ParallelFrameAnswered
    <3> DEFINE frame == Pushed([columns |-> UNION {text[i].keys : i \in T},
                                rows |-> InOrderOfText(T)])
    <3>2. /\ phase' = "answered" /\ answer' = [kind |-> "frame", frame |-> frame]
          /\ raw' = raw \cup T /\ given' = given \o frame.rows
      BY <3>1 DEF Answer
    <3>3. reader = None /\ ~ finished /\ Uniform /\ UNCHANGED <<torn, lost>>
      BY <2>5 DEF ParallelFrameAnswered, TriesParallel
    <3>4. frame \in FrameSet /\ (opts.predicate = None => Ids(frame.rows) = T)
      BY <1>1, <3>3, TextFrame
    <3> HIDE DEF frame
    <3>5. given' = acc'.rows \o Unjoined'  BY <2>1, <2>3, <3>2 DEF Unjoined
    <3>6. ASSUME opts.predicate = None PROVE Keyed(raw') \subseteq Ids(given')
      <4>1. raw = {}  BY <3>3 DEF GivenBehind
      <4>2. Ids(given) \cup Ids(frame.rows) \subseteq Ids(given')
        <5>1. PICK s \in Seq(Rows) : s = frame.rows  BY <3>4 DEF FrameSet
        <5>2. given' = given \o s  BY <3>2, <5>1
        <5> QED  BY <1>2, <5>1, <5>2, IdsJoined
      <4> QED  BY <3>2, <3>4, <3>6, <4>1, <4>2 DEF Keyed
    <3> QED  BY <1>1, <1>5, <2>1, <2>2, <2>3, <3>2, <3>3, <3>5, <3>6 DEF ScanLoop
  <2>6. CASE BadLine \/ ReadFails \/ AnswerFlushError
    <3>1. phase' = "answered" /\ answer'.kind = "error" /\ UNCHANGED <<given, raw>>
      BY <2>6 DEF BadLine, ReadFails, AnswerFlushError, Abandon, Answer
    <3>2. Broken' /\ Unjoined' = <<>>  BY <3>1 DEF Broken, Unjoined
    <3> QED  BY <1>1, <1>4, <1>5, <2>1, <2>2, <2>3, <3>1, <3>2 DEF ScanLoop
  <2>7. CASE UNCHANGED <<given, raw, lost>> /\ ~ torn' /\ Unjoined' = <<>>
    BY <1>1, <1>4, <1>5, <2>1, <2>2, <2>3, <2>7 DEF ScanLoop
  <2>8. AnswerBatch \/ ParallelFrameAnswered \/ BadLine \/ ReadFails \/ AnswerFlushError
        \/ (UNCHANGED <<given, raw, lost>> /\ ~ torn' /\ Unjoined' = <<>>)
    BY <1>8, <2>1, <2>3
    DEF Batch, AnswerFinished, ParallelFailed, SingleBatch, OpenReader, SkipLine, RejectRow,
        KeepRow, AnswerNone, EndBatch, AnswerNoSchema, Reads, Answer, Advance, historyVars,
        stateVars, Unjoined
  <2> QED  BY <2>4, <2>5, <2>6, <2>7, <2>8
<1>9. CASE JoinBatch \/ EndScan
  <2>1. /\ phase = "answered" /\ phase' = "idle" /\ scan = "running"
        /\ UNCHANGED <<torn, lost, given, raw, accumulated, finished>>
    BY <1>4, <1>9 DEF JoinBatch, EndScan, historyVars, stateVars, callVars
  <2>2. Unjoined' = <<>> /\ Shown' = Shown /\ Shown = raw \cup lost
    BY <2>1 DEF Unjoined, Shown, Pending
  <2>3. AllShown' = AllShown  BY <1>1, <2>2 DEF AllShown
  <2>4. CASE EndScan
    <3>1. /\ answer.kind # "frame" /\ acc' = acc
          /\ scan' = IF answer.kind = "none" THEN "done" ELSE "failed"
      BY <2>4 DEF EndScan
    <3>2. CASE answer.kind = "none"
      <4>1. ~ Broken /\ AllShown  BY <2>1, <3>2 DEF Broken, IInv, EndsAccounted, Ended
      <4>2. Unjoined = <<>>  BY <3>2 DEF Unjoined
      <4> QED  BY <1>1, <1>2, <1>4, <1>5, <2>1, <2>2, <2>3, <3>1, <3>2, <4>1, <4>2 DEF ScanLoop
    <3>3. CASE answer.kind # "none"
      BY <1>1, <1>4, <1>5, <2>1, <2>2, <3>1, <3>3 DEF ScanLoop, Broken
    <3> QED  BY <3>2, <3>3
  <2>5. CASE JoinBatch
    <3>1. /\ answer.kind = "frame" /\ Unjoined = answer.frame.rows /\ ~ Broken
      BY <2>1, <2>5 DEF JoinBatch, Unjoined, Broken
    <3>2. given = acc.rows \o answer.frame.rows /\ ~ torn /\ lost = {}
      BY <1>4, <2>1, <3>1
    <3>3. CASE answer.frame.columns = {}
      <4>1. answer.frame.rows = <<>>  BY <3>3 DEF ScanInv, ScanFrames
      <4>2. given = acc.rows  BY <1>2, <3>2, <4>1
      <4>3. UNCHANGED <<scan, acc>>  BY <2>5, <3>3 DEF JoinBatch, callerVars
      <4> QED  BY <1>1, <1>2, <1>4, <1>5, <2>1, <2>2, <3>2, <4>2, <4>3 DEF ScanLoop
    <3>4. CASE scan' = "failed"
      BY <1>1, <1>4, <1>5, <2>1, <2>2, <3>2, <3>4 DEF ScanLoop
    <3>5. CASE answer.frame.columns # {} /\ scan' # "failed"
      <4>1. /\ acc' = Joined
            /\ scan' = IF opts.n_rows # None /\ Len(Joined.rows) >= opts.n_rows
                       THEN "done" ELSE "running"
        BY <2>5, <3>5 DEF JoinBatch
      <4>2. acc'.rows = given
        <5>1. CASE acc = NoFrame
          <6>1. acc' = answer.frame /\ acc.rows = <<>>  BY <4>1, <5>1 DEF Joined, NoFrame
          <6> QED  BY <1>2, <3>2, <6>1
        <5>2. CASE acc # NoFrame
          <6>1. acc' = [acc EXCEPT !.rows = acc.rows \o answer.frame.rows]
            BY <4>1, <5>2 DEF Joined
          <6> QED  BY <1>1, <3>2, <6>1 DEF FrameSet
        <5> QED  BY <5>1, <5>2
      <4>3. acc'.rows \o <<>> = acc'.rows  BY <1>2, <4>2
      <4>4. scan' = "done" => AllShown
        <5> SUFFICES ASSUME scan' = "done" PROVE AllShown  OBVIOUS
        <5>1. opts.n_rows # None /\ Len(given) >= opts.n_rows  BY <4>1, <4>2
        <5>2. opts.n_rows \in Nat  BY <1>1, <5>1 DEF TypeOK
        <5>3. /\ Len(given) \in Nat /\ Cardinality(raw) \in Nat
              /\ Len(given) <= Cardinality(raw)
          BY <1>1, GivenCounted
        <5>4. Shown = raw  BY <2>2, <3>2
        <5>5. Cardinality(Shown) >= opts.n_rows  BY <5>1, <5>2, <5>3, <5>4
        <5> QED  BY <5>1, <5>5 DEF AllShown
      <4> QED  BY <1>1, <1>4, <1>5, <2>1, <2>2, <2>3, <3>2, <4>1, <4>2, <4>3, <4>4 DEF ScanLoop
    <3> QED  BY <3>3, <3>4, <3>5
  <2> QED  BY <1>9, <2>4, <2>5
<1>10. ~ Pulled  BY DEF Pulled
<1> QED  BY <1>6, <1>7, <1>8, <1>9, <1>10 DEF Next, Caller

LEMMA ScanUniformKept ==
  ASSUME IInv, IInv', GivenBehind, ScanInv, ScanFrames', [Next]_vars
  PROVE  ScanUniform'
<1>1. /\ TypeOK /\ text' = text /\ opts' = opts /\ faults' = faults
      /\ Accepted' = Accepted /\ Uniform' = Uniform /\ BatchSize' = BatchSize
      /\ \A i : ColumnsOf(i)' = ColumnsOf(i)
      /\ acc \in FrameSet /\ answer.frame \in FrameSet /\ given \in Seq(Rows)
  BY ScannedStays DEF IInv, ScanInv, ScanFrames, GivenBehind
<1> SUFFICES ASSUME opts.caller = "scan", Uniform PROVE ScanUniform'
  BY <1>1 DEF ScanUniform
<1> DEFINE Blamed == faults # {} \/ \E i \in Accepted : ~ Asked(text[i].keys)
           Columned(frame) == \E i \in Accepted : frame.columns = ColumnsOf(i)
<1>2. /\ Ids(given) = Passing(raw)
      /\ BatchSize # 0 => /\ phase = "answered" /\ answer.kind = "frame" => Columned(answer.frame)
                          /\ acc # NoFrame => Columned(acc)
                          /\ Broken => Blamed
      /\ phase # "idle" => scan = "running"
      /\ torn \/ lost # {} => Broken
  BY DEF ScanInv, ScanUniform, ScanLoop
<1>3. /\ Passing(raw)' = Passing(raw') /\ Ids(given)' = Ids(given') /\ Blamed' = Blamed
      /\ \A S, T : Passing(S \cup T) = Passing(S) \cup Passing(T)
  BY <1>1 DEF Passing, Ids, Asked
<1>4. ScanUniform' <=>
        /\ Ids(given') = Passing(raw')
        /\ BatchSize # 0 =>
             /\ phase' = "answered" /\ answer'.kind = "frame" => Columned(answer'.frame)
             /\ acc' # NoFrame => Columned(acc')
             /\ Broken' => Blamed
  BY <1>1, <1>3 DEF ScanUniform, Asked, NoFrame
<1> HIDE DEF Blamed, Columned
<1>5. CASE UNCHANGED vars
  <2>1. UNCHANGED <<scan, phase, given, acc, raw, answer>>
    BY <1>5 DEF vars, callerVars, historyVars
  <2>2. Broken' = Broken  BY <2>1 DEF Broken
  <2> QED  BY <1>2, <1>4, <2>1, <2>2
<1>6. CASE Call
  <2>1. /\ phase' = "batch" /\ scan = "running" /\ UNCHANGED <<scan, acc, given, raw>>
    BY <1>6 DEF Call, callerVars, historyVars
  <2>2. ~ Broken'  BY <2>1 DEF Broken
  <2> QED  BY <1>2, <1>4, <2>1, <2>2
<1>7. CASE Batch
  <2>1. phase \in {"batch", "open", "parse", "flush"} /\ scan' = scan /\ acc' = acc
    BY <1>7
    DEF Batch, AnswerFinished, callerVars, Reads,
        ParallelFrameAnswered, ParallelFailed, SingleBatch, OpenReader, SkipLine, RejectRow,
        KeepRow, BadLine, ReadFails, AnswerNone, EndBatch, AnswerNoSchema, AnswerBatch,
        AnswerFlushError, Abandon
  <2>2. scan = "running" /\ ~ Broken  BY <1>2, <2>1 DEF Broken
  <2>3. Broken' => phase' = "answered" /\ answer'.kind = "error"  BY <2>1, <2>2 DEF Broken
  <2>4. CASE AnswerBatch
    <3> DEFINE df == Filled(accumulated)
               frame == Pushed(df)
    <3>1. /\ phase = "flush" /\ answer' = [kind |-> "frame", frame |-> frame]
          /\ given' = given \o frame.rows /\ raw' = raw \cup Pending /\ Asked(df.columns)
      BY <2>4 DEF AnswerBatch, Answer, Pending
    <3>2. /\ frame \in FrameSet /\ Ids(frame.rows) = Passing(Pending)
          /\ BatchSize # 0 => Columned(frame)
      BY <3>1, BatchFrame DEF ScanInv, Columned
    <3> HIDE DEF frame, df
    <3>3. PICK s \in Seq(Rows) : s = frame.rows  BY <3>2 DEF FrameSet
    <3>4. Ids(given') = Ids(given) \cup Ids(frame.rows)  BY <1>1, <3>1, <3>3, IdsJoined
    <3> QED  BY <1>2, <1>3, <1>4, <2>1, <2>3, <3>1, <3>2, <3>4
  <2>5. CASE ParallelFrameAnswered
    <3>1. PICK T \in Claims \ {{}} :
            LET columns == UNION {text[i].keys : i \in T}
                frame == Pushed([columns |-> columns, rows |-> InOrderOfText(T)])
            IN  /\ Asked(columns) /\ Answer("frame", frame)
                /\ raw' = raw \cup T /\ given' = given \o frame.rows
      BY <2>5 DEF ParallelFrameAnswered
    <3> DEFINE columns == UNION {text[i].keys : i \in T}
               frame == Pushed([columns |-> columns, rows |-> InOrderOfText(T)])
    <3>2. /\ answer' = [kind |-> "frame", frame |-> frame] /\ Asked(columns)
          /\ raw' = raw \cup T /\ given' = given \o frame.rows
      BY <3>1 DEF Answer
    <3>3. /\ frame \in FrameSet /\ Ids(frame.rows) = Passing(T) /\ Columned(frame)
      BY <1>1, <3>2, TextFrame DEF Columned
    <3> HIDE DEF frame, columns
    <3>4. PICK s \in Seq(Rows) : s = frame.rows  BY <3>3 DEF FrameSet
    <3>5. Ids(given') = Ids(given) \cup Ids(frame.rows)  BY <1>1, <3>2, <3>4, IdsJoined
    <3> QED  BY <1>2, <1>3, <1>4, <2>1, <2>3, <3>2, <3>3, <3>5
  <2>6. CASE UNCHANGED <<given, raw>> /\ phase' = "answered" /\ answer'.kind = "error"
             /\ (BatchSize # 0 => Blamed)
    BY <1>2, <1>4, <2>1, <2>6
  <2>7. CASE UNCHANGED <<given, raw>> /\ ~ (phase' = "answered" /\ answer'.kind \in {"error", "frame"})
    BY <1>2, <1>4, <2>1, <2>3, <2>7
  <2>8. CASE ParallelFailed
    <3>1. UNCHANGED <<given, raw>> /\ phase' = "answered" /\ answer'.kind = "error"
      BY <2>8 DEF ParallelFailed, Answer, historyVars
    <3>2. Blamed  BY <2>8 DEF ParallelFailed, Blamed
    <3> QED  BY <2>6, <3>1, <3>2
  <2>9. CASE OpenReader
    <3>1. UNCHANGED <<given, raw>>  BY <2>9 DEF OpenReader, historyVars
    <3>2. CASE phase' = "parse"  BY <2>7, <3>1, <3>2
    <3>3. CASE phase' # "parse"
      <4>1. phase' = "answered" /\ answer'.kind = "error" /\ Blamed
        BY <2>9, <3>3 DEF OpenReader, Answer, Blamed
      <4> QED  BY <2>6, <3>1, <4>1
    <3> QED  BY <3>2, <3>3
  <2>10. CASE BadLine
    <3>1. Reads /\ \E l \in NextLines : l.kind = "bad"  BY <2>10 DEF BadLine
    <3>2. text[reader + 1].kind = "bad"  BY <3>1, WholeLine DEF ScanInv
    <3>3. reader + 1 \in DOMAIN text  BY <1>1, <3>1, ReadLine, Typed
    <3> QED  BY <3>2, <3>3 DEF Uniform
  <2>11. CASE ReadFails
    <3>1. UNCHANGED <<given, raw>> /\ phase' = "answered" /\ answer'.kind = "error"
      BY <2>11 DEF ReadFails, Abandon, Answer
    <3>2. Blamed  BY <2>11 DEF ReadFails, Blamed
    <3> QED  BY <2>6, <3>1, <3>2
  <2>12. CASE AnswerFlushError
    <3>1. /\ UNCHANGED <<given, raw>> /\ phase' = "answered" /\ answer'.kind = "error"
          /\ phase = "flush" /\ ~ Asked(Filled(accumulated).columns)
      BY <2>12 DEF AnswerFlushError, Abandon, Answer
    <3>2. ASSUME BatchSize # 0 PROVE Blamed
      <4>1. PICK i \in Accepted : Filled(accumulated).columns = text[i].keys
        BY <3>1, <3>2, BatchFrame DEF ScanInv
      <4> QED  BY <3>1, <4>1 DEF Blamed
    <3> QED  BY <2>6, <3>1, <3>2
  <2>13. CASE AnswerFinished \/ SingleBatch \/ SkipLine \/ RejectRow \/ KeepRow \/ AnswerNone
              \/ EndBatch \/ AnswerNoSchema
    <3>1. UNCHANGED <<given, raw>>
          /\ ~ (phase' = "answered" /\ answer'.kind \in {"error", "frame"})
      BY <2>1, <2>13
      DEF AnswerFinished, SingleBatch, SkipLine, RejectRow, KeepRow, AnswerNone, EndBatch,
          AnswerNoSchema, Answer, historyVars
    <3> QED  BY <2>7, <3>1
  <2> QED  BY <1>7, <2>4, <2>5, <2>8, <2>9, <2>10, <2>11, <2>12, <2>13 DEF Batch
<1>8. CASE JoinBatch
  <2>1. /\ phase = "answered" /\ answer.kind = "frame" /\ phase' = "idle"
        /\ UNCHANGED <<given, raw>>
    BY <1>8 DEF JoinBatch, historyVars
  <2>2. scan = "running" /\ ~ Broken  BY <1>2, <2>1 DEF Broken
  <2>3. CASE BatchSize = 0  BY <1>2, <1>4, <2>1, <2>3
  <2>4. CASE BatchSize # 0
    <3>1. Columned(answer.frame) /\ (acc # NoFrame => Columned(acc))  BY <1>2, <2>1, <2>4
    <3>2. acc # NoFrame => acc.columns = answer.frame.columns
      BY <3>1 DEF Columned, ColumnsOf, Uniform
    <3>3. scan' # "failed"  BY <1>8, <2>2, <3>2 DEF JoinBatch, callerVars
    <3>4. acc' = acc \/ acc' = Joined  BY <1>8, <3>2 DEF JoinBatch, callerVars
    <3>5. acc' # NoFrame => Columned(acc')
      <4>1. CASE acc' = acc  BY <3>1, <4>1
      <4>2. CASE acc' = Joined /\ acc = NoFrame  BY <3>1, <4>2 DEF Joined
      <4>3. CASE acc' = Joined /\ acc # NoFrame
        <5>1. acc' = [acc EXCEPT !.rows = acc.rows \o answer.frame.rows]  BY <4>3 DEF Joined
        <5>2. acc'.columns = acc.columns  BY <1>1, <5>1 DEF FrameSet
        <5> QED  BY <3>1, <4>3, <5>2 DEF Columned
      <4> QED  BY <3>4, <4>1, <4>2, <4>3
    <3>6. ~ Broken'  BY <2>1, <3>3 DEF Broken
    <3> QED  BY <1>2, <1>4, <2>1, <3>5, <3>6
  <2> QED  BY <2>3, <2>4
<1>9. CASE EndScan
  <2>1. /\ phase = "answered" /\ phase' = "idle" /\ UNCHANGED <<given, raw, acc>>
        /\ scan' = IF answer.kind = "none" THEN "done" ELSE "failed"
        /\ answer.kind # "frame"
    BY <1>9 DEF EndScan, historyVars
  <2>2. answer.kind # "none" => answer.kind = "error"  BY <2>1 DEF ScanInv, ScanFrames
  <2>3. Broken' => Broken  BY <2>1, <2>2 DEF Broken
  <2> QED  BY <1>2, <1>4, <2>1, <2>3
<1>10. ~ Pulled  BY DEF Pulled
<1> QED  BY <1>5, <1>6, <1>7, <1>8, <1>9, <1>10 DEF Next, Caller

LEMMA InitScan == Init => ScanInv
<1> SUFFICES ASSUME Init PROVE ScanInv  OBVIOUS
<1>1. /\ phase = "idle" /\ raw = {} /\ given = <<>> /\ lost = {} /\ ~ torn
      /\ scan = "running" /\ acc = NoFrame /\ answer = [kind |-> "none", frame |-> NoFrame]
  BY DEF Init
<1>2. Ids(given) = {} /\ Unjoined = <<>> /\ ~ Broken /\ Keyed(raw) = {} /\ Passing(raw) = {}
  BY <1>1 DEF Ids, Unjoined, Broken, Keyed, Passing
<1>3. BatchKeys  BY <1>1 DEF BatchKeys
<1>4. ScanFrames  BY <1>1, NoFrameTyped DEF ScanFrames
<1>5. given = acc.rows \o Unjoined  BY <1>1, <1>2, NoFrameTyped
<1>6. ScanLoop  BY <1>1, <1>2, <1>5 DEF ScanLoop
<1>7. ScanUniform  BY <1>1, <1>2 DEF ScanUniform
<1> QED  BY <1>3, <1>4, <1>6, <1>7 DEF ScanInv

LEMMA NextScan ==
  ASSUME IInv, IInv', GivenBehind, GivenBehind', ScanInv, [Next]_vars
  PROVE  ScanInv'
<1>1. BatchKeys' /\ ScanFrames'  BY BatchKeysKept, ScanFramesKept
<1>2. ScanLoop' /\ ScanUniform'  BY <1>1, ScanLoopKept, ScanUniformKept
<1> QED  BY <1>1, <1>2 DEF ScanInv

(* The loop of scan() keeps account of every batch it is answered.         *)
THEOREM Scanned == Spec => []ScanInv
BY InitScan, NextScan, Inductive, Behind, PTL DEF Spec

(* The first lines that are kept, as many as the slice has.                *)
LEMMA PrefixIsSlice ==
  ASSUME TypeOK, NEW S \in SUBSET Kept,
         \A i \in S, j \in Kept : j <= i => j \in S,
         opts.n_rows # None => Cardinality(S) <= opts.n_rows,
         Kept \subseteq S \/ (opts.n_rows # None /\ Cardinality(S) >= opts.n_rows)
  PROVE  S = Slice
<1> DEFINE before(i) == {j \in Kept : j < i}
<1>1. Kept \in SUBSET (1..Len(text)) /\ (opts.n_rows # None => opts.n_rows \in Nat)
  BY Typed DEF TypeOK
<1>2. Cardinality(S) \in Nat /\ S \in SUBSET (1..Len(text))  BY <1>1, LinesCounted
<1>3. ASSUME NEW i \in S PROVE i \in Slice
  <2> SUFFICES ASSUME opts.n_rows # None PROVE Cardinality(before(i)) < opts.n_rows
    BY DEF Slice
  <2>1. before(i) \in SUBSET S /\ i \notin before(i)
    <3>1. i \in Nat /\ \A j \in Kept : j \in Nat  BY <1>1
    <3>2. ASSUME NEW j \in Kept, j < i PROVE j \in S
      <4>1. j <= i  BY <3>1, <3>2
      <4> QED  BY <4>1
    <3>3. ~ (i < i)  BY <3>1
    <3>4. before(i) \subseteq S  BY <3>2
    <3> QED  BY <3>3, <3>4
  <2>2. IsFiniteSet(S)
    <3>1. IsFiniteSet(1..Len(text))
      <4>1. Len(text) \in Nat  BY Typed
      <4> QED  BY <4>1, FS_Interval
    <3> QED  BY <1>2, <3>1, FS_Subset
  <2>3. Cardinality(before(i)) <= Cardinality(S) /\ Cardinality(before(i)) # Cardinality(S)
    BY <2>1, <2>2, FS_Subset
  <2>4. Cardinality(before(i)) \in Nat  BY <1>2, <2>1, LinesCounted
  <2> QED  BY <1>1, <1>2, <2>3, <2>4
<1>4. ASSUME NEW i \in Slice, i \notin S PROVE FALSE
  <2>1. i \in Kept  BY DEF Slice
  <2>2. opts.n_rows # None /\ Cardinality(S) >= opts.n_rows  BY <1>4, <2>1
  <2>3. S \in SUBSET before(i) /\ before(i) \in SUBSET (1..Len(text))
    <3>1. ASSUME NEW j \in S PROVE j < i
      <4>1. j \in Nat /\ i \in Nat /\ ~ (i <= j)  BY <1>1, <1>4, <2>1
      <4> QED  BY <4>1
    <3> QED  BY <1>1, <3>1
  <2>4. Cardinality(S) <= Cardinality(before(i)) /\ Cardinality(before(i)) \in Nat
    BY <2>3, LinesCounted
  <2>5. Cardinality(before(i)) < opts.n_rows  BY <2>2 DEF Slice
  <2> QED  BY <1>1, <1>2, <2>2, <2>4, <2>5
<1> QED  BY <1>3, <1>4 DEF Slice

(* What lies behind the result of a scan that is done.                     *)
LEMMA DoneScan ==
  ASSUME IInv, GivenBehind, ScanInv, opts.caller = "scan", scan = "done", BatchSize # 0
  PROVE  /\ Result.rows = given
         /\ raw = Slice \/ (opts.parallel /\ raw \in Claims)
<1>1. /\ TypeOK /\ phase = "idle" /\ Pending = {} /\ lost = {} /\ ~ torn
      /\ given = acc.rows \o Unjoined /\ AllShown /\ acc \in FrameSet
  BY DEF IInv, ScanInv, ScanLoop, ScanFrames, Broken, Pending
<1>2. given = acc.rows /\ Shown = raw
  BY <1>1 DEF Unjoined, Shown, FrameSet
<1>3. Result.rows = given
  <2>1. Len(given) <= Cardinality(raw) /\ Len(given) \in Nat /\ Cardinality(raw) \in Nat
    BY <1>1, GivenCounted
  <2>2. opts.n_rows # None => Cardinality(raw) <= opts.n_rows /\ opts.n_rows \in Nat
    BY <1>1 DEF IInv, SliceCounted, TypeOK
  <2>3. ~ (opts.n_rows # None /\ Len(acc.rows) > opts.n_rows)  BY <1>2, <2>1, <2>2
  <2> QED  BY <1>2, <2>3 DEF Result
<1>4. CASE reader = None /\ finished  BY <1>3, <1>4 DEF GivenBehind
<1>5. CASE ~ (reader = None /\ finished)
  <2>1. raw \in SUBSET Kept /\ Kept \subseteq Nat
    <3>1. reader # None => raw \subseteq Kept  BY DEF GivenBehind
    <3>2. reader = None => raw = {}  BY <1>5 DEF GivenBehind
    <3> QED  BY <1>1, <3>1, <3>2, Typed
  <2>2. ASSUME NEW i \in raw, NEW j \in Kept, j <= i PROVE j \in raw
    <3>1. reader # None  BY <1>5 DEF GivenBehind
    <3>2. i <= reader  BY <3>1 DEF GivenBehind
    <3>3. reader \in Nat
      <4>1. Len(text) \in Nat  BY <1>1, Typed
      <4> QED  BY <1>1, <3>1, <4>1 DEF TypeOK
    <3>4. i \in Nat /\ j \in Nat  BY <2>1
    <3>5. j <= reader  BY <2>2, <3>2, <3>3, <3>4
    <3> QED  BY <1>2, <3>1, <3>5 DEF IInv, Accounted
  <2>3. opts.n_rows # None => Cardinality(raw) <= opts.n_rows  BY DEF IInv, SliceCounted
  <2>4. Kept \subseteq raw \/ (opts.n_rows # None /\ Cardinality(raw) >= opts.n_rows)
    BY <1>1, <1>2 DEF AllShown
  <2>5. raw = Slice  BY <1>1, <2>1, <2>2, <2>3, <2>4, PrefixIsSlice
  <2> QED  BY <1>3, <2>5
<1> QED  BY <1>4, <1>5

(* A scan of a text whose lines all carry the same keys returns the lines  *)
(* that pass, in their order, whatever the batch size, and fails only by a *)
(* fault or for a column no line has.                                      *)
THEOREM UniformScanExact == Spec => []ScanExact
<1>1. ASSUME IInv, GivenBehind, ScanInv PROVE ScanExact
  <2> SUFFICES ASSUME opts.caller = "scan", Uniform, BatchSize # 0 PROVE ScanExact
    BY DEF ScanExact
  <2>1. /\ Ids(given) = Passing(raw)
        /\ Broken => faults # {} \/ \E i \in Accepted : ~ Asked(text[i].keys)
    BY <1>1 DEF ScanInv, ScanUniform
  <2>2. scan = "failed" => faults # {} \/ \E i \in Accepted : ~ Asked(text[i].keys)
    BY <2>1 DEF Broken
  <2>3. ASSUME scan = "done"
        PROVE  /\ \A i, j \in DOMAIN Result.rows :
                    i < j => Result.rows[i].id < Result.rows[j].id
               /\ \/ Ids(Result.rows) = Passing(Slice)
                  \/ opts.parallel /\ \E T \in Claims : Ids(Result.rows) = Passing(T)
    <3>1. Result.rows = given /\ (raw = Slice \/ (opts.parallel /\ raw \in Claims))
      BY <1>1, <2>3, DoneScan
    <3>2. \A i, j \in DOMAIN given : i < j => given[i].id < given[j].id
      BY <1>1 DEF GivenBehind, Ascending
    <3> QED  BY <2>1, <3>1, <3>2
  <2> QED  BY <2>2, <2>3 DEF ScanExact
<1> QED  BY <1>1, Inductive, Behind, Scanned, PTL

(* A scan that reads line by line and does not fail returns every line     *)
(* that has a key and is within the slice, and no line beyond it.          *)
THEOREM ScanKeepsKeyedRows == Spec => []KeyedRowsKept
<1>1. ASSUME IInv, GivenBehind, ScanInv PROVE KeyedRowsKept
  <2> SUFFICES ASSUME scan = "done", ~ opts.parallel, BatchSize # 0, opts.predicate = None
               PROVE  /\ {i \in Slice : text[i].keys # {}} \subseteq Ids(Result.rows)
                      /\ Ids(Result.rows) \subseteq Slice
    BY DEF KeyedRowsKept
  <2>1. opts.caller = "scan"  BY <1>1 DEF ScanInv, ScanLoop
  <2>2. Result.rows = given /\ raw = Slice  BY <1>1, <2>1, DoneScan
  <2>3. Keyed(raw) \subseteq Ids(given) /\ Ids(given) \subseteq raw
    BY <1>1, <2>1 DEF ScanInv, ScanLoop, GivenBehind
  <2> QED  BY <2>2, <2>3 DEF Keyed
<1> QED  BY <1>1, Inductive, Behind, Scanned, PTL
=============================================================================
