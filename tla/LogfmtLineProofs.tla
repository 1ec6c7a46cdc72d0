-------------------------- MODULE LogfmtLineProofs --------------------------
(***************************************************************************)
(* The slices and the pairs of LogfmtLine, for every line.                 *)
(***************************************************************************)
EXTENDS LogfmtLine, TLAPS, WellFoundedInduction

LEMMA LineFacts ==
  ASSUME TypeOK
  PROVE  /\ n \in Nat
         /\ \A k \in 0..(n - 1) : At(k) \in Bytes
         /\ i \in Nat /\ key \in Slice /\ value \in Slice
         /\ key.from \in Nat /\ key.to \in Nat /\ value.from \in Nat /\ value.to \in Nat
         /\ \A j \in 1..Len(pairs) :
              /\ pairs[j] \in [key : Slice, value : Slice]
              /\ pairs[j].key.from \in Nat /\ pairs[j].key.to \in Nat
              /\ pairs[j].value.from \in Nat /\ pairs[j].value.to \in Nat
<1>1. n \in Nat /\ i \in Nat  BY DEF TypeOK, n
<1>2. \A k \in 0..(n - 1) : At(k) \in Bytes
  <2>1. \A k \in 0..(n - 1) : k + 1 \in 1..Len(line)  BY <1>1 DEF n
  <2> QED  BY <2>1 DEF TypeOK, At
<1>3. /\ key \in Slice /\ value \in Slice
      /\ key.from \in Nat /\ key.to \in Nat /\ value.from \in Nat /\ value.to \in Nat
  BY DEF TypeOK, Slice
<1>4. \A j \in 1..Len(pairs) :
        /\ pairs[j] \in [key : Slice, value : Slice]
        /\ pairs[j].key.from \in Nat /\ pairs[j].key.to \in Nat
        /\ pairs[j].value.from \in Nat /\ pairs[j].value.to \in Nat
  <2> DEFINE Pairs == [key : Slice, value : Slice]
  <2>1. \A j \in 1..Len(pairs) : pairs[j] \in Pairs
    <3>1. pairs \in Seq(Pairs)  BY DEF TypeOK
    <3> HIDE DEF Pairs
    <3> QED  BY <3>1
  <2>2. \A p \in Pairs :
          p.key.from \in Nat /\ p.key.to \in Nat /\ p.value.from \in Nat /\ p.value.to \in Nat
    BY DEF Slice
  <2> QED  BY <2>1, <2>2
<1> QED  BY <1>1, <1>2, <1>3, <1>4

(* A byte that is no part of a longer character ends one: behind it is     *)
(* the start of the next.                                                  *)
LEMMA BehindSingle ==
  ASSUME TypeOK, NEW k \in Nat, k < n, At(k) \notin {"lead", "cont"}
  PROVE  Boundary(k) /\ Boundary(k + 1)
<1>1. n \in Nat  BY LineFacts
<1>2. Boundary(k)  BY <1>1 DEF Boundary
<1>3. ASSUME k + 1 < n PROVE At(k + 1) # "cont"
  <2>1. k + 2 \in 1..Len(line) /\ (k + 2) - 1 = k + 1  BY <1>1, <1>3 DEF n
  <2>2. line[k + 2] = "cont" => line[k + 1] \in {"lead", "cont"}
    BY <2>1 DEF TypeOK, IsUtf8
  <2>3. At(k) = line[k + 1] /\ At(k + 1) = line[k + 2]  BY DEF At
  <2> QED  BY <2>2, <2>3
<1> QED  BY <1>1, <1>2, <1>3 DEF Boundary

(* Where a stretch that does not stop at a character's inside ends, a      *)
(* character begins.                                                       *)
LEMMA ReachesBoundary ==
  ASSUME TypeOK, NEW from \in Nat, NEW k \in from..n,
         NEW stop \in SUBSET {"ws", "eq", "quote", "bsl", "char"},
         Reaches(from, k, stop)
  PROVE  Boundary(k)
  BY LineFacts DEF Reaches, Boundary

(* Behind whitespace, where the parser stands between two characters, it   *)
(* still does.                                                             *)
LEMMA SpaceBoundary ==
  ASSUME TypeOK, NEW from \in Nat, Boundary(from), NEW k \in from..n,
         Reaches(from, k, NoSpace)
  PROVE  Boundary(k)
<1>1. n \in Nat  BY LineFacts
<1>2. CASE k = from  BY <1>2
<1>3. CASE k > from
  <2>1. k - 1 \in from..(k - 1) /\ k - 1 \in Nat /\ k - 1 < n /\ k - 1 \in 0..(n - 1)
    BY <1>1, <1>3
  <2>2. At(k - 1) \notin NoSpace  BY <2>1 DEF Reaches
  <2>3. At(k - 1) = "ws"  BY <2>1, <2>2, LineFacts DEF NoSpace
  <2> QED  BY <2>1, <2>3, BehindSingle
<1> QED  BY <1>1, <1>2, <1>3

(* The pairs that were there stay sound while no pair is added.            *)
LEMMA PairsKept ==
  ASSUME IInv, UNCHANGED <<line, pairs>>
  PROVE  /\ SlicesSound'
         /\ (pairs # <<>>)' = (pairs # <<>>)
         /\ n' = n /\ \A k : At(k)' = At(k)
  BY DEF IInv, SlicesSound, Sound, Boundary, n, At

(* A pair added behind the others, with sound slices, keeps all sound.     *)
LEMMA PairAdded ==
  ASSUME IInv, line' = line, NEW v \in Slice, Sound(v), key.to < v.from,
         Sound(key), key.from < key.to, Emitted(key.from),
         pairs' = Append(pairs, [key |-> key, value |-> v])
  PROVE  /\ SlicesSound' /\ pairs' \in Seq([key : Slice, value : Slice])
         /\ pairs' # <<>> /\ pairs'[Len(pairs')].value.to = v.to
<1> DEFINE new == [key |-> key, value |-> v]
<1>1. pairs \in Seq([key : Slice, value : Slice]) /\ new \in [key : Slice, value : Slice]
  BY DEF IInv, TypeOK
<1>2. /\ Len(pairs') = Len(pairs) + 1 /\ Len(pairs) \in Nat
      /\ pairs'[Len(pairs) + 1] = new
      /\ \A k \in 1..Len(pairs) : pairs'[k] = pairs[k]
      /\ pairs' \in Seq([key : Slice, value : Slice])
  BY <1>1
<1>3. pairs' # <<>>  BY <1>2
<1>4. n' = n /\ \A k : At(k)' = At(k)  BY DEF n, At
<1>5. ASSUME NEW k \in 1..Len(pairs')
      PROVE  /\ Sound(pairs[k].key)' /\ (pairs[k].key.from < pairs[k].key.to)'
             /\ Sound(pairs[k].value)' /\ (pairs[k].key.to < pairs[k].value.from)'
             /\ (k > 1 => pairs[k - 1].value.to <= pairs[k].key.from)'
  <2>1. CASE k \in 1..Len(pairs)
    <3>1. pairs'[k] = pairs[k] /\ (k > 1 => pairs'[k - 1] = pairs[k - 1])  BY <1>2, <2>1
    <3>2. /\ Sound(pairs[k].key) /\ pairs[k].key.from < pairs[k].key.to
          /\ Sound(pairs[k].value) /\ pairs[k].key.to < pairs[k].value.from
          /\ k > 1 => pairs[k - 1].value.to <= pairs[k].key.from
      BY <2>1 DEF IInv, SlicesSound
    <3> QED  BY <1>4, <3>1, <3>2 DEF Sound, Boundary
  <2>2. CASE k = Len(pairs) + 1
    <3>1. pairs'[k] = new  BY <1>2, <2>2
    <3>2. pairs'[k].key = key /\ pairs'[k].value = v  BY <3>1
    <3>3. ASSUME k > 1 PROVE pairs'[k - 1].value.to <= key.from
      <4>1. Len(pairs) \in 1..Len(pairs) /\ k - 1 = Len(pairs)  BY <1>2, <2>2, <3>3
      <4>2. pairs # <<>>  BY <4>1
      <4>3. pairs'[k - 1] = pairs[Len(pairs)]  BY <1>2, <4>1
      <4> QED  BY <4>2, <4>3 DEF Emitted
    <3> QED  BY <1>4, <3>2, <3>3 DEF Sound, Boundary
  <2> QED  BY <1>2, <2>1, <2>2
<1>6. SlicesSound'  BY <1>5 DEF SlicesSound
<1>7. pairs'[Len(pairs')].value.to = v.to  BY <1>2
<1> QED  BY <1>2, <1>3, <1>6, <1>7

(* What is emitted before an offset is emitted before a later one.         *)
LEMMA EmittedFurther ==
  ASSUME TypeOK, NEW a \in Nat, Emitted(a), NEW b \in Nat, a <= b
  PROVE  Emitted(b)
<1> SUFFICES ASSUME pairs # <<>> PROVE pairs[Len(pairs)].value.to <= b  BY DEF Emitted
<1>1. Len(pairs) \in 1..Len(pairs)  BY DEF TypeOK
<1>2. pairs[Len(pairs)].value.to \in Nat  BY <1>1, LineFacts
<1> QED  BY <1>2 DEF Emitted

-----------------------------------------------------------------------------
LEMMA DoneInv == ASSUME IInv, Done PROVE IInv'
<1>1. TypeOK'  BY DEF IInv, TypeOK, Done
<1>2. SlicesSound'  BY PairsKept DEF Done
<1> QED  BY <1>1, <1>2 DEF IInv, Between, Done

LEMMA SkipSpaceInv == ASSUME IInv, SkipSpace PROVE IInv'
<1>0. TypeOK /\ n \in Nat /\ i \in Nat  BY LineFacts DEF IInv
<1>1. PICK k \in i..n : Reaches(i, k, NoSpace) /\ i' = k  BY DEF SkipSpace
<1>2. /\ line' = line /\ key' = key /\ value' = value /\ pairs' = pairs /\ n' = n
      /\ pc = "token" /\ i < n /\ pc' = IF k = n THEN "done" ELSE "key"
  BY <1>1 DEF SkipSpace, n
<1>3. Boundary(i) /\ Emitted(i)  BY <1>0, <1>2 DEF IInv, Between, LeastOf
<1>4. Boundary(k)  BY <1>0, <1>1, <1>3, SpaceBoundary
<1>5. k < n => At(k) # "ws"  BY <1>1 DEF Reaches, NoSpace
<1>6. TypeOK'  BY <1>0, <1>1, <1>2 DEF TypeOK
<1>7. SlicesSound'  BY <1>2, PairsKept
<1>8. Boundary(i)' /\ (k < n => At(i)' # "ws")  BY <1>1, <1>2, <1>4, <1>5 DEF Boundary, At
<1>9. Emitted(i)'  BY <1>0, <1>1, <1>2, <1>3, EmittedFurther DEF Emitted
<1>10. Between'  BY <1>0, <1>1, <1>2, <1>8, <1>9 DEF Between
<1> QED  BY <1>6, <1>7, <1>10 DEF IInv

LEMMA TakeKeyInv == ASSUME IInv, TakeKey PROVE IInv'
<1>0. TypeOK /\ n \in Nat /\ i \in Nat  BY LineFacts DEF IInv
<1>1. PICK k \in i..n : Reaches(i, k, {"eq", "ws"}) /\ i' = k  BY DEF TakeKey
<1>2. /\ line' = line /\ value' = value /\ pairs' = pairs /\ n' = n
      /\ pc = "key" /\ At(i) # "eq" /\ pc' = "eq" /\ key' = [from |-> i, to |-> k]
  BY <1>1 DEF TakeKey, n
<1>3. i < n /\ Boundary(i) /\ At(i) # "ws" /\ Emitted(i)  BY <1>2 DEF IInv, Between
<1>4. k # i  BY <1>1, <1>2, <1>3 DEF Reaches
<1>5. i < k /\ k <= n /\ k \in Nat  BY <1>0, <1>1, <1>4
<1>6. Boundary(k)  BY <1>0, <1>1, ReachesBoundary
<1>7. TypeOK'  BY <1>0, <1>1, <1>2, <1>5 DEF TypeOK, Slice
<1>8. SlicesSound'  BY <1>2, PairsKept
<1>9. Sound(key)' /\ Emitted(key.from)'
  BY <1>2, <1>3, <1>5, <1>6 DEF Sound, Boundary, At, Emitted
<1>10. Between'  BY <1>1, <1>2, <1>5, <1>9 DEF Between
<1> QED  BY <1>7, <1>8, <1>10 DEF IInv

LEMMA SkipKeylessInv == ASSUME IInv, SkipKeyless PROVE IInv'
<1>0. TypeOK /\ n \in Nat /\ i \in Nat  BY LineFacts DEF IInv
<1>1. PICK k \in i..n : Reaches(i, k, {"ws"}) /\ i' = k  BY DEF SkipKeyless
<1>2. /\ line' = line /\ key' = key /\ value' = value /\ pairs' = pairs /\ n' = n
      /\ pc = "key" /\ pc' = "token"
  BY <1>1 DEF SkipKeyless, n
<1>3. Boundary(k)  BY <1>0, <1>1, ReachesBoundary
<1>4. Emitted(k)  BY <1>0, <1>1, <1>2, EmittedFurther DEF IInv, Between
<1>5. TypeOK'  BY <1>0, <1>1, <1>2 DEF TypeOK
<1>6. SlicesSound'  BY <1>2, PairsKept
<1>7. Between'
  BY <1>0, <1>1, <1>2, <1>3, <1>4 DEF Between, Boundary, At, Emitted, LeastOf
<1> QED  BY <1>5, <1>6, <1>7 DEF IInv

LEMMA SkipMalformedInv == ASSUME IInv, SkipMalformed PROVE IInv'
<1>0. TypeOK /\ n \in Nat /\ i \in Nat /\ key.from \in Nat /\ key.to \in Nat
  BY LineFacts DEF IInv
<1>1. PICK k \in i..n : \E e \in k..n : Reaches(k, e, {"ws"}) /\ i' = e
  BY DEF SkipMalformed
<1>2. PICK e \in k..n : Reaches(k, e, {"ws"}) /\ i' = e  BY <1>1
<1>3. /\ line' = line /\ key' = key /\ value' = value /\ pairs' = pairs /\ n' = n
      /\ pc = "eq" /\ pc' = "token"
  BY DEF SkipMalformed, n
<1>4. e \in Nat /\ i <= e /\ e <= n /\ k \in Nat /\ e \in k..n  BY <1>0, <1>1, <1>2
<1>5. Boundary(e)  BY <1>0, <1>2, <1>4, ReachesBoundary
<1>6. Emitted(key.from) /\ key.from < key.to /\ key.to <= i  BY <1>3 DEF IInv, Between
<1>7. Emitted(e)  BY <1>0, <1>4, <1>6, EmittedFurther
<1>8. TypeOK'  BY <1>0, <1>2, <1>3, <1>4 DEF TypeOK
<1>9. SlicesSound'  BY <1>3, PairsKept
<1>10. Between'
  BY <1>0, <1>2, <1>3, <1>4, <1>5, <1>7 DEF Between, Boundary, At, Emitted, LeastOf
<1> QED  BY <1>8, <1>9, <1>10 DEF IInv

LEMMA FindEqualsInv == ASSUME IInv, FindEquals PROVE IInv'
<1>0. /\ TypeOK /\ n \in Nat /\ i \in Nat /\ key.from \in Nat /\ key.to \in Nat
      /\ value.from \in Nat /\ value.to \in Nat
  BY LineFacts DEF IInv
<1>1. PICK k \in i..(n - 1) :
        /\ At(k) = "eq"
        /\ IF k + 1 = n
           THEN pc' = "token" /\ i' = k + 1 /\ UNCHANGED value
           ELSE IF At(k + 1) = "quote"
           THEN pc' = "quoted" /\ i' = k + 2 /\ value' = [from |-> k + 2, to |-> k + 2]
           ELSE pc' = "bare" /\ i' = k + 1 /\ UNCHANGED value
  BY DEF FindEquals
<1>2. line' = line /\ key' = key /\ pairs' = pairs /\ n' = n /\ pc = "eq"
  BY DEF FindEquals, n
<1>3. k \in Nat /\ i <= k /\ k < n  BY <1>0, <1>1
<1>4. Boundary(k + 1)  BY <1>0, <1>1, <1>3, BehindSingle
<1>5. Sound(key) /\ key.from < key.to /\ Emitted(key.from) /\ key.to <= i
  BY <1>2 DEF IInv, Between
<1>6. Sound(key)' /\ Emitted(key.from)'  BY <1>2, <1>5 DEF Sound, Boundary, At, Emitted
<1>7. SlicesSound'  BY <1>2, PairsKept
<1>8. CASE k + 1 = n
  <2>1. pc' = "token" /\ i' = n /\ value' = value  BY <1>1, <1>8
  <2>2. Emitted(n)  BY <1>0, <1>3, <1>5, EmittedFurther
  <2>3. TypeOK'  BY <1>0, <1>2, <2>1 DEF TypeOK
  <2>4. Between'  BY <1>0, <1>2, <2>1, <2>2 DEF Between, Emitted, LeastOf
  <2> QED  BY <1>7, <2>3, <2>4 DEF IInv
<1>9. CASE k + 1 # n /\ At(k + 1) = "quote"
  <2>1. pc' = "quoted" /\ i' = k + 2 /\ value' = [from |-> k + 2, to |-> k + 2]
    BY <1>1, <1>9
  <2>2. k + 1 \in Nat /\ k + 1 < n /\ (k + 1) + 1 = k + 2  BY <1>0, <1>3, <1>9
  <2>3. Boundary(k + 2)  BY <1>0, <1>9, <2>2, BehindSingle
  <2>4. TypeOK'  BY <1>0, <1>2, <1>3, <2>1 DEF TypeOK, Slice
  <2>5. Boundary(value.from)'  BY <1>2, <2>1, <2>3 DEF Boundary, At
  <2>6. Between'  BY <1>0, <1>2, <1>3, <1>5, <1>6, <2>1, <2>2, <2>5 DEF Between
  <2> QED  BY <1>7, <2>4, <2>6 DEF IInv
<1>10. CASE k + 1 # n /\ At(k + 1) # "quote"
  <2>1. pc' = "bare" /\ i' = k + 1 /\ value' = value  BY <1>1, <1>10
  <2>2. TypeOK'  BY <1>0, <1>2, <1>3, <2>1 DEF TypeOK
  <2>3. Boundary(i)'  BY <1>2, <1>4, <2>1 DEF Boundary, At
  <2>4. Between'  BY <1>0, <1>2, <1>3, <1>5, <1>6, <2>1, <2>3 DEF Between
  <2> QED  BY <1>7, <2>2, <2>4 DEF IInv
<1> QED  BY <1>8, <1>9, <1>10

LEMMA BareValueInv == ASSUME IInv, BareValue PROVE IInv'
<1>0. TypeOK /\ n \in Nat /\ i \in Nat  BY LineFacts DEF IInv
<1>1. PICK k \in i..n : Reaches(i, k, {"ws"}) /\ i' = k  BY DEF BareValue
<1> DEFINE v == [from |-> i, to |-> k]
<1>2. /\ line' = line /\ key' = key /\ value' = value /\ n' = n
      /\ pc = "bare" /\ pc' = "token" /\ pairs' = Append(pairs, [key |-> key, value |-> v])
  BY <1>1 DEF BareValue, Emit, n
<1>3. /\ Boundary(i) /\ key.to < i /\ Sound(key) /\ key.from < key.to /\ Emitted(key.from)
  BY <1>2 DEF IInv, Between
<1>4. Boundary(k) /\ k \in Nat /\ i <= k /\ k <= n  BY <1>0, <1>1, ReachesBoundary
<1>5. v \in Slice /\ v.from = i /\ v.to = k  BY <1>0, <1>4 DEF Slice
<1>6. Sound(v)  BY <1>3, <1>4, <1>5 DEF Sound
<1>7. /\ SlicesSound' /\ pairs' \in Seq([key : Slice, value : Slice])
      /\ pairs'[Len(pairs')].value.to = k
  <2> HIDE DEF v
  <2> QED  BY <1>2, <1>3, <1>5, <1>6, PairAdded
<1>8. TypeOK'  BY <1>0, <1>1, <1>2, <1>4, <1>7 DEF TypeOK
<1>9. Boundary(i)' /\ Emitted(i)'
  BY <1>1, <1>2, <1>4, <1>7 DEF Boundary, At, Emitted
<1>10. Between'  BY <1>0, <1>1, <1>2, <1>4, <1>9 DEF Between, LeastOf
<1> QED  BY <1>7, <1>8, <1>10 DEF IInv

(* The steps between the quotes leave keys and pairs alone.                *)
LEMMA InQuotes ==
  ASSUME IInv, UNCHANGED <<line, key, pairs>>, pc \in {"quoted", "close"},
         pc' \in {"quoted", "close"}, value'.from = value.from, value.from <= i',
         i' \in Nat, i' <= n + 1, value' \in Slice,
         pc' = "quoted" => value'.to = value.from,
         pc' = "close" => \/ i' >= n /\ value'.to = value.from
                          \/ /\ value.from <= value'.to /\ value'.to = i' - 1
                             /\ i' <= n /\ At(value'.to) = "quote"
  PROVE  IInv'
<1>0. TypeOK /\ n \in Nat  BY LineFacts DEF IInv
<1>1. line' = line /\ key' = key /\ pairs' = pairs /\ n' = n  BY DEF n
<1>2. /\ Sound(key) /\ key.from < key.to /\ Emitted(key.from)
      /\ key.to < value.from /\ Boundary(value.from)
  BY DEF IInv, Between
<1>3. /\ Sound(key)' /\ Emitted(key.from)' /\ Boundary(value.from)'
  BY <1>1, <1>2 DEF Sound, Boundary, At, Emitted
<1>4. TypeOK'  BY <1>0, <1>1 DEF TypeOK
<1>5. SlicesSound'  BY <1>1, PairsKept
<1>6. At(value'.to) = "quote" => (At(value.to) = "quote")'  BY <1>1 DEF At
<1>7. Between'  BY <1>0, <1>1, <1>2, <1>3, <1>6 DEF Between
<1> QED  BY <1>4, <1>5, <1>7 DEF IInv

LEMMA EscapeInv == ASSUME IInv, Escape PROVE IInv'
<1>0. TypeOK /\ n \in Nat /\ i \in Nat /\ value.from \in Nat /\ value \in Slice
  BY LineFacts DEF IInv
<1>1. /\ line' = line /\ key' = key /\ pairs' = pairs /\ value' = value
      /\ pc = "quoted" /\ pc' = "quoted" /\ i < n /\ i' = i + 2
  BY DEF Escape
<1>2. value.from <= i /\ value.to = value.from  BY <1>1 DEF IInv, Between
<1>3. i' \in Nat /\ i' <= n + 1 /\ value.from <= i'  BY <1>0, <1>1, <1>2
<1> QED  BY <1>0, <1>1, <1>2, <1>3, InQuotes

LEMMA QuotedByteInv == ASSUME IInv, QuotedByte PROVE IInv'
<1>0. TypeOK /\ n \in Nat /\ i \in Nat /\ value.from \in Nat /\ value \in Slice
  BY LineFacts DEF IInv
<1>1. /\ line' = line /\ key' = key /\ pairs' = pairs /\ value' = value
      /\ pc = "quoted" /\ pc' = "quoted" /\ i < n /\ i' = i + 1
  BY DEF QuotedByte
<1>2. value.from <= i /\ value.to = value.from  BY <1>1 DEF IInv, Between
<1>3. i' \in Nat /\ i' <= n + 1 /\ value.from <= i'  BY <1>0, <1>1, <1>2
<1> QED  BY <1>0, <1>1, <1>2, <1>3, InQuotes

LEMMA CloseQuoteInv == ASSUME IInv, CloseQuote PROVE IInv'
<1>0. TypeOK /\ n \in Nat /\ i \in Nat /\ value.from \in Nat /\ value \in Slice
  BY LineFacts DEF IInv
<1>1. /\ line' = line /\ key' = key /\ pairs' = pairs
      /\ value' = [value EXCEPT !.to = i] /\ At(i) = "quote"
      /\ pc = "quoted" /\ pc' = "close" /\ i < n /\ i' = i + 1
  BY DEF CloseQuote
<1>2. value.from <= i  BY <1>1 DEF IInv, Between
<1>3. value' \in Slice /\ value'.from = value.from /\ value'.to = i
  BY <1>0, <1>1 DEF Slice
<1>4. i' \in Nat /\ i' <= n /\ i' <= n + 1 /\ value.from <= i' /\ i = i' - 1
  BY <1>0, <1>1, <1>2
<1> QED  BY <1>1, <1>2, <1>3, <1>4, InQuotes

LEMMA OpenQuoteInv == ASSUME IInv, OpenQuote PROVE IInv'
<1>0. TypeOK /\ n \in Nat /\ i \in Nat /\ value \in Slice
  BY LineFacts DEF IInv
<1>1. /\ line' = line /\ key' = key /\ pairs' = pairs /\ value' = value /\ i' = i
      /\ pc = "quoted" /\ pc' = "close" /\ i >= n
  BY DEF OpenQuote
<1>2. value.from <= i /\ value.to = value.from /\ i <= n + 1  BY <1>1 DEF IInv, Between
<1> QED  BY <1>0, <1>1, <1>2, InQuotes

LEMMA TakeQuotedInv == ASSUME IInv, TakeQuoted PROVE IInv'
<1>0. /\ TypeOK /\ n \in Nat /\ i \in Nat /\ value \in Slice
      /\ value.from \in Nat /\ value.to \in Nat
  BY LineFacts DEF IInv
<1> DEFINE v == QuotedValue
<1>1. /\ line' = line /\ key' = key /\ value' = value /\ i' = i /\ n' = n
      /\ pc = "close" /\ pc' = "token" /\ pairs' = Append(pairs, [key |-> key, value |-> v])
  BY DEF TakeQuoted, Emit, n
<1>2. /\ Sound(key) /\ key.from < key.to /\ Emitted(key.from) /\ key.to < value.from
      /\ Boundary(value.from) /\ value.from <= i /\ i <= n + 1
      /\ \/ i >= n /\ value.to = value.from
         \/ /\ value.from <= value.to /\ value.to = i - 1
            /\ i <= n /\ At(value.to) = "quote"
  BY <1>1 DEF IInv, Between
<1>3. v \in Slice /\ v.from = value.from
      /\ v.to = IF value.to = value.from THEN LeastOf(i, n) ELSE value.to
  BY <1>0 DEF QuotedValue, Slice, LeastOf
<1>4. Sound(v) /\ v.to <= LeastOf(i, n) /\ (i >= n \/ Boundary(i))
  <2>1. CASE i >= n /\ value.to = value.from
    <3>1. v.to = n /\ LeastOf(i, n) = n  BY <1>0, <1>3, <2>1 DEF LeastOf
    <3>2. value.from <= n /\ Boundary(n)  BY <1>0, <1>2 DEF Boundary
    <3> QED  BY <1>0, <1>2, <1>3, <2>1, <3>1, <3>2 DEF Sound
  <2>2. CASE /\ value.from <= value.to /\ value.to = i - 1
             /\ i <= n /\ At(value.to) = "quote"
    <3>1. value.to < n /\ value.to + 1 = i /\ LeastOf(i, n) = i
      BY <1>0, <2>2 DEF LeastOf
    <3>2. Boundary(value.to) /\ Boundary(i)  BY <1>0, <2>2, <3>1, BehindSingle
    <3>3. v.to = i \/ v.to = value.to  BY <1>3, <3>1
    <3> QED  BY <1>0, <1>2, <1>3, <2>2, <3>1, <3>2, <3>3 DEF Sound
  <2> QED  BY <1>2, <2>1, <2>2
<1>5. /\ SlicesSound' /\ pairs' \in Seq([key : Slice, value : Slice])
      /\ pairs'[Len(pairs')].value.to = v.to
  <2> HIDE DEF v
  <2> QED  BY <1>1, <1>2, <1>3, <1>4, PairAdded
<1>6. TypeOK'  BY <1>0, <1>1, <1>5 DEF TypeOK
<1>7. (i >= n \/ Boundary(i))' /\ Emitted(LeastOf(i, n))'
  BY <1>1, <1>4, <1>5 DEF Boundary, At, Emitted, LeastOf
<1>8. Between'  BY <1>1, <1>7 DEF Between
<1> QED  BY <1>5, <1>6, <1>8 DEF IInv

-----------------------------------------------------------------------------
(* In every state of a parse the invariant of the offsets holds.           *)
THEOREM Inductive == Spec => []IInv
<1>1. ASSUME Init PROVE IInv
  <2>1. line \in Seq(Bytes) /\ IsUtf8(line)  BY <1>1, LineAssumption DEF Init
  <2>2. TypeOK /\ n \in Nat  BY <1>1, <2>1 DEF Init, TypeOK, Slice, n
  <2>3. SlicesSound  BY <1>1 DEF Init, SlicesSound
  <2>4. Boundary(0)  BY <2>1, <2>2 DEF Boundary, At, IsUtf8, n
  <2>5. Between  BY <1>1, <2>4 DEF Init, Between, Emitted
  <2> QED  BY <2>2, <2>3, <2>5 DEF IInv
<1>2. ASSUME IInv, [Next]_vars PROVE IInv'
  <2>1. CASE UNCHANGED vars
    <3>1. /\ line' = line /\ pc' = pc /\ i' = i /\ key' = key /\ value' = value
          /\ pairs' = pairs
      BY <2>1 DEF vars
    <3>2. TypeOK'  BY <1>2, <3>1 DEF IInv, TypeOK
    <3>3. SlicesSound'  BY <1>2, <3>1, PairsKept
    <3>4. Between'
      BY <1>2, <3>1 DEF IInv, Between, Sound, Boundary, Emitted, LeastOf, At, n
    <3> QED  BY <3>2, <3>3, <3>4 DEF IInv
  <2> QED  BY <1>2, <2>1, DoneInv, SkipSpaceInv, TakeKeyInv, SkipKeylessInv,
              SkipMalformedInv, FindEqualsInv, BareValueInv, EscapeInv, QuotedByteInv,
              CloseQuoteInv, OpenQuoteInv, TakeQuotedInv DEF Next
<1> QED  BY <1>1, <1>2, PTL DEF Spec

(* Every slice the callback is given lies in the line, cuts no character,  *)
(* and follows the slices before it: for a line of any length and content, *)
(* no escape and no missing quote takes it over an end.                    *)
THEOREM SlicesAreSound == Spec => []SlicesSound
<1>1. IInv => SlicesSound  BY DEF IInv
<1> QED  BY Inductive, <1>1, PTL

-----------------------------------------------------------------------------
(* Where a quoted value ends.                                              *)

(* What no step changes, because no step changes the line.                 *)
LEMMA SameLine ==
  ASSUME line' = line
  PROVE  /\ n' = n /\ \A k : At(k)' = At(k)
         /\ \A a, b : EscapedIn(a, b)' = EscapedIn(a, b)
         /\ \A a, b : Closes(a, b)' = Closes(a, b)
  BY DEF n, At, EscapedIn, Closes

LEMMA StepLine ==
  ASSUME [Next]_vars
  PROVE  line' = line
  BY DEF Next, vars, Done, SkipSpace, TakeKey, SkipKeyless, SkipMalformed, FindEquals,
         BareValue, Escape, QuotedByte, CloseQuote, OpenQuote, TakeQuoted

LEMMA LeastIn ==
  ASSUME NEW S \in SUBSET Nat, S # {}
  PROVE  \E d \in S : \A e \in S : d <= e
<1>1. PICK d \in S : \A e \in S : ~ (<<e, d>> \in OpToRel(<, Nat))
  BY NatLessThanWellFounded, WFMin
<1>2. \A e \in S : ~ (e < d)  BY <1>1 DEF OpToRel
<1> QED  BY <1>2

(* The backslashes right before an offset have a first one.                *)
RunFrom(from, b, k) ==
  /\ \A j \in b..(k - 1) : At(j) = "bsl"
  /\ b = from \/ At(b - 1) # "bsl"

LEMMA RunStart ==
  ASSUME NEW from \in Nat, NEW k \in Nat, from <= k
  PROVE  \E b \in from..k : RunFrom(from, b, k)
<1> DEFINE S == {b \in Nat : from <= b /\ b <= k /\ \A j \in b..(k - 1) : At(j) = "bsl"}
<1>1. k \in S  OBVIOUS
<1>2. PICK b \in S : \A e \in S : b <= e
  <2>1. S \in SUBSET Nat /\ S # {}  BY <1>1
  <2> HIDE DEF S
  <2> QED  BY <2>1, LeastIn
<1>3. ASSUME b # from, At(b - 1) = "bsl" PROVE FALSE
  <2>1. b - 1 \in Nat /\ from <= b - 1 /\ b - 1 <= k  BY <1>3
  <2>2. ASSUME NEW j \in (b - 1)..(k - 1) PROVE At(j) = "bsl"
    <3>1. j = b - 1 \/ j \in b..(k - 1)  BY <2>1
    <3> QED  BY <1>3, <3>1
  <2>3. b - 1 \in S  BY <2>1, <2>2
  <2> QED  BY <1>2, <2>3
<1> QED  BY <1>2, <1>3 DEF RunFrom

(* An unescaped backslash escapes the byte behind it, and that one no      *)
(* byte.                                                                   *)
LEMMA EscapeFlips ==
  ASSUME NEW from \in Nat, NEW k \in Nat, from <= k, At(k) = "bsl", ~ EscapedIn(from, k)
  PROVE  EscapedIn(from, k + 1) /\ ~ EscapedIn(from, k + 2)
<1>1. PICK b \in from..k : RunFrom(from, b, k)  BY RunStart
<1>2. b \in Nat /\ b <= k /\ from <= b /\ k - b \in Nat  OBVIOUS
<1>3. (k - b) % 2 # 1
  <2>1. CASE b = k  BY <2>1
  <2>2. CASE b # k
    <3>1. b \in from..(k - 1)  BY <1>2, <2>2
    <3> QED  BY <1>1, <3>1 DEF EscapedIn, RunFrom
  <2> QED  BY <2>1, <2>2
<1>4. (k + 1 - b) % 2 = 1 /\ (k + 2 - b) % 2 # 1
  <2>1. PICK d \in Nat : d = k - b  BY <1>2
  <2>2. d % 2 # 1  BY <1>3, <2>1
  <2>3. (d + 1) % 2 = 1 /\ (d + 2) % 2 # 1  BY <2>2
  <2>4. k + 1 - b = d + 1 /\ k + 2 - b = d + 2  BY <1>2, <2>1
  <2> QED  BY <2>3, <2>4
<1>5. EscapedIn(from, k + 1)
  <2>1. b \in from..((k + 1) - 1)  BY <1>2
  <2>2. \A j \in b..((k + 1) - 1) : At(j) = "bsl"
    <3>1. ASSUME NEW j \in b..((k + 1) - 1) PROVE At(j) = "bsl"
      <4>1. j = k \/ j \in b..(k - 1)  BY <1>2
      <4> QED  BY <1>1, <4>1 DEF RunFrom
    <3> QED  BY <3>1
  <2> QED  BY <1>1, <1>4, <2>1, <2>2 DEF EscapedIn, RunFrom
<1>6. ASSUME EscapedIn(from, k + 2) PROVE FALSE
  <2>1. PICK c \in from..((k + 2) - 1) :
          /\ \A j \in c..((k + 2) - 1) : At(j) = "bsl"
          /\ c = from \/ At(c - 1) # "bsl"
          /\ ((k + 2) - c) % 2 = 1
    BY <1>6 DEF EscapedIn
  <2>2. c \in Nat /\ from <= c /\ c <= k + 1  BY <1>2, <2>1
  <2>3. CASE c = b  BY <1>4, <2>1, <2>3
  <2>4. CASE c < b
    <3>1. b - 1 \in c..((k + 2) - 1) /\ b # from  BY <1>2, <2>2, <2>4
    <3> QED  BY <1>1, <2>1, <3>1 DEF RunFrom
  <2>5. CASE b < c
    <3>1. c - 1 = k \/ c - 1 \in b..(k - 1)  BY <1>2, <2>2, <2>5
    <3>2. At(c - 1) = "bsl"  BY <1>1, <3>1 DEF RunFrom
    <3> QED  BY <1>2, <2>1, <2>2, <2>5, <3>2
  <2> QED  BY <1>2, <2>2, <2>3, <2>4, <2>5
<1> QED  BY <1>5, <1>6

(* A byte that is no backslash escapes none.                               *)
LEMMA PlainByteEscapesNone ==
  ASSUME NEW from \in Nat, NEW k \in Nat, At(k) # "bsl"
  PROVE  ~ EscapedIn(from, k + 1)
<1> SUFFICES ASSUME NEW b \in from..((k + 1) - 1),
                    \A j \in b..((k + 1) - 1) : At(j) = "bsl"
             PROVE  FALSE
  BY DEF EscapedIn
<1>1. k \in b..((k + 1) - 1)  OBVIOUS
<1> QED  BY <1>1

(* The invariant QuoteCloses rests on: of the bytes a quoted value has     *)
(* passed none closes it, and the parser is at none that is escaped; a     *)
(* value without quotes is behind its '='.                                 *)
NoneCloses(from, to) == \A k \in from..(to - 1) : ~ Closes(from, k)

QuoteWork ==
  /\ pc = "bare" => i > 0 /\ At(i - 1) = "eq"
  /\ pc = "quoted" => /\ NoneCloses(value.from, LeastOf(i, n))
                      /\ i <= n => ~ EscapedIn(value.from, i)
  /\ pc = "close" => \/ i >= n /\ value.to = value.from /\ NoneCloses(value.from, n)
                     \/ /\ value.to < n /\ Closes(value.from, value.to)
                        /\ NoneCloses(value.from, value.to)

(* A value is right: what QuoteCloses says of each.                        *)
EndsRight(v) ==
  (At(v.from - 1) = "quote" /\ (v.from < n => ~ Closes(v.from, v.from))) =>
    (v.to = n \/ Closes(v.from, v.to)) /\ NoneCloses(v.from, v.to)

LEMMA QuoteClosesMeans ==
  QuoteCloses <=> \A p \in 1..Len(pairs) : EndsRight(pairs[p].value)
  BY DEF QuoteCloses, EndsRight, NoneCloses

LEMMA EndsRightKept ==
  ASSUME line' = line, NEW v
  PROVE  EndsRight(v)' = EndsRight(v)
  BY SameLine DEF EndsRight, NoneCloses

LEMMA QuoteClosesSame ==
  ASSUME QuoteCloses, line' = line, pairs' = pairs
  PROVE  QuoteCloses'
<1>1. \A v : EndsRight(v)' = EndsRight(v)  BY EndsRightKept
<1>2. \A p \in 1..Len(pairs) : EndsRight(pairs[p].value)  BY QuoteClosesMeans
<1>3. QuoteCloses' <=> \A p \in 1..Len(pairs') : EndsRight(pairs[p].value)'
  BY QuoteClosesMeans DEF QuoteCloses, EndsRight, NoneCloses
<1>4. \A p : EndsRight(pairs[p].value)' = EndsRight(pairs[p].value)
  BY SameLine DEF EndsRight, NoneCloses
<1> QED  BY <1>2, <1>3, <1>4

LEMMA QuoteClosesAdded ==
  ASSUME TypeOK, QuoteCloses, line' = line, NEW v, EndsRight(v), NEW k,
         pairs' = Append(pairs, [key |-> k, value |-> v])
  PROVE  QuoteCloses'
<1>1. /\ Len(pairs') = Len(pairs) + 1 /\ Len(pairs) \in Nat
      /\ pairs'[Len(pairs) + 1].value = v
      /\ \A p \in 1..Len(pairs) : pairs'[p] = pairs[p]
  BY DEF TypeOK
<1>2. ASSUME NEW p \in 1..Len(pairs') PROVE EndsRight(pairs[p].value)'
  <2>1. PICK x : x = pairs'[p].value  OBVIOUS
  <2>2. EndsRight(x)
    <3>1. CASE p \in 1..Len(pairs)
      <4>1. x = pairs[p].value  BY <1>1, <2>1, <3>1
      <4> QED  BY <3>1, <4>1, QuoteClosesMeans
    <3>2. CASE p = Len(pairs) + 1  BY <1>1, <2>1, <3>2
    <3> QED  BY <1>1, <3>1, <3>2
  <2> QED  BY <2>1, <2>2, SameLine DEF EndsRight, NoneCloses
<1> QED  BY <1>2 DEF QuoteCloses, EndsRight, NoneCloses

LEMMA NoneClosesSame ==
  ASSUME line' = line, NEW a, NEW b
  PROVE  NoneCloses(a, b)' = NoneCloses(a, b)
  BY SameLine DEF NoneCloses

(* A step between the quotes that has passed the bytes up to `to'.         *)
LEMMA InQuotesWork ==
  ASSUME IInv, QuoteWork, QuoteCloses, IInv', UNCHANGED <<line, value, pairs>>,
         pc = "quoted", pc' = "quoted", i < n, i < i',
         \A k \in i..(i' - 1) : ~ Closes(value.from, k),
         ~ EscapedIn(value.from, i')
  PROVE  QuoteWork' /\ QuoteCloses'
<1>0. n \in Nat /\ i \in Nat /\ i' \in Nat /\ n' = n /\ value.from \in Nat
  BY LineFacts, SameLine DEF IInv, TypeOK
<1>1. NoneCloses(value.from, i)  BY <1>0 DEF QuoteWork, LeastOf
<1>2. NoneCloses(value.from, LeastOf(i', n))
  <2>1. PICK m : m = LeastOf(i', n)  OBVIOUS
  <2>2. m \in Nat /\ m <= i'  BY <1>0, <2>1 DEF LeastOf
  <2>3. ASSUME NEW k \in value.from..(m - 1) PROVE ~ Closes(value.from, k)
    <3>0. PICK j \in Nat, f \in Nat, h \in Nat : j = i' /\ f = value.from /\ h = i
      BY <1>0
    <3>1. k \in f..(h - 1) \/ k \in h..(j - 1)
      <4>1. k \in f..(m - 1) /\ m <= j  BY <2>2, <3>0
      <4> QED  BY <2>2, <4>1
    <3> QED  BY <1>1, <3>0, <3>1 DEF NoneCloses
  <2> QED  BY <2>1, <2>3 DEF NoneCloses
<1>3. NoneCloses(value.from, LeastOf(i, n))'
  BY <1>0, <1>2, SameLine DEF NoneCloses, LeastOf
<1>4. (~ EscapedIn(value.from, i))'  BY SameLine
<1>5. QuoteWork'  BY <1>3, <1>4 DEF QuoteWork
<1> QED  BY <1>5, QuoteClosesSame

LEMMA EscapeWork == ASSUME IInv, IInv', QuoteWork, QuoteCloses, Escape
                    PROVE  QuoteWork' /\ QuoteCloses'
<1>0. n \in Nat /\ i \in Nat /\ value.from \in Nat  BY LineFacts DEF IInv
<1>1. /\ UNCHANGED <<line, value, pairs>> /\ pc = "quoted" /\ pc' = "quoted"
      /\ i < n /\ i' = i + 2 /\ At(i) = "bsl"
  BY DEF Escape
<1>2. value.from <= i  BY <1>1 DEF IInv, Between
<1>3. ~ EscapedIn(value.from, i)  BY <1>0, <1>1 DEF QuoteWork
<1>4. EscapedIn(value.from, i + 1) /\ ~ EscapedIn(value.from, i + 2)
  BY <1>0, <1>1, <1>2, <1>3, EscapeFlips
<1>5. ASSUME NEW k \in i..(i' - 1) PROVE ~ Closes(value.from, k)
  <2>1. k = i \/ k = i + 1  BY <1>0, <1>1
  <2> QED  BY <1>1, <1>4, <2>1 DEF Closes
<1> QED  BY <1>0, <1>1, <1>4, <1>5, InQuotesWork

LEMMA QuotedByteWork == ASSUME IInv, IInv', QuoteWork, QuoteCloses, QuotedByte
                        PROVE  QuoteWork' /\ QuoteCloses'
<1>0. n \in Nat /\ i \in Nat /\ value.from \in Nat  BY LineFacts DEF IInv
<1>1. /\ UNCHANGED <<line, value, pairs>> /\ pc = "quoted" /\ pc' = "quoted"
      /\ i < n /\ i' = i + 1 /\ At(i) # "bsl" /\ At(i) # "quote"
  BY DEF QuotedByte
<1>2. ~ EscapedIn(value.from, i + 1)  BY <1>0, <1>1, PlainByteEscapesNone
<1>3. ASSUME NEW k \in i..(i' - 1) PROVE ~ Closes(value.from, k)
  <2>1. k = i  BY <1>0, <1>1
  <2> QED  BY <1>1, <2>1 DEF Closes
<1> QED  BY <1>0, <1>1, <1>2, <1>3, InQuotesWork

LEMMA CloseQuoteWork == ASSUME IInv, IInv', QuoteWork, QuoteCloses, CloseQuote
                        PROVE  QuoteWork' /\ QuoteCloses'
<1>0. n \in Nat /\ i \in Nat /\ value.from \in Nat /\ value \in Slice
  BY LineFacts DEF IInv
<1>1. /\ line' = line /\ pairs' = pairs /\ pc = "quoted" /\ pc' = "close"
      /\ i < n /\ value' = [value EXCEPT !.to = i] /\ At(i) = "quote"
  BY DEF CloseQuote
<1>2. value'.from = value.from /\ value'.to = i  BY <1>0, <1>1 DEF Slice
<1>3. NoneCloses(value.from, i) /\ ~ EscapedIn(value.from, i)
  BY <1>0, <1>1 DEF QuoteWork, LeastOf
<1>4. Closes(value.from, i)  BY <1>1, <1>3 DEF Closes
<1>5. /\ (value.to < n)' /\ Closes(value.from, value.to)'
      /\ NoneCloses(value.from, value.to)'
  BY <1>1, <1>2, <1>3, <1>4, SameLine DEF NoneCloses
<1>6. QuoteWork'  BY <1>1, <1>5 DEF QuoteWork
<1> QED  BY <1>1, <1>6, QuoteClosesSame

LEMMA OpenQuoteWork == ASSUME IInv, IInv', QuoteWork, QuoteCloses, OpenQuote
                       PROVE  QuoteWork' /\ QuoteCloses'
<1>0. n \in Nat /\ i \in Nat  BY LineFacts DEF IInv
<1>1. /\ line' = line /\ pairs' = pairs /\ pc = "quoted" /\ pc' = "close"
      /\ i >= n /\ i' = i /\ value' = value
  BY DEF OpenQuote
<1>2. value.to = value.from  BY <1>1 DEF IInv, Between
<1>3. LeastOf(i, n) = n  BY <1>0, <1>1 DEF LeastOf
<1>4. NoneCloses(value.from, n)  BY <1>1, <1>3 DEF QuoteWork
<1>5. NoneCloses(value.from, n)'  BY <1>1, <1>4, SameLine DEF NoneCloses
<1>6. QuoteWork'  BY <1>0, <1>1, <1>2, <1>5, SameLine DEF QuoteWork
<1> QED  BY <1>1, <1>6, QuoteClosesSame

LEMMA TakeQuotedWork == ASSUME IInv, IInv', QuoteWork, QuoteCloses, TakeQuoted
                        PROVE  QuoteWork' /\ QuoteCloses'
<1>0. /\ TypeOK /\ n \in Nat /\ i \in Nat /\ value \in Slice
      /\ value.from \in Nat /\ value.to \in Nat
  BY LineFacts DEF IInv
<1>1. PICK v : v = QuotedValue  OBVIOUS
<1>2. /\ line' = line /\ pc = "close" /\ pc' = "token"
      /\ pairs' = Append(pairs, [key |-> key, value |-> v])
  BY <1>1 DEF TakeQuoted, Emit
<1>3. /\ v.from = value.from
      /\ v.to = IF value.to = value.from THEN LeastOf(i, n) ELSE value.to
  BY <1>0, <1>1 DEF QuotedValue, Slice, LeastOf
<1>4. EndsRight(v)
  <2>1. CASE i >= n /\ value.to = value.from /\ NoneCloses(value.from, n)
    <3>1. v.to = n  BY <1>0, <1>3, <2>1 DEF LeastOf
    <3> QED  BY <1>3, <2>1, <3>1 DEF EndsRight
  <2>2. CASE /\ value.to < n /\ Closes(value.from, value.to)
             /\ NoneCloses(value.from, value.to)
    <3>1. CASE value.to = value.from
      <4>1. v.from < n /\ Closes(v.from, v.from)  BY <1>3, <2>2, <3>1
      <4> QED  BY <4>1 DEF EndsRight
    <3>2. CASE value.to # value.from  BY <1>3, <2>2, <3>2 DEF EndsRight
    <3> QED  BY <3>1, <3>2
  <2> QED  BY <1>2, <2>1, <2>2 DEF QuoteWork
<1>5. QuoteCloses'  BY <1>0, <1>2, <1>4, QuoteClosesAdded
<1> QED  BY <1>2, <1>5 DEF QuoteWork

LEMMA BareValueWork == ASSUME IInv, IInv', QuoteWork, QuoteCloses, BareValue
                       PROVE  QuoteWork' /\ QuoteCloses'
<1>0. TypeOK  BY DEF IInv
<1>1. PICK v : v = [from |-> i, to |-> i']  OBVIOUS
<1>2. /\ line' = line /\ pc = "bare" /\ pc' = "token"
      /\ pairs' = Append(pairs, [key |-> key, value |-> v])
  BY <1>1 DEF BareValue, Emit
<1>3. At(v.from - 1) = "eq"  BY <1>1, <1>2 DEF QuoteWork
<1>4. EndsRight(v)  BY <1>3 DEF EndsRight
<1>5. QuoteCloses'  BY <1>0, <1>2, <1>4, QuoteClosesAdded
<1> QED  BY <1>2, <1>5 DEF QuoteWork

LEMMA FindEqualsWork == ASSUME IInv, IInv', QuoteWork, QuoteCloses, FindEquals
                        PROVE  QuoteWork' /\ QuoteCloses'
<1>0. n \in Nat /\ i \in Nat  BY LineFacts DEF IInv
<1>1. PICK k \in i..(n - 1) :
        /\ At(k) = "eq"
        /\ IF k + 1 = n
           THEN pc' = "token" /\ i' = k + 1 /\ UNCHANGED value
           ELSE IF At(k + 1) = "quote"
           THEN pc' = "quoted" /\ i' = k + 2 /\ value' = [from |-> k + 2, to |-> k + 2]
           ELSE pc' = "bare" /\ i' = k + 1 /\ UNCHANGED value
  BY DEF FindEquals
<1>2. line' = line /\ pairs' = pairs /\ n' = n  BY DEF FindEquals, n
<1>3. k \in Nat  BY <1>0
<1>4. CASE pc' = "token"  BY <1>4, <1>2, QuoteClosesSame DEF QuoteWork
<1>5. CASE pc' = "bare" /\ i' = k + 1
  <2>1. (i > 0 /\ At(i - 1) = "eq")'
    <3>1. (k + 1) - 1 = k /\ k + 1 > 0  BY <1>3
    <3> QED  BY <1>1, <1>2, <1>5, <3>1, SameLine
  <2> QED  BY <1>2, <1>5, <2>1, QuoteClosesSame DEF QuoteWork
<1>6. CASE pc' = "quoted" /\ i' = k + 2 /\ value' = [from |-> k + 2, to |-> k + 2]
  <2>1. value'.from = k + 2  BY <1>6
  <2>2. \A a \in (k + 2)..(LeastOf(k + 2, n) - 1) : FALSE  BY <1>0, <1>3 DEF LeastOf
  <2>3. NoneCloses(k + 2, LeastOf(k + 2, n))  BY <2>2 DEF NoneCloses
  <2>4. ~ EscapedIn(k + 2, k + 2)  BY <1>3 DEF EscapedIn
  <2>5. NoneCloses(value.from, LeastOf(i, n))'
    BY <1>2, <1>6, <2>1, <2>3, SameLine DEF NoneCloses, LeastOf
  <2>6. (~ EscapedIn(value.from, i))'  BY <1>2, <1>6, <2>1, <2>4, SameLine
  <2>7. QuoteWork'  BY <1>6, <2>5, <2>6 DEF QuoteWork
  <2> QED  BY <1>2, <2>7, QuoteClosesSame
<1> QED  BY <1>1, <1>4, <1>5, <1>6

LEMMA OutsideWork ==
  ASSUME QuoteWork, QuoteCloses, Done \/ SkipSpace \/ TakeKey \/ SkipKeyless \/ SkipMalformed
  PROVE  QuoteWork' /\ QuoteCloses'
<1>1. line' = line /\ pairs' = pairs /\ pc' \in {"token", "key", "eq", "done"}
  BY DEF Done, SkipSpace, TakeKey, SkipKeyless, SkipMalformed
<1> QED  BY <1>1, QuoteClosesSame DEF QuoteWork

(* Every quoted value of every line ends where its quotes say.             *)
THEOREM QuotedValuesClose == Spec => []QuoteCloses
<1>1. Init => QuoteWork /\ QuoteCloses  BY DEF Init, QuoteWork, QuoteCloses
<1>2. ASSUME IInv, IInv', QuoteWork, QuoteCloses, [Next]_vars
      PROVE  QuoteWork' /\ QuoteCloses'
  <2>1. CASE UNCHANGED vars
    <3>1. /\ line' = line /\ pc' = pc /\ i' = i /\ value' = value /\ pairs' = pairs
      BY <2>1 DEF vars
    <3>2. QuoteWork'  BY <1>2, <3>1, SameLine DEF QuoteWork, NoneCloses, LeastOf
    <3> QED  BY <1>2, <3>1, <3>2, QuoteClosesSame
  <2>2. CASE Next
    BY <1>2, <2>2, OutsideWork, FindEqualsWork, BareValueWork, EscapeWork, QuotedByteWork,
       CloseQuoteWork, OpenQuoteWork, TakeQuotedWork DEF Next
  <2> QED  BY <1>2, <2>1, <2>2
<1> QED  BY <1>1, <1>2, Inductive, PTL DEF Spec

-----------------------------------------------------------------------------
(* The pairs of a plain line.                                              *)

(* The pairs emitted, and the pairs of the words that end by an offset.    *)
PairOf(w, e) ==
  [key |-> [from |-> w.from, to |-> e], value |-> [from |-> e + 1, to |-> w.to]]

PairsSoFar == {pairs[k] : k \in 1..Len(pairs)}

PairsBy(m) ==
  {PairOf(s[1], s[2]) : s \in {p \in Words \X (0..n) : SplitAt(p[1], p[2]) /\ p[1].to <= m}}

Placed(m) == PairsSoFar = PairsBy(m)

(* The invariant PlainLineExact rests on: on a plain line the parser       *)
(* stands at the start of a word or at the '=' of one, and has emitted     *)
(* the words before it.                                                    *)
AtSplit(e) ==
  key.to = e /\ Placed(key.from) /\ \E w \in Words : w.from = key.from /\ SplitAt(w, e)

PlainWork ==
  Plain =>
    /\ pc = "token" => i <= n /\ (i = 0 \/ i = n \/ At(i) = "ws") /\ Placed(i)
    /\ pc = "key" => (i = 0 \/ At(i - 1) = "ws") /\ Placed(i)
    /\ pc = "eq" => AtSplit(i)
    /\ pc = "bare" => AtSplit(i - 1)
    /\ pc = "done" => Placed(n)
    /\ pc \notin {"quoted", "close"}

LEMMA SamePlain ==
  ASSUME line' = line
  PROVE  /\ Words' = Words /\ Plain' = Plain
         /\ \A w, e : SplitAt(w, e)' = SplitAt(w, e)
<1>1. n' = n /\ \A k : At(k)' = At(k)  BY SameLine
<1>2. Words' = Words  BY <1>1 DEF Words, At, n
<1>3. \A w, e : SplitAt(w, e)' = SplitAt(w, e)  BY <1>1 DEF SplitAt
<1>4. Plain' = Plain  BY <1>1, <1>2, <1>3 DEF Plain
<1> QED  BY <1>2, <1>3, <1>4

LEMMA SamePlaced ==
  ASSUME line' = line, pairs' = pairs
  PROVE  \A m : Placed(m)' = Placed(m)
<1>1. n' = n /\ Words' = Words /\ \A w, e : SplitAt(w, e)' = SplitAt(w, e)
  BY SameLine, SamePlain
<1>2. \A m : PairsBy(m)' = PairsBy(m)  BY <1>1 DEF PairsBy, PairOf
<1>3. PairsSoFar' = PairsSoFar  BY DEF PairsSoFar
<1> QED  BY <1>2, <1>3 DEF Placed

LEMMA WordFacts ==
  ASSUME TypeOK, NEW w \in Words
  PROVE  /\ w.from \in Nat /\ w.to \in Nat /\ w.from < w.to /\ w.to <= n
         /\ w = [from |-> w.from, to |-> w.to]
         /\ \A k \in w.from..(w.to - 1) : At(k) # "ws"
         /\ w.from = 0 \/ At(w.from - 1) = "ws"
         /\ w.to = n \/ At(w.to) = "ws"
<1>1. n \in Nat  BY LineFacts
<1>2. w \in [from : 0..n, to : 0..n]  BY DEF Words
<1> QED  BY <1>1, <1>2 DEF Words

(* Two words that overlap are one.                                         *)
LEMMA WordsApart ==
  ASSUME TypeOK, NEW w \in Words, NEW v \in Words, w.from < v.to, v.from < w.to
  PROVE  w = v
<1>1. /\ w.from \in Nat /\ w.to \in Nat /\ v.from \in Nat /\ v.to \in Nat /\ n \in Nat
      /\ w.from < w.to /\ w.to <= n /\ v.from < v.to /\ v.to <= n
      /\ w = [from |-> w.from, to |-> w.to] /\ v = [from |-> v.from, to |-> v.to]
  BY WordFacts, LineFacts
<1>2. ASSUME NEW a \in Words, NEW b \in Words, a.from < b.to, b.from < a.to
      PROVE  ~ (a.from < b.from) /\ ~ (a.to < b.to)
  <2>1. /\ a.from \in Nat /\ a.to \in Nat /\ b.from \in Nat /\ b.to \in Nat /\ n \in Nat
        /\ a.to <= n /\ b.to <= n
    BY WordFacts, LineFacts
  <2>2. ASSUME a.from < b.from PROVE FALSE
    <3>1. At(b.from - 1) = "ws"  BY <2>1, <2>2, WordFacts
    <3>2. b.from - 1 \in a.from..(a.to - 1)  BY <1>2, <2>1, <2>2
    <3> QED  BY <3>1, <3>2, WordFacts
  <2>3. ASSUME a.to < b.to PROVE FALSE
    <3>1. At(a.to) = "ws"  BY <2>1, <2>3, WordFacts
    <3>2. a.to \in b.from..(b.to - 1)  BY <1>2, <2>1, <2>3
    <3> QED  BY <3>1, <3>2, WordFacts
  <2> QED  BY <2>2, <2>3
<1>3. w.from = v.from /\ w.to = v.to  BY <1>1, <1>2
<1> QED  BY <1>1, <1>3

(* A word begins at a byte that is no space behind a space, or at the      *)
(* start.                                                                  *)
LEMMA SpaceReached ==
  ASSUME TypeOK, NEW p \in Nat, p <= n
  PROVE  \E e \in p..n : Reaches(p, e, {"ws"})
<1>0. n \in Nat  BY LineFacts
<1> DEFINE S == {e \in Nat : p <= e /\ e <= n /\ (e = n \/ At(e) = "ws")}
<1>1. n \in S  BY <1>0
<1>2. PICK e \in S : \A d \in S : e <= d
  <2>1. S \in SUBSET Nat /\ S # {}  BY <1>1
  <2> HIDE DEF S
  <2> QED  BY <2>1, LeastIn
<1>3. ASSUME NEW k \in p..(e - 1) PROVE At(k) # "ws"
  <2>1. k \in Nat /\ p <= k /\ k < e /\ k <= n  BY <1>0, <1>2
  <2> QED  BY <1>2, <2>1
<1> QED  BY <1>0, <1>2, <1>3 DEF Reaches

LEMMA WordAt ==
  ASSUME TypeOK, NEW p \in Nat, p < n, At(p) # "ws", p = 0 \/ At(p - 1) = "ws"
  PROVE  \E w \in Words : w.from = p
<1>0. n \in Nat  BY LineFacts
<1>1. PICK e \in p..n : Reaches(p, e, {"ws"})  BY <1>0, SpaceReached
<1>2. e # p /\ \A k \in p..(e - 1) : At(k) # "ws"  BY <1>0, <1>1 DEF Reaches
<1>3. e = n \/ At(e) = "ws"  BY <1>0, <1>1 DEF Reaches
<1>4. PICK w : w = [from |-> p, to |-> e]  OBVIOUS
<1>5. w \in [from : 0..n, to : 0..n] /\ w.from = p /\ w.to = e /\ p < e
  BY <1>0, <1>1, <1>2, <1>4
<1> QED  BY <1>2, <1>3, <1>5 DEF Words

LEMMA PairBy ==
  ASSUME NEW v \in Words, NEW d \in 0..n, SplitAt(v, d), NEW m, v.to <= m
  PROVE  PairOf(v, d) \in PairsBy(m)
<1>1. <<v, d>> \in {p \in Words \X (0..n) : SplitAt(p[1], p[2]) /\ p[1].to <= m}
  OBVIOUS
<1> QED  BY <1>1 DEF PairsBy

(* Where no word ends, no pair is missing.                                 *)
LEMMA PlacedFurther ==
  ASSUME NEW a, NEW b, Placed(a), \A w \in Words : w.to <= a <=> w.to <= b
  PROVE  Placed(b)
<1>1. PairsBy(a) = PairsBy(b)  BY DEF PairsBy
<1> QED  BY <1>1 DEF Placed

LEMMA SplitOnce ==
  ASSUME TypeOK, NEW w \in Words, NEW d \in Nat, NEW e \in Nat, SplitAt(w, d), SplitAt(w, e)
  PROVE  d = e
<1>1. w.from \in Nat  BY WordFacts
<1>2. /\ w.from < d /\ At(d) = "eq" /\ \A k \in w.from..(d - 1) : At(k) # "eq"
      /\ w.from < e /\ At(e) = "eq" /\ \A k \in w.from..(e - 1) : At(k) # "eq"
  BY DEF SplitAt
<1>3. ~ (d < e)  BY <1>1, <1>2
<1>4. ~ (e < d)  BY <1>1, <1>2
<1> QED  BY <1>3, <1>4

(* With the pair of a word behind the pairs of those before it, the pairs  *)
(* of the words up to its end are there.                                   *)
LEMMA WordAdded ==
  ASSUME TypeOK, NEW w \in Words, NEW e \in 0..n, SplitAt(w, e), Placed(w.from),
         line' = line, pairs' = Append(pairs, PairOf(w, e))
  PROVE  Placed(w.to)'
<1>0. n \in Nat /\ w.from \in Nat /\ w.to \in Nat /\ w.from < w.to
  BY LineFacts, WordFacts
<1>1. n' = n /\ Words' = Words /\ \A v, d : SplitAt(v, d)' = SplitAt(v, d)
  BY SameLine, SamePlain
<1>2. PairsBy(w.to)' = PairsBy(w.to)  BY <1>1 DEF PairsBy, PairOf
<1>3. PairsSoFar' = PairsSoFar \cup {PairOf(w, e)}
  <2>1. /\ Len(pairs') = Len(pairs) + 1 /\ Len(pairs) \in Nat
        /\ pairs'[Len(pairs) + 1] = PairOf(w, e)
        /\ \A p \in 1..Len(pairs) : pairs'[p] = pairs[p]
    BY DEF TypeOK
  <2>2. ASSUME NEW x \in PairsSoFar' PROVE x \in PairsSoFar \cup {PairOf(w, e)}
    <3>1. PICK p \in 1..Len(pairs') : x = pairs'[p]  BY DEF PairsSoFar
    <3>2. p \in 1..Len(pairs) \/ p = Len(pairs) + 1  BY <2>1
    <3> QED  BY <2>1, <3>1, <3>2 DEF PairsSoFar
  <2>3. ASSUME NEW x \in PairsSoFar PROVE x \in PairsSoFar'
    <3>1. PICK p \in 1..Len(pairs) : x = pairs[p]  BY DEF PairsSoFar
    <3>2. p \in 1..Len(pairs')  BY <2>1
    <3> QED  BY <2>1, <3>1, <3>2 DEF PairsSoFar
  <2>4. PairOf(w, e) \in PairsSoFar'
    <3>1. Len(pairs) + 1 \in 1..Len(pairs')  BY <2>1
    <3> QED  BY <2>1, <3>1 DEF PairsSoFar
  <2> QED  BY <2>2, <2>3, <2>4
<1>4. PairsBy(w.to) = PairsBy(w.from) \cup {PairOf(w, e)}
  <2>1. ASSUME NEW x \in PairsBy(w.to) PROVE x \in PairsBy(w.from) \cup {PairOf(w, e)}
    <3>1. PICK v \in Words, d \in 0..n : SplitAt(v, d) /\ v.to <= w.to /\ x = PairOf(v, d)
      BY <2>1 DEF PairsBy
    <3>2. v.from \in Nat /\ v.to \in Nat /\ v.from < v.to  BY WordFacts
    <3>3. CASE v.to <= w.from  BY <3>1, <3>3, PairBy
    <3>4. CASE w.from < v.to
      <4>1. v.from < w.to  BY <1>0, <3>1, <3>2
      <4>2. v = w  BY <3>4, <4>1, WordsApart
      <4>3. d = e  BY <1>0, <3>1, <4>2, SplitOnce
      <4> QED  BY <3>1, <4>2, <4>3
    <3> QED  BY <1>0, <3>2, <3>3, <3>4
  <2>2. ASSUME NEW x \in PairsBy(w.from) PROVE x \in PairsBy(w.to)
    <3>1. PICK v \in Words, d \in 0..n : SplitAt(v, d) /\ v.to <= w.from /\ x = PairOf(v, d)
      BY <2>2 DEF PairsBy
    <3>2. v.to \in Nat /\ v.to <= w.to  BY <1>0, <3>1, WordFacts
    <3> QED  BY <3>1, <3>2, PairBy
  <2>3. PairOf(w, e) \in PairsBy(w.to)
    <3>1. w.to <= w.to  BY <1>0
    <3> QED  BY <3>1, PairBy
  <2> QED  BY <2>1, <2>2, <2>3
<1>5. PairsSoFar = PairsBy(w.from)  BY DEF Placed
<1>6. PairsSoFar' = PairsBy(w.to)'  BY <1>2, <1>3, <1>4, <1>5
<1> QED  BY <1>6 DEF Placed

LEMMA DonePlain == ASSUME IInv, Plain, PlainWork, Done PROVE PlainWork'
<1>0. n \in Nat /\ i \in Nat  BY LineFacts DEF IInv
<1>1. line' = line /\ pairs' = pairs /\ pc = "token" /\ i >= n /\ pc' = "done"
  BY DEF Done
<1>2. i <= n /\ Placed(i)  BY <1>1 DEF PlainWork
<1>3. i = n  BY <1>0, <1>1, <1>2
<1>4. Placed(n)  BY <1>2, <1>3
<1>5. Placed(n)'  BY <1>1, <1>4, SamePlaced, SameLine
<1> QED  BY <1>1, <1>5 DEF PlainWork

LEMMA SkipSpacePlain == ASSUME IInv, Plain, PlainWork, SkipSpace PROVE PlainWork'
<1>0. TypeOK /\ n \in Nat /\ i \in Nat  BY LineFacts DEF IInv
<1>1. PICK k \in i..n : Reaches(i, k, NoSpace) /\ i' = k  BY DEF SkipSpace
<1>2. /\ line' = line /\ pairs' = pairs /\ pc = "token" /\ i < n
      /\ pc' = IF k = n THEN "done" ELSE "key"
  BY <1>1 DEF SkipSpace
<1>3. i <= n /\ (i = 0 \/ i = n \/ At(i) = "ws") /\ Placed(i)  BY <1>2 DEF PlainWork
<1>4. \A j \in i..(k - 1) : At(j) = "ws"
  <2>1. ASSUME NEW j \in i..(k - 1) PROVE At(j) = "ws"
    <3>1. j \in 0..(n - 1)  BY <1>0
    <3>2. At(j) \in Bytes /\ At(j) \notin NoSpace  BY <1>0, <1>1, <3>1, LineFacts DEF Reaches
    <3> QED  BY <3>2 DEF NoSpace
  <2> QED  BY <2>1
<1>5. ASSUME NEW w \in Words PROVE w.to <= i <=> w.to <= k
  <2>1. w.from \in Nat /\ w.to \in Nat /\ w.from < w.to  BY <1>0, WordFacts
  <2>2. k \in Nat /\ i <= k  BY <1>0
  <2>3. ASSUME i < w.to, w.to <= k PROVE FALSE
    <3>1. w.to - 1 \in i..(k - 1) /\ w.to - 1 \in w.from..(w.to - 1)
      BY <1>0, <2>1, <2>2, <2>3
    <3> QED  BY <1>0, <1>4, <3>1, WordFacts
  <2> QED  BY <1>0, <2>1, <2>2, <2>3
<1>6. Placed(k)  BY <1>3, <1>5, PlacedFurther
<1>7. Placed(k)'  BY <1>2, <1>6, SamePlaced
<1>8. CASE k = n
  <2>1. Placed(n)'  BY <1>2, <1>7, <1>8, SameLine
  <2> QED  BY <1>2, <1>8, <2>1 DEF PlainWork
<1>9. CASE k # n
  <2>1. k = 0 \/ At(k - 1) = "ws"
    <3>1. CASE k = i
      <4>1. At(k) # "ws" /\ k # n  BY <1>0, <1>1, <1>9 DEF Reaches, NoSpace
      <4> QED  BY <1>3, <3>1, <4>1
    <3>2. CASE k # i
      <4>1. k - 1 \in i..(k - 1)  BY <1>0, <3>2
      <4> QED  BY <1>4, <4>1
    <3> QED  BY <3>1, <3>2
  <2>2. pc' = "key" /\ i' = k  BY <1>1, <1>2, <1>9
  <2>3. (i = 0 \/ At(i - 1) = "ws")'  BY <1>2, <2>1, <2>2, SameLine
  <2>4. Placed(i)'  BY <1>7, <2>2 DEF Placed, PairsBy, PairsSoFar
  <2> QED  BY <2>2, <2>3, <2>4 DEF PlainWork
<1> QED  BY <1>8, <1>9

(* A plain line has a split word wherever the parser takes a key.          *)
LEMMA KeyWord ==
  ASSUME IInv, Plain, PlainWork, pc = "key"
  PROVE  \E w \in Words, e \in 0..n : w.from = i /\ SplitAt(w, e)
<1>0. TypeOK /\ n \in Nat /\ i \in Nat  BY LineFacts DEF IInv
<1>1. i < n /\ At(i) # "ws"  BY DEF IInv, Between
<1>2. i = 0 \/ At(i - 1) = "ws"  BY DEF PlainWork
<1>3. PICK w \in Words : w.from = i  BY <1>0, <1>1, <1>2, WordAt
<1> QED  BY <1>3 DEF Plain

LEMMA TakeKeyPlain == ASSUME IInv, Plain, PlainWork, TakeKey PROVE PlainWork'
<1>0. TypeOK /\ n \in Nat /\ i \in Nat  BY LineFacts DEF IInv
<1>1. PICK k \in i..n : Reaches(i, k, {"eq", "ws"}) /\ i' = k  BY DEF TakeKey
<1>2. /\ line' = line /\ pairs' = pairs /\ pc = "key" /\ pc' = "eq"
      /\ key' = [from |-> i, to |-> k]
  BY <1>1 DEF TakeKey
<1>3. PICK w \in Words, e \in 0..n : w.from = i /\ SplitAt(w, e)  BY <1>2, KeyWord
<1>4. /\ w.to \in Nat /\ w.to <= n /\ e \in Nat /\ k \in Nat
      /\ \A j \in w.from..(w.to - 1) : At(j) # "ws"
  BY <1>0, WordFacts
<1>5. /\ i < e /\ e < w.to /\ At(e) = "eq" /\ \A j \in i..(e - 1) : At(j) # "eq"
  BY <1>3 DEF SplitAt
<1>6. ~ (k < e)
  <2> SUFFICES ASSUME k < e PROVE FALSE  OBVIOUS
  <2>1. k < n /\ k \in i..(e - 1) /\ k \in w.from..(w.to - 1)  BY <1>0, <1>3, <1>4, <1>5
  <2> QED  BY <1>1, <1>4, <1>5, <2>1 DEF Reaches
<1>7. ~ (e < k)
  <2> SUFFICES ASSUME e < k PROVE FALSE  OBVIOUS
  <2>1. e \in i..(k - 1)  BY <1>0, <1>4, <1>5
  <2> QED  BY <1>1, <1>5, <2>1 DEF Reaches
<1>8. k = e  BY <1>4, <1>6, <1>7
<1>9. Placed(i)  BY <1>2 DEF PlainWork
<1>10. Placed(key.from)'
  <2>1. Placed(i) /\ key'.from = i  BY <1>2, <1>9
  <2>2. PICK m : m = i  OBVIOUS
  <2>3. Placed(m)' /\ key'.from = m  BY <1>2, <2>1, <2>2, SamePlaced
  <2> QED  BY <2>3 DEF Placed, PairsBy, PairsSoFar
<1>11. AtSplit(i)'
  <2>1. key'.to = i' /\ key'.from = i  BY <1>1, <1>2
  <2>2. \E v \in Words' : v.from = key'.from /\ SplitAt(v, i')
    BY <1>1, <1>2, <1>3, <1>8, SamePlain
  <2>3. (\E v \in Words : v.from = key.from /\ SplitAt(v, i))'
    BY <1>2, <2>2, SamePlain DEF SplitAt, At, n
  <2> QED  BY <1>10, <2>1, <2>3 DEF AtSplit
<1> QED  BY <1>2, <1>11 DEF PlainWork

(* The steps a plain line never takes.                                     *)
LEMMA NotOnPlain ==
  ASSUME IInv, Plain, PlainWork
  PROVE  /\ ~ SkipKeyless /\ ~ SkipMalformed /\ ~ Escape /\ ~ QuotedByte
         /\ ~ CloseQuote /\ ~ OpenQuote /\ ~ TakeQuoted
<1>0. TypeOK /\ n \in Nat /\ i \in Nat  BY LineFacts DEF IInv
<1>1. ASSUME SkipKeyless PROVE FALSE
  <2>1. pc = "key" /\ At(i) = "eq"  BY <1>1 DEF SkipKeyless
  <2>2. PICK w \in Words, e \in 0..n : w.from = i /\ SplitAt(w, e)  BY <2>1, KeyWord
  <2>3. i < e /\ \A j \in i..(e - 1) : At(j) # "eq"  BY <2>2 DEF SplitAt
  <2>4. i \in i..(e - 1)  BY <1>0, <2>3
  <2> QED  BY <2>1, <2>3, <2>4
<1>2. ASSUME SkipMalformed PROVE FALSE
  <2>1. pc = "eq"  BY <1>2 DEF SkipMalformed
  <2>2. PICK k \in i..n : Reaches(i, k, NoSpace) /\ (k < n => At(k) # "eq")
    BY <1>2 DEF SkipMalformed
  <2>3. At(i) = "eq" /\ i < n
    <3>1. PICK w \in Words : SplitAt(w, i)  BY <2>1 DEF PlainWork, AtSplit
    <3>2. w.to \in Nat /\ w.to <= n  BY <1>0, WordFacts
    <3> QED  BY <1>0, <3>1, <3>2 DEF SplitAt
  <2>4. k # i  BY <2>2, <2>3
  <2>5. i \in i..(k - 1)  BY <1>0, <2>4
  <2>6. At(i) \notin NoSpace  BY <2>2, <2>5 DEF Reaches
  <2> QED  BY <2>3, <2>6 DEF NoSpace, Bytes
<1>3. pc \notin {"quoted", "close"}  BY DEF PlainWork
<1> QED  BY <1>1, <1>2, <1>3 DEF Escape, QuotedByte, CloseQuote, OpenQuote, TakeQuoted

LEMMA FindEqualsPlain == ASSUME IInv, Plain, PlainWork, FindEquals PROVE PlainWork'
<1>0. TypeOK /\ n \in Nat /\ i \in Nat  BY LineFacts DEF IInv
<1>1. PICK k \in i..(n - 1) :
        /\ Reaches(i, k, NoSpace) /\ At(k) = "eq"
        /\ IF k + 1 = n
           THEN pc' = "token" /\ i' = k + 1 /\ UNCHANGED value
           ELSE IF At(k + 1) = "quote"
           THEN pc' = "quoted" /\ i' = k + 2 /\ value' = [from |-> k + 2, to |-> k + 2]
           ELSE pc' = "bare" /\ i' = k + 1 /\ UNCHANGED value
  BY DEF FindEquals
<1>2. line' = line /\ pairs' = pairs /\ key' = key /\ pc = "eq"  BY DEF FindEquals
<1>3. AtSplit(i)  BY <1>2 DEF PlainWork
<1>4. PICK w \in Words : w.from = key.from /\ SplitAt(w, i)  BY <1>3 DEF AtSplit
<1>5. At(i) = "eq" /\ i + 1 < n  BY <1>4 DEF SplitAt
<1>6. k = i
  <2> SUFFICES ASSUME k # i PROVE FALSE  OBVIOUS
  <2>1. i \in i..(k - 1)  BY <1>0
  <2>2. At(i) \notin NoSpace  BY <1>1, <2>1 DEF Reaches
  <2> QED  BY <1>5, <2>2 DEF NoSpace, Bytes
<1>7. At(k + 1) # "quote"
  <2>1. k + 1 \in 0..(n - 1)  BY <1>0, <1>5, <1>6
  <2> QED  BY <2>1 DEF Plain
<1>8. pc' = "bare" /\ i' = i + 1 /\ i' - 1 = i  BY <1>0, <1>1, <1>5, <1>6, <1>7
<1>9. AtSplit(i - 1)'
  <2>1. PICK m \in Nat : m = i  BY <1>0
  <2>2. /\ key.to = m /\ Placed(key.from)
        /\ \E v \in Words : v.from = key.from /\ SplitAt(v, m)
    BY <1>3, <2>1 DEF AtSplit
  <2>3. i' - 1 = m  BY <1>8, <2>1
  <2>4. AtSplit(m)'
    <3>1. PICK a : a = key.from  OBVIOUS
    <3>2. Placed(a)'  BY <1>2, <2>2, <3>1, SamePlaced
    <3>3. key'.from = a /\ key'.to = m  BY <1>2, <2>2, <3>1
    <3>4. Placed(key.from)'  BY <3>2, <3>3 DEF Placed, PairsBy, PairsSoFar
    <3>5. (\E v \in Words : v.from = key.from /\ SplitAt(v, m))'
      BY <1>2, <2>2, SamePlain
    <3> QED  BY <3>3, <3>4, <3>5 DEF AtSplit
  <2> QED  BY <2>3, <2>4 DEF AtSplit, SplitAt, At, n
<1> QED  BY <1>8, <1>9 DEF PlainWork

LEMMA BareValuePlain == ASSUME IInv, Plain, PlainWork, BareValue PROVE PlainWork'
<1>0. TypeOK /\ n \in Nat /\ i \in Nat /\ key \in Slice /\ key.from \in Nat
  BY LineFacts DEF IInv
<1>1. PICK k \in i..n : Reaches(i, k, {"ws"}) /\ i' = k  BY DEF BareValue
<1>2. /\ line' = line /\ pc = "bare" /\ pc' = "token"
      /\ pairs' = Append(pairs, [key |-> key, value |-> [from |-> i, to |-> k]])
  BY <1>1 DEF BareValue, Emit
<1>3. AtSplit(i - 1)  BY <1>2 DEF PlainWork
<1>4. PICK w \in Words : w.from = key.from /\ SplitAt(w, i - 1)  BY <1>3 DEF AtSplit
<1>5. /\ w.to \in Nat /\ w.to <= n /\ (w.to = n \/ At(w.to) = "ws")
      /\ \A j \in w.from..(w.to - 1) : At(j) # "ws"
  BY <1>0, WordFacts
<1>6. w.from < i - 1 /\ i - 1 < w.to  BY <1>4 DEF SplitAt
<1>7. k \in Nat /\ i <= k /\ k <= n  BY <1>0
<1>8. ~ (k < w.to)
  <2> SUFFICES ASSUME k < w.to PROVE FALSE  OBVIOUS
  <2>1. k \in w.from..(w.to - 1) /\ k < n  BY <1>0, <1>4, <1>5, <1>6, <1>7
  <2> QED  BY <1>1, <1>5, <2>1 DEF Reaches
<1>9. ~ (w.to < k)
  <2> SUFFICES ASSUME w.to < k PROVE FALSE  OBVIOUS
  <2>1. w.to \in i..(k - 1) /\ w.to # n  BY <1>0, <1>5, <1>6, <1>7
  <2> QED  BY <1>1, <1>5, <2>1 DEF Reaches
<1>10. k = w.to  BY <1>5, <1>7, <1>8, <1>9
<1>11. PICK e \in 0..n : e = i - 1  BY <1>0, <1>4, <1>5, <1>6
<1>12. key = [from |-> w.from, to |-> e] /\ i = e + 1
  <2>1. key.to = e /\ key.from = w.from  BY <1>3, <1>4, <1>11 DEF AtSplit
  <2> QED  BY <1>0, <1>11, <2>1 DEF Slice
<1>13. pairs' = Append(pairs, PairOf(w, e))  BY <1>2, <1>10, <1>12 DEF PairOf
<1>14. Placed(w.from)  BY <1>3, <1>4 DEF AtSplit
<1>15. SplitAt(w, e)  BY <1>4, <1>11
<1>16. Placed(w.to)'  BY <1>0, <1>2, <1>13, <1>14, <1>15, WordAdded
<1>17. Placed(i)'  BY <1>1, <1>10, <1>16 DEF Placed, PairsBy, PairsSoFar
<1>18. (i <= n /\ (i = 0 \/ i = n \/ At(i) = "ws"))'
  BY <1>1, <1>2, <1>5, <1>7, <1>10, SameLine
<1> QED  BY <1>2, <1>17, <1>18 DEF PlainWork

(* A plain line of any length parses to its words, each split at its       *)
(* first '='.                                                              *)
THEOREM PlainLinesExact == Spec => []PlainLineExact
<1>1. ASSUME Init PROVE PlainWork
  <2>1. pairs = <<>> /\ pc = "token" /\ i = 0  BY <1>1 DEF Init
  <2>2. TypeOK /\ n \in Nat
    <3>1. line \in Seq(Bytes) /\ IsUtf8(line)  BY <1>1, LineAssumption DEF Init
    <3> QED  BY <1>1, <3>1 DEF Init, TypeOK, Slice, n
  <2>3. PairsSoFar = {}  BY <2>1 DEF PairsSoFar
  <2>4. PairsBy(0) = {}
    <3>1. \A w \in Words : ~ (w.to <= 0)
      <4>1. ASSUME NEW w \in Words PROVE ~ (w.to <= 0)  BY <2>2, WordFacts
      <4> QED  BY <4>1
    <3> QED  BY <3>1 DEF PairsBy
  <2>5. Placed(i)  BY <2>1, <2>3, <2>4 DEF Placed
  <2> QED  BY <2>1, <2>2, <2>5 DEF PlainWork
<1>2. ASSUME IInv, PlainWork, [Next]_vars PROVE PlainWork'
  <2>1. line' = line  BY <1>2, StepLine
  <2>2. CASE ~ Plain  BY <2>1, <2>2, SamePlain DEF PlainWork
  <2>3. CASE Plain /\ UNCHANGED vars
    <3>1. /\ line' = line /\ pc' = pc /\ i' = i /\ key' = key /\ pairs' = pairs
      BY <2>3 DEF vars
    <3>2. n' = n /\ \A k : At(k)' = At(k)  BY <3>1, SameLine
    <3>3. Placed(i)' = Placed(i) /\ Placed(key.from)' = Placed(key.from) /\ Placed(n)' = Placed(n)
      <4>1. PICK a, b, c : a = i /\ b = key.from /\ c = n  OBVIOUS
      <4>2. Placed(a)' = Placed(a) /\ Placed(b)' = Placed(b) /\ Placed(c)' = Placed(c)
        BY <3>1, SamePlaced
      <4>3. i' = a /\ key'.from = b /\ n' = c  BY <3>1, <3>2, <4>1
      <4>4. /\ Placed(i)' = Placed(a)' /\ Placed(key.from)' = Placed(b)'
            /\ Placed(n)' = Placed(c)'
        BY <4>3 DEF Placed, PairsBy, PairsSoFar
      <4> QED  BY <4>1, <4>2, <4>4
    <3>4. AtSplit(i)' = AtSplit(i) /\ AtSplit(i - 1)' = AtSplit(i - 1)
      BY <3>1, <3>3, SamePlain DEF AtSplit
    <3> QED  BY <1>2, <2>3, <3>1, <3>2, <3>3, <3>4 DEF PlainWork
  <2>4. CASE Plain /\ Next
    BY <1>2, <2>4, DonePlain, SkipSpacePlain, TakeKeyPlain, FindEqualsPlain, BareValuePlain,
       NotOnPlain DEF Next
  <2> QED  BY <1>2, <2>2, <2>3, <2>4
<1>3. ASSUME IInv, PlainWork PROVE PlainLineExact
  <2>1. TypeOK  BY <1>3 DEF IInv
  <2> SUFFICES ASSUME pc = "done", Plain
               PROVE  PairsSoFar =
                        {[key |-> [from |-> s[1].from, to |-> s[2]],
                          value |-> [from |-> s[2] + 1, to |-> s[1].to]] :
                           s \in {p \in Words \X (0..n) : SplitAt(p[1], p[2])}}
    BY DEF PlainLineExact, PairsSoFar
  <2>2. PairsSoFar = PairsBy(n)  BY <1>3 DEF PlainWork, Placed
  <2>3. {p \in Words \X (0..n) : SplitAt(p[1], p[2])} =
          {p \in Words \X (0..n) : SplitAt(p[1], p[2]) /\ p[1].to <= n}
    <3>1. ASSUME NEW w \in Words PROVE w.to <= n  BY <2>1, WordFacts
    <3> QED  BY <3>1
  <2>4. PairsBy(n) =
          {PairOf(s[1], s[2]) : s \in {p \in Words \X (0..n) : SplitAt(p[1], p[2])}}
    BY <2>3 DEF PairsBy
  <2> QED  BY <2>2, <2>4 DEF PairOf
<1> QED  BY <1>1, <1>2, <1>3, Inductive, PTL DEF Spec
=============================================================================
