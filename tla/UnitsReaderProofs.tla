-------------------------- MODULE UnitsReaderProofs -------------------------
(***************************************************************************)
(* What the stream of a UnitSource guarantees for every text, every cut of *)
(* it into units, every caller and any number of failures, as long as a    *)
(* source that fails leaves nothing in the buffer.                         *)
(***************************************************************************)
EXTENDS UnitsReader, TLAPS, WellFoundedInduction

-----------------------------------------------------------------------------
(* The inductive invariant.                                                *)

(* The buffer is the unit read last, or empty.                             *)
WholeUnit ==
  buf = <<>> \/ (next \in 1..Len(text) /\ buf = Bytes(next, Len(text[next])))

(* The bytes the stream has passed.                                        *)
Passed(p) == p[1] < next \/ (p[1] = next /\ (buf = <<>> \/ p[2] <= pos))

Before(p, q) == p[1] < q[1] \/ (p[1] = q[1] /\ p[2] < q[2])

LastOf(l) == l[Len(l)]

Tip == LastOf(LastOf(pieces))

(* As long as bytes are left no line is in work, and the byte handed out   *)
(* last is the last one passed.                                            *)
Frontier ==
  \A q \in Positions : ~ Passed(q) =>
    /\ hand = <<>>
    /\ pieces = <<>> => \A p \in Positions : ~ Passed(p)
    /\ pieces # <<>> => /\ Tip \in Positions /\ Passed(Tip)
                        /\ \A p \in Positions : Passed(p) => p = Tip \/ Before(p, Tip)

(* The piece `l' goes on where the pieces stop.                            *)
Continues(l) ==
  /\ l # <<>>
  /\ IF pieces = <<>> THEN FirstByte(l[1]) ELSE Behind(Tip, l[1])
  /\ \A k \in 1..(Len(l) - 1) : Behind(l[k], l[k + 1])

IsLine(l) == /\ \A k \in 1..(Len(l) - 1) : At(l[k]) # "nl"
             /\ At(LastOf(l)) = "nl" \/ LastByte(LastOf(l))

(* A line in work lacks its end: it is the end of the text.                *)
HandEnds ==
  hand # <<>> =>
    /\ Continues(hand)
    /\ caller = "lines" => IsLine(hand)
    /\ \A k \in DOMAIN hand : hand[k] \in LastLine

Handed == UNION {{pieces[i][k] : k \in DOMAIN pieces[i]} : i \in DOMAIN pieces}

PassedHanded ==
  \A p \in Positions :
    Passed(p) => p \in dropped \/ p \in Handed \/ \E k \in DOMAIN hand : hand[k] = p

AllPassed == pc = "ended" => hand = <<>> /\ \A p \in Positions : Passed(p)

(* Units are whole lines, all but the last.                                *)
WholeLines == \A u \in 1..(Len(text) - 1) : text[u] # <<>> => EndsLine(text[u])

IInv == /\ TypeOK /\ WholeLines /\ WholeUnit /\ Frontier /\ HandEnds /\ PassedHanded
        /\ AllPassed /\ InOrder /\ LinesOfText /\ dropped \subseteq LastLine

-----------------------------------------------------------------------------
(* Positions and pieces.                                                   *)

LEMMA PositionIs ==
  ASSUME TypeOK
  PROVE  /\ \A p \in Positions : /\ p[1] \in 1..Len(text) /\ p[2] \in 1..Len(text[p[1]])
                                 /\ p = <<p[1], p[2]>>
         /\ \A u \in 1..Len(text) : \A k \in 1..Len(text[u]) : <<u, k>> \in Positions
         /\ Len(text) \in Nat /\ \A u \in 1..Len(text) : Len(text[u]) \in Nat
<1>1. Len(text) \in Nat /\ \A u \in 1..Len(text) : text[u] \in Seq({"c", "nl"})
  BY DEF TypeOK
<1>2. \A u \in 1..Len(text) : Len(text[u]) \in Nat  BY <1>1
<1>3. ASSUME NEW u \in 1..Len(text), NEW k \in 1..Len(text[u]) PROVE <<u, k>> \in Positions
  <2>1. <<u, k>> \in {u} \X (1..Len(text[u]))  OBVIOUS
  <2> QED  BY <2>1 DEF Positions
<1>4. ASSUME NEW p \in Positions
      PROVE  p[1] \in 1..Len(text) /\ p[2] \in 1..Len(text[p[1]]) /\ p = <<p[1], p[2]>>
  <2>1. PICK u \in 1..Len(text) : p \in {u} \X (1..Len(text[u]))  BY <1>4 DEF Positions
  <2> QED  BY <2>1
<1> QED  BY <1>1, <1>2, <1>3, <1>4

LEMMA BehindIs ==
  ASSUME NEW u, NEW k, NEW v, NEW j
  PROVE  Behind(<<u, k>>, <<v, j>>) <=>
           \/ v = u /\ j = k + 1
           \/ k = Len(text[u]) /\ j = 1 /\ u < v /\ \A w \in (u + 1)..(v - 1) : text[w] = <<>>
BY DEF Behind

(* When a unit has been handed out, its bytes are passed, and those of the *)
(* units behind it are not.                                                *)
LEMMA PassedDrained ==
  ASSUME TypeOK, WholeUnit, pos = Len(buf), NEW p \in Positions
  PROVE  Passed(p) <=> p[1] <= next
<1>1. /\ p[1] \in 1..Len(text) /\ p[2] \in 1..Len(text[p[1]]) /\ next \in Nat
      /\ Len(text) \in Nat
  BY PositionIs DEF TypeOK
<1>2. CASE buf = <<>>  BY <1>1, <1>2 DEF Passed
<1>3. CASE buf # <<>>
  <2>1. next \in 1..Len(text) /\ Len(text[next]) \in Nat /\ Len(buf) = Len(text[next])
    BY <1>3, PositionIs DEF WholeUnit, Bytes
  <2>2. CASE p[1] = next
    <3>1. p[2] <= pos  BY <1>1, <2>1, <2>2
    <3> QED  BY <1>1, <2>2, <3>1 DEF Passed
  <2>3. CASE p[1] # next  BY <1>1, <2>3 DEF Passed
  <2> QED  BY <2>2, <2>3
<1> QED  BY <1>2, <1>3

(* A piece that continues the pieces keeps them in order.                  *)
LEMMA PieceAppended ==
  ASSUME IInv, NEW l \in Seq(Positions), Continues(l), caller = "lines" => IsLine(l),
         pieces' = Append(pieces, l), UNCHANGED <<text, caller>>
  PROVE  /\ pieces' \in Seq(Seq(Positions)) /\ InOrder' /\ LinesOfText'
         /\ pieces' # <<>> /\ Tip' = LastOf(l)
         /\ \A p : p \in Handed' <=> p \in Handed \/ \E k \in DOMAIN l : l[k] = p
<1>1. pieces \in Seq(Seq(Positions)) /\ Len(pieces) \in Nat  BY DEF IInv, TypeOK
<1>2. /\ pieces' \in Seq(Seq(Positions)) /\ Len(pieces') = Len(pieces) + 1
      /\ DOMAIN pieces = 1..Len(pieces) /\ DOMAIN pieces' = 1..(Len(pieces) + 1)
      /\ pieces'[Len(pieces) + 1] = l
      /\ \A i \in 1..Len(pieces) : pieces'[i] = pieces[i]
  BY <1>1
<1>3. \A i \in DOMAIN pieces' : i \in DOMAIN pieces \/ i = Len(pieces) + 1
  BY <1>1, <1>2
<1>4. pieces = <<>> <=> Len(pieces) = 0  BY <1>1
<1>5. InOrder'
  <2> SUFFICES ASSUME NEW i \in DOMAIN pieces'
               PROVE  /\ pieces'[i] # <<>>
                      /\ IF i = 1 THEN FirstByte(pieces'[i][1])
                         ELSE Behind(pieces'[i - 1][Len(pieces'[i - 1])], pieces'[i][1])
                      /\ \A k \in 1..(Len(pieces'[i]) - 1) : Behind(pieces'[i][k], pieces'[i][k + 1])
    BY DEF InOrder, FirstByte, Behind
  <2>1. CASE i \in DOMAIN pieces
    <3>1. i # 1 => i - 1 \in 1..Len(pieces)  BY <1>1, <1>2, <2>1
    <3>2. pieces'[i] = pieces[i] /\ (i # 1 => pieces'[i - 1] = pieces[i - 1])
      BY <1>2, <2>1, <3>1
    <3> QED  BY <2>1, <3>2 DEF IInv, InOrder
  <2>2. CASE i = Len(pieces) + 1
    <3>1. pieces'[i] = l  BY <1>2, <2>2
    <3>2. CASE pieces = <<>>
      <4>1. i = 1  BY <1>4, <2>2, <3>2
      <4> QED  BY <3>1, <3>2, <4>1 DEF Continues
    <3>3. CASE pieces # <<>>
      <4>1. i # 1 /\ i - 1 = Len(pieces) /\ Len(pieces) \in 1..Len(pieces)
        BY <1>1, <1>4, <2>2, <3>3
      <4>2. pieces'[i - 1] = LastOf(pieces)  BY <1>2, <4>1 DEF LastOf
      <4> QED  BY <3>1, <3>3, <4>1, <4>2 DEF Continues, Tip, LastOf
    <3> QED  BY <3>2, <3>3
  <2> QED  BY <1>3, <2>1, <2>2
<1>6. LinesOfText'
  <2> SUFFICES ASSUME caller = "lines", NEW i \in DOMAIN pieces' PROVE IsLine(pieces'[i])
    BY DEF LinesOfText, IsLine, LastOf, At, LastByte
  <2>1. CASE i \in DOMAIN pieces
    BY <1>2, <2>1 DEF IInv, LinesOfText, IsLine, LastOf
  <2>2. CASE i = Len(pieces) + 1  BY <1>2, <2>2
  <2> QED  BY <1>3, <2>1, <2>2
<1>7. pieces' # <<>> /\ Tip' = LastOf(l)
  <2>1. LastOf(pieces') = l  BY <1>2 DEF LastOf
  <2>2. pieces' # <<>>  BY <1>1, <1>2
  <2> QED  BY <2>1, <2>2 DEF Tip, LastOf
<1>8. ASSUME NEW p PROVE p \in Handed' <=> p \in Handed \/ \E k \in DOMAIN l : l[k] = p
  <2>1. p \in Handed' <=> \E i \in DOMAIN pieces' : \E k \in DOMAIN pieces'[i] : pieces'[i][k] = p
    BY DEF Handed
  <2>2. p \in Handed <=> \E i \in DOMAIN pieces : \E k \in DOMAIN pieces[i] : pieces[i][k] = p
    BY DEF Handed
  <2>3. Len(pieces) + 1 \in DOMAIN pieces' /\ DOMAIN pieces \subseteq DOMAIN pieces'
    BY <1>1, <1>2
  <2> QED  BY <1>2, <1>3, <2>1, <2>2, <2>3
<1> QED  BY <1>2, <1>5, <1>6, <1>7, <1>8

-----------------------------------------------------------------------------
(* Bytes taken from the buffer.                                            *)

(* Bytes taken from the buffer go on where the pieces stop, whoever takes  *)
(* them.                                                                   *)
LEMMA TakenContinues ==
  ASSUME IInv, pos < Len(buf), NEW e \in (pos + 1)..Len(buf),
         NEW l, l = SubSeq(buf, pos + 1, e)
  PROVE  /\ hand = <<>> /\ next \in 1..Len(text) /\ Len(buf) = Len(text[next])
         /\ pos \in Nat /\ Len(buf) \in Nat /\ e \in Nat
         /\ l \in Seq(Positions) /\ Len(l) = e - pos
         /\ \A k \in 1..(e - pos) : l[k] = <<next, pos + k>>
         /\ LastOf(l) = <<next, e>> /\ Continues(l)
<1>1. TypeOK /\ WholeUnit /\ Frontier  BY DEF IInv
<1>2. /\ pos \in Nat /\ Len(buf) \in Nat /\ e \in Nat /\ buf # <<>>
      /\ buf \in Seq(Positions)
  BY <1>1 DEF TypeOK
<1>3. /\ next \in 1..Len(text) /\ Len(buf) = Len(text[next])
      /\ \A k \in 1..Len(buf) : buf[k] = <<next, k>>
  <2>1. next \in 1..Len(text) /\ buf = Bytes(next, Len(text[next]))
    BY <1>1, <1>2 DEF WholeUnit
  <2>2. Len(text[next]) \in Nat  BY <1>1, <2>1, PositionIs
  <2> QED  BY <2>1, <2>2 DEF Bytes
<1>4. l \in Seq(Positions) /\ Len(l) = e - pos /\ \A k \in 1..(e - pos) : l[k] = buf[pos + k]
  BY <1>2
<1>5. \A k \in 1..(e - pos) : l[k] = <<next, pos + k>>
  <2> TAKE k \in 1..(e - pos)
  <2>1. pos + k \in 1..Len(buf)  BY <1>2
  <2> QED  BY <1>3, <1>4, <2>1
<1>6. LastOf(l) = <<next, e>> /\ l # <<>> /\ l[1] = <<next, pos + 1>>
  <2>1. e - pos \in 1..(e - pos) /\ 1 \in 1..(e - pos) /\ pos + (e - pos) = e  BY <1>2
  <2>2. l # <<>>  BY <1>2, <1>4
  <2> QED  BY <1>4, <1>5, <2>1, <2>2 DEF LastOf
<1> DEFINE q == <<next, pos + 1>>
<1>7. q \in Positions /\ ~ Passed(q) /\ next \in Nat
  <2>1. pos + 1 \in 1..Len(text[next])  BY <1>2, <1>3
  <2>2. q \in Positions  BY <1>1, <1>3, <2>1, PositionIs
  <2>3. ~ Passed(q)  BY <1>2, <1>3 DEF Passed
  <2> QED  BY <1>1, <2>2, <2>3 DEF TypeOK
<1>8. /\ hand = <<>>
      /\ pieces = <<>> => \A p \in Positions : ~ Passed(p)
      /\ pieces # <<>> => /\ Tip \in Positions /\ Passed(Tip)
                          /\ \A p \in Positions : Passed(p) => p = Tip \/ Before(p, Tip)
  BY <1>1, <1>7 DEF Frontier
<1>9. \A k \in 1..(Len(l) - 1) : Behind(l[k], l[k + 1])
  <2> TAKE k \in 1..(Len(l) - 1)
  <2>1. k \in 1..(e - pos) /\ k + 1 \in 1..(e - pos)  BY <1>2, <1>4
  <2>2. l[k] = <<next, pos + k>> /\ l[k + 1] = <<next, pos + (k + 1)>>  BY <1>5, <2>1
  <2>3. pos + (k + 1) = pos + k + 1  BY <1>2, <2>1
  <2>4. Behind(<<next, pos + k>>, <<next, pos + (k + 1)>>)  BY ONLY <2>3, BehindIs
  <2> QED  BY ONLY <2>2, <2>4
(* Of the units before this one all bytes are passed, and of this one the  *)
(* first ones.                                                             *)
<1>10. /\ pos > 0 => <<next, pos>> \in Positions /\ Passed(<<next, pos>>)
       /\ \A u \in 1..(next - 1) : \A k \in 1..Len(text[u]) :
            <<u, k>> \in Positions /\ Passed(<<u, k>>)
  <2>1. ASSUME pos > 0 PROVE <<next, pos>> \in Positions /\ Passed(<<next, pos>>)
    <3>1. pos \in 1..Len(text[next])  BY <1>2, <1>3, <2>1
    <3> QED  BY <1>1, <1>3, <3>1, <1>2, PositionIs DEF Passed
  <2>2. ASSUME NEW u \in 1..(next - 1), NEW k \in 1..Len(text[u])
        PROVE  <<u, k>> \in Positions /\ Passed(<<u, k>>)
    <3>1. u \in 1..Len(text) /\ u < next  BY <1>3, <1>7, <1>1, PositionIs
    <3> QED  BY <1>1, <3>1, PositionIs DEF Passed
  <2> QED  BY <2>1, <2>2
<1>11. CASE pieces = <<>>
  <2>1. pos = 0  BY <1>2, <1>8, <1>10, <1>11
  <2>2. ASSUME NEW u \in 1..(next - 1) PROVE text[u] = <<>>
    <3>1. u \in 1..Len(text)  BY <1>1, <1>3, <1>7, PositionIs
    <3>2. text[u] \in Seq({"c", "nl"})  BY <1>1, <3>1 DEF TypeOK
    <3>3. ~ (1 \in 1..Len(text[u]))  BY <1>8, <1>10, <1>11
    <3> QED  BY <3>2, <3>3
  <2>3. FirstByte(l[1])  BY <1>6, <2>1, <2>2 DEF FirstByte
  <2> QED  BY <1>2, <1>3, <1>4, <1>5, <1>6, <1>8, <1>9, <1>11, <2>3 DEF Continues
<1>12. CASE pieces # <<>>
  <2>1. /\ Tip \in Positions /\ Passed(Tip)
        /\ \A p \in Positions : Passed(p) => p = Tip \/ Before(p, Tip)
    BY <1>8, <1>12
  <2> DEFINE u == Tip[1]
             k == Tip[2]
  <2>2. /\ u \in 1..Len(text) /\ k \in 1..Len(text[u]) /\ Tip = <<u, k>>
        /\ Len(text) \in Nat /\ Len(text[u]) \in Nat
    BY <1>1, <2>1, PositionIs
  <2>3. u < next \/ (u = next /\ k <= pos)  BY <1>2, <2>1 DEF Passed
  <2>4. ASSUME NEW v \in Nat, NEW j \in Nat, <<v, j>> \in Positions, Passed(<<v, j>>)
        PROVE  v < u \/ (v = u /\ j <= k)
    <3>1. <<v, j>> = Tip \/ Before(<<v, j>>, Tip)  BY <2>1, <2>4
    <3>2. CASE <<v, j>> = Tip
      <4>1. v = u /\ j = k  BY <2>2, <3>2
      <4> QED  BY <2>2, <4>1
    <3>3. CASE Before(<<v, j>>, Tip)  BY <2>2, <2>4, <3>3 DEF Before
    <3> QED  BY <3>1, <3>2, <3>3
  <2> HIDE DEF u, k
  <2>7. Behind(Tip, l[1])
    <3>1. CASE u = next
      <4>1. k <= pos /\ pos > 0  BY <1>2, <1>7, <2>2, <2>3, <3>1
      <4>2. pos <= k  BY <1>2, <1>7, <1>10, <2>4, <3>1, <4>1
      <4>3. pos + 1 = k + 1  BY <1>2, <2>2, <4>1, <4>2
      <4>4. Behind(<<u, k>>, <<next, pos + 1>>)  BY ONLY <3>1, <4>3, BehindIs
      <4> QED  BY ONLY <1>6, <2>2, <4>4
    <3>2. CASE u # next
      <4>1. u < next /\ u \in Nat /\ k \in Nat /\ u \in 1..(next - 1)
        BY <1>7, <2>2, <2>3, <3>2
      <4>2. k = Len(text[u])
        <5>1. CASE k < Len(text[u])
          <6>1. k + 1 \in 1..Len(text[u]) /\ k + 1 \in Nat  BY <2>2, <5>1
          <6>2. <<u, k + 1>> \in Positions /\ Passed(<<u, k + 1>>)  BY <1>10, <4>1, <6>1
          <6>3. k + 1 <= k  BY <2>4, <4>1, <6>1, <6>2
          <6> QED  BY <4>1, <6>3
        <5> QED  BY <2>2, <4>1, <5>1
      <4>3. pos = 0
        <5>1. pos > 0 => next < u \/ (next = u /\ pos <= k)  BY <1>2, <1>7, <1>10, <2>4
        <5> QED  BY <1>2, <1>7, <4>1, <5>1
      <4>4. ASSUME NEW v \in (u + 1)..(next - 1) PROVE text[v] = <<>>
        <5>1. v \in 1..Len(text) /\ v \in 1..(next - 1) /\ v \in Nat /\ u < v
          BY <1>1, <1>3, <1>7, <4>1, PositionIs
        <5>2. text[v] \in Seq({"c", "nl"})  BY <1>1, <5>1 DEF TypeOK
        <5>3. ~ (1 \in 1..Len(text[v]))
          <6> SUFFICES ASSUME 1 \in 1..Len(text[v]) PROVE FALSE  OBVIOUS
          <6>1. <<v, 1>> \in Positions /\ Passed(<<v, 1>>)  BY <1>10, <5>1
          <6>2. v < u \/ v = u  BY <2>4, <5>1, <6>1
          <6> QED  BY <4>1, <5>1, <6>2
        <5> QED  BY <5>2, <5>3
      <4>5. pos + 1 = 1  BY <4>3
      <4>6. Behind(<<u, k>>, <<next, pos + 1>>)
        BY ONLY <4>1, <4>2, <4>4, <4>5, BehindIs
      <4> QED  BY ONLY <1>6, <2>2, <4>6
    <3> QED  BY <3>1, <3>2
  <2> QED  BY <1>2, <1>3, <1>4, <1>5, <1>6, <1>8, <1>9, <1>12, <2>7 DEF Continues
<1> QED  BY <1>11, <1>12

(* Bytes that are taken from the buffer are passed, and no others.         *)
LEMMA TakenPassed ==
  ASSUME IInv, pos < Len(buf), NEW e \in (pos + 1)..Len(buf),
         pos' = e, UNCHANGED <<text, next, buf>>, NEW p \in Positions
  PROVE  /\ Passed(p) => Passed(p)'
         /\ Passed(p)' => Passed(p) \/ \E k \in 1..(e - pos) : p = <<next, pos + k>>
         /\ Passed(p)' => p = <<next, e>> \/ Before(p, <<next, e>>)
<1>1. TypeOK  BY DEF IInv
<1>2. /\ pos \in Nat /\ Len(buf) \in Nat /\ e \in Nat /\ buf # <<>> /\ pos < e /\ next \in Nat
      /\ p[1] \in Nat /\ p[2] \in Nat /\ p = <<p[1], p[2]>>
  <2>1. /\ p[1] \in 1..Len(text) /\ p[2] \in 1..Len(text[p[1]]) /\ p = <<p[1], p[2]>>
        /\ Len(text) \in Nat /\ Len(text[p[1]]) \in Nat
    BY <1>1, PositionIs
  <2>2. pos \in Nat /\ Len(buf) \in Nat /\ next \in Nat  BY <1>1, <2>1 DEF TypeOK
  <2>3. e \in Nat /\ pos < e /\ buf # <<>>  BY <2>2
  <2> QED  BY <2>1, <2>2, <2>3
<1>3. Passed(p) <=> p[1] < next \/ (p[1] = next /\ p[2] <= pos)  BY <1>2 DEF Passed
<1>4. Passed(p)' <=> p[1] < next \/ (p[1] = next /\ p[2] <= e)  BY <1>2 DEF Passed
<1>5. Passed(p) => Passed(p)'  BY <1>2, <1>3, <1>4
<1>6. ASSUME Passed(p)', ~ Passed(p) PROVE \E k \in 1..(e - pos) : p = <<next, pos + k>>
  <2>1. p[1] = next /\ p[2] <= e /\ ~ (p[2] <= pos)  BY <1>3, <1>4, <1>6
  <2>2. p[2] - pos \in 1..(e - pos) /\ pos + (p[2] - pos) = p[2]  BY <1>2, <2>1
  <2> QED  BY <1>2, <2>1, <2>2
<1>7. ASSUME Passed(p)' PROVE p = <<next, e>> \/ Before(p, <<next, e>>)
  <2>1. p[1] < next \/ (p[1] = next /\ (p[2] < e \/ p[2] = e))  BY <1>2, <1>4, <1>7
  <2> QED  BY <1>2, <2>1 DEF Before
<1> QED  BY <1>5, <1>6, <1>7

(* A call that returns a piece of the buffer.                              *)
LEMMA PieceTaken ==
  ASSUME IInv, pos < Len(buf), NEW e \in (pos + 1)..Len(buf),
         NEW l, l = SubSeq(buf, pos + 1, e), caller = "lines" => IsLine(l),
         pos' = e, pieces' = Append(pieces, l), hand' = <<>>, pc' = "idle",
         UNCHANGED <<text, caller, next, buf, dropped>>
  PROVE  IInv'
<1>1. TypeOK  BY DEF IInv
<1>2. /\ next \in 1..Len(text) /\ Len(buf) = Len(text[next])
      /\ pos \in Nat /\ Len(buf) \in Nat /\ e \in Nat
      /\ l \in Seq(Positions) /\ Len(l) = e - pos
      /\ \A k \in 1..(e - pos) : l[k] = <<next, pos + k>>
      /\ LastOf(l) = <<next, e>> /\ Continues(l) /\ hand = <<>>
  BY TakenContinues
<1>3. Positions' = Positions /\ LastLine' = LastLine  BY DEF Positions, LastLine, At
<1>4. /\ pieces' \in Seq(Seq(Positions)) /\ InOrder' /\ LinesOfText'
      /\ pieces' # <<>> /\ Tip' = <<next, e>>
      /\ \A p : p \in Handed' <=> p \in Handed \/ \E k \in DOMAIN l : l[k] = p
  BY <1>2, PieceAppended
<1>5. TypeOK'
  <2>1. hand' \in Seq(Positions) /\ pos' \in 0..Len(buf)  BY <1>2
  <2> QED  BY <1>1, <1>3, <1>4, <2>1 DEF TypeOK
<1>6. WholeLines' /\ WholeUnit'  BY DEF IInv, WholeLines, WholeUnit, EndsLine, Bytes
<1>7. Frontier'
  <2>1. <<next, e>> \in Positions
    <3>1. e \in 1..Len(text[next])  BY <1>2
    <3> QED  BY <1>1, <1>2, <3>1, PositionIs
  <2>2. Passed(<<next, e>>)'  BY <1>2 DEF Passed
  <2>3. \A p \in Positions : Passed(p)' => p = <<next, e>> \/ Before(p, <<next, e>>)
    BY TakenPassed
  <2> QED  BY <1>3, <1>4, <2>1, <2>2, <2>3 DEF Frontier, Before
<1>8. HandEnds' /\ AllPassed'  BY DEF HandEnds, AllPassed
<1>9. PassedHanded'
  <2> SUFFICES ASSUME NEW p \in Positions, Passed(p)' PROVE p \in dropped \/ p \in Handed'
    BY <1>3 DEF PassedHanded
  <2>1. CASE Passed(p)
    <3>1. p \in dropped \/ p \in Handed  BY <1>2, <2>1 DEF IInv, PassedHanded
    <3> QED  BY <1>4, <3>1
  <2>2. CASE ~ Passed(p)
    <3>1. PICK k \in 1..(e - pos) : p = <<next, pos + k>>  BY <2>2, TakenPassed
    <3>2. DOMAIN l = 1..(e - pos)  BY <1>2
    <3>3. k \in DOMAIN l /\ l[k] = p  BY <1>2, <3>1, <3>2
    <3> QED  BY <1>4, <3>3
  <2> QED  BY <2>1, <2>2
<1>10. (dropped \subseteq LastLine)'  BY <1>3 DEF IInv
<1> QED  BY <1>4, <1>5, <1>6, <1>7, <1>8, <1>9, <1>10 DEF IInv

(* A set of numbers that is not empty has a least one.                     *)
LEMMA Least ==
  ASSUME NEW S \in SUBSET Nat, S # {}
  PROVE  \E k \in S : \A j \in S : k <= j
<1>1. PICK k \in S : \A j \in S : ~ (<<j, k>> \in OpToRel(<, Nat))
  BY NatLessThanWellFounded, WFMin
<1>2. \A j \in S : ~ (j < k)  BY <1>1 DEF OpToRel
<1> QED  BY <1>2

LEMMA TakeChunkInv == ASSUME IInv, TakeChunk PROVE IInv'
<1>1. pos < Len(buf) /\ caller = "chunks" /\ hand' = hand
      /\ pieces' = Append(pieces, SubSeq(buf, pos + 1, pos')) /\ pc' = "idle"
      /\ UNCHANGED <<text, caller, next, buf, dropped>>
  BY DEF TakeChunk, Filled
<1>2. PICK m \in 1..MaxChunk : pos' = LeastOf(pos + m, Len(buf))  BY DEF TakeChunk
<1>3. pos' \in (pos + 1)..Len(buf)
  <2>1. pos \in Nat /\ Len(buf) \in Nat /\ m \in Nat /\ m >= 1
    BY <1>2, UnitsAssumption DEF IInv, TypeOK
  <2> QED  BY <1>1, <1>2, <2>1 DEF LeastOf
<1>4. hand = <<>>  BY <1>1, <1>3, TakenContinues
<1>5. caller # "lines"  BY <1>1
<1> QED  BY <1>1, <1>3, <1>4, <1>5, PieceTaken

LEMMA TakeLineInv == ASSUME IInv, TakeLine PROVE IInv'
<1>1. /\ pc = "reading" /\ pos < Len(buf) /\ caller = "lines"
      /\ UNCHANGED <<text, caller, next, buf, dropped>>
  BY DEF TakeLine, Filled
<1>2. TypeOK /\ pos \in Nat /\ Len(buf) \in Nat  BY DEF IInv, TypeOK
<1>3. Newlines \in SUBSET Nat  BY <1>2 DEF Newlines
<1>4. Len(buf) \in (pos + 1)..Len(buf)  BY <1>1, <1>2
<1>5. hand = <<>>  BY <1>1, <1>4, TakenContinues
<1>6. CASE Newlines # {}
  <2>1. /\ pos' = CHOOSE k \in Newlines : \A j \in Newlines : k <= j
        /\ pieces' = Append(pieces, hand \o SubSeq(buf, pos + 1, pos'))
        /\ hand' = <<>> /\ pc' = "idle"
    BY <1>6 DEF TakeLine
  <2>2. pos' \in Newlines /\ \A j \in Newlines : pos' <= j  BY <1>3, <1>6, <2>1, Least
  <2>3. pos' \in (pos + 1)..Len(buf) /\ At(buf[pos']) = "nl"  BY <2>2 DEF Newlines
  <2> DEFINE l == SubSeq(buf, pos + 1, pos')
  <2>4. /\ l \in Seq(Positions) /\ Len(l) = pos' - pos /\ LastOf(l) = <<next, pos'>>
        /\ \A k \in 1..(pos' - pos) : l[k] = <<next, pos + k>>
    BY <1>1, <2>3, TakenContinues
  <2>5. \A k \in 1..Len(buf) : buf[k] = <<next, k>>
    <3>1. buf = Bytes(next, Len(text[next]))  BY <1>1, <1>2 DEF IInv, WholeUnit
    <3> QED  BY <1>2, <3>1 DEF Bytes
  <2>6. pieces' = Append(pieces, l)  BY <1>5, <2>1, <2>4
  <2> HIDE DEF l
  <2>7. IsLine(l)
    <3>1. At(LastOf(l)) = "nl"
      <4>1. pos' \in 1..Len(buf)  BY <1>2, <2>3
      <4> QED  BY <2>3, <2>4, <2>5, <4>1
    <3>2. ASSUME NEW k \in 1..(Len(l) - 1) PROVE At(l[k]) # "nl"
      <4>1. /\ pos + k \in (pos + 1)..Len(buf) /\ pos + k < pos' /\ pos + k \in 1..Len(buf)
            /\ k \in 1..(pos' - pos)
        BY <1>2, <2>3, <2>4
      <4>2. pos + k \notin Newlines  BY <1>2, <2>2, <2>3, <4>1
      <4>3. At(buf[pos + k]) # "nl"  BY <4>1, <4>2 DEF Newlines
      <4> QED  BY <2>4, <2>5, <4>1, <4>3
    <3> QED  BY <3>1, <3>2 DEF IsLine
  <2> QED  BY <1>1, <2>1, <2>3, <2>6, <2>7, PieceTaken DEF l
<1>7. CASE Newlines = {}
  <2>1. /\ pos' = Len(buf) /\ hand' = hand \o SubSeq(buf, pos + 1, pos')
        /\ pc' = pc /\ pieces' = pieces
    BY <1>7 DEF TakeLine
  <2> DEFINE l == SubSeq(buf, pos + 1, Len(buf))
             n == Len(buf) - pos
  <2>2. /\ next \in 1..Len(text) /\ Len(buf) = Len(text[next])
        /\ l \in Seq(Positions) /\ Len(l) = n /\ LastOf(l) = <<next, Len(buf)>>
        /\ \A k \in 1..n : l[k] = <<next, pos + k>>
        /\ Continues(l)
    BY <1>1, <1>4, TakenContinues
  <2>3. hand' = l /\ l # <<>> /\ n \in Nat /\ n >= 1
    <3>1. hand' = l  BY <1>5, <2>1, <2>2
    <3>2. n \in Nat /\ n >= 1  BY <1>1, <1>2
    <3>3. l # <<>>
      <4>1. Len(l) # 0  BY <2>2, <3>2
      <4>2. Len(<<>>) = 0  OBVIOUS
      <4> QED  BY <4>1, <4>2
    <3> QED  BY <3>1, <3>2, <3>3
  <2>4. \A k \in 1..Len(buf) : buf[k] = <<next, k>>
    <3>1. buf = Bytes(next, Len(text[next]))  BY <1>1, <1>2 DEF IInv, WholeUnit
    <3> QED  BY <1>2, <2>2, <3>1 DEF Bytes
  <2>5. \A k \in (pos + 1)..Len(buf) : text[next][k] # "nl"
    <3> TAKE k \in (pos + 1)..Len(buf)
    <3>1. k \in 1..Len(buf) /\ At(buf[k]) # "nl"  BY <1>2, <1>7 DEF Newlines
    <3> QED  BY <2>4, <3>1 DEF At
  <2> HIDE DEF l, n
  <2>6. next = Len(text) /\ Len(text) \in Nat
    <3>1. Len(text) \in Nat /\ text[next] # <<>>
      BY <1>1, <1>2, <2>2, PositionIs
    <3>2. text[next][Len(text[next])] # "nl"  BY <1>4, <2>2, <2>5
    <3>3. ~ (next \in 1..(Len(text) - 1))  BY <3>1, <3>2 DEF IInv, WholeLines, EndsLine
    <3> QED  BY <2>2, <3>1, <3>3
  <2>7. Positions' = Positions /\ LastLine' = LastLine /\ Handed' = Handed /\ Tip' = Tip
    BY <1>1, <2>1 DEF Positions, LastLine, At, Handed, Tip, LastOf
  <2>8. \A p \in Positions : Passed(p)'
    <3> TAKE p \in Positions
    <3>1. p[1] \in 1..Len(text) /\ p[2] \in 1..Len(text[p[1]]) /\ buf # <<>>
      BY <1>1, <1>2, PositionIs
    <3>2. p[1] < next \/ (p[1] = next /\ p[2] <= Len(buf))  BY <1>2, <2>2, <2>6, <3>1
    <3> QED  BY <1>1, <2>1, <3>2 DEF Passed
  <2>9. TypeOK'
    <3>1. hand' \in Seq(Positions)  BY <2>2, <2>3
    <3>2. pos' \in 0..Len(buf)  BY <1>2, <2>1
    <3> QED  BY <1>1, <1>2, <2>1, <2>7, <3>1, <3>2 DEF TypeOK
  <2>10. WholeLines' /\ WholeUnit' /\ InOrder' /\ LinesOfText'
    BY <1>1, <2>1
    DEF IInv, WholeLines, WholeUnit, EndsLine, Bytes, InOrder, LinesOfText, FirstByte, Behind,
        LastByte, At
  <2>11. Frontier' /\ AllPassed'  BY <1>1, <2>1, <2>7, <2>8 DEF Frontier, AllPassed
  <2>12. HandEnds'
    <3>1. Continues(hand)'
      BY <1>1, <2>1, <2>2, <2>3, <2>7 DEF Continues, FirstByte, Behind
    <3>2. IsLine(l)
      <4>1. \A k \in 1..(Len(l) - 1) : At(l[k]) # "nl"
        <5> TAKE k \in 1..(Len(l) - 1)
        <5>1. k \in 1..n /\ pos + k \in (pos + 1)..Len(buf)  BY <1>2, <2>2, <2>3 DEF n
        <5>2. l[k] = <<next, pos + k>> /\ text[next][pos + k] # "nl"  BY <2>2, <2>5, <5>1
        <5> QED  BY <5>2 DEF At
      <4>2. LastByte(<<next, Len(buf)>>)
        <5>1. (next + 1)..Len(text) = {}  BY <2>6
        <5> QED  BY <2>2, <5>1 DEF LastByte
      <4> QED  BY <2>2, <4>1, <4>2 DEF IsLine
    <3>3. IsLine(hand)'  BY <1>1, <2>3, <3>2 DEF IsLine, LastOf, At, LastByte
    <3>4. \A k \in DOMAIN l : l[k] \in LastLine
      <4> TAKE k \in DOMAIN l
      <4>1. k \in 1..n /\ l[k] = <<next, pos + k>> /\ l[k] \in Positions  BY <2>2, <2>3
      <4>2. ASSUME NEW q \in Positions, At(q) = "nl"
            PROVE  q[1] < next \/ (q[1] = next /\ q[2] < pos + k)
        <5>1. q[1] \in 1..Len(text) /\ q[2] \in 1..Len(text[q[1]])  BY <1>2, PositionIs
        <5>2. q[1] # next => q[1] < next  BY <2>6, <5>1
        <5>3. q[1] = next => ~ (q[2] \in (pos + 1)..Len(buf))  BY <2>5, <4>2 DEF At
        <5>4. q[1] = next => q[2] <= pos  BY <1>2, <2>2, <5>1, <5>3
        <5> QED  BY <1>2, <2>3, <4>1, <5>1, <5>2, <5>4
      <4> QED  BY <4>1, <4>2 DEF LastLine
    <3> QED  BY <2>3, <2>7, <3>1, <3>3, <3>4 DEF HandEnds
  <2>13. PassedHanded'
    <3> SUFFICES ASSUME NEW p \in Positions, Passed(p)'
                 PROVE  p \in dropped \/ p \in Handed \/ \E k \in DOMAIN l : l[k] = p
      BY <1>1, <2>3, <2>7 DEF PassedHanded
    <3>1. CASE Passed(p)
      <4>1. DOMAIN hand = {}  BY <1>5
      <4> QED  BY <3>1, <4>1 DEF IInv, PassedHanded
    <3>2. CASE ~ Passed(p)
      <4>1. PICK k \in 1..(Len(buf) - pos) : p = <<next, pos + k>>
        BY <1>1, <1>4, <2>1, <3>2, TakenPassed
      <4>2. k \in DOMAIN l /\ l[k] = p  BY <2>2, <2>3, <4>1 DEF n
      <4> QED  BY <4>2
    <3> QED  BY <3>1, <3>2
  <2>14. (dropped \subseteq LastLine)'  BY <1>1, <2>7 DEF IInv
  <2> QED  BY <2>9, <2>10, <2>11, <2>12, <2>13, <2>14 DEF IInv
<1> QED  BY <1>6, <1>7

-----------------------------------------------------------------------------
(* The other steps.                                                        *)

LEMMA CallInv == ASSUME IInv, Call PROVE IInv'
<1> USE DEF Call
<1>1. /\ Positions' = Positions /\ LastLine' = LastLine /\ Handed' = Handed /\ Tip' = Tip
      /\ \A p : Passed(p)' <=> Passed(p)
  BY DEF Positions, LastLine, At, Handed, Tip, LastOf, Passed
<1>2. /\ TypeOK' /\ WholeLines' /\ WholeUnit' /\ InOrder' /\ LinesOfText'
  <2>1. TypeOK'  BY <1>1 DEF IInv, TypeOK
  <2>2. WholeLines'  BY DEF IInv, WholeLines, EndsLine
  <2>3. WholeUnit'  BY DEF IInv, WholeUnit, Bytes
  <2>4. InOrder'
    <3>1. \A p, q : (Behind(p, q)' <=> Behind(p, q)) /\ (FirstByte(p)' <=> FirstByte(p))
      BY DEF Behind, FirstByte
    <3> QED  BY <3>1 DEF IInv, InOrder
  <2>5. LinesOfText'  BY DEF IInv, LinesOfText, At, LastByte
  <2> QED  BY <2>1, <2>2, <2>3, <2>4, <2>5
<1>3. Frontier' /\ PassedHanded' /\ AllPassed'
  BY <1>1 DEF IInv, Frontier, Before, PassedHanded, AllPassed
<1>4. HandEnds'
  BY <1>1 DEF IInv, HandEnds, Continues, FirstByte, Behind, IsLine, LastOf, At, LastByte
<1> QED  BY <1>1, <1>2, <1>3, <1>4 DEF IInv

LEMMA StutterInv == ASSUME IInv, UNCHANGED vars PROVE IInv'
<1> USE DEF vars
<1>1. /\ Positions' = Positions /\ LastLine' = LastLine /\ Handed' = Handed /\ Tip' = Tip
      /\ \A p : Passed(p)' <=> Passed(p)
  BY DEF Positions, LastLine, At, Handed, Tip, LastOf, Passed
<1>2. /\ TypeOK' /\ WholeLines' /\ WholeUnit' /\ InOrder' /\ LinesOfText'
  <2>1. TypeOK'  BY <1>1 DEF IInv, TypeOK
  <2>2. WholeLines'  BY DEF IInv, WholeLines, EndsLine
  <2>3. WholeUnit'  BY DEF IInv, WholeUnit, Bytes
  <2>4. InOrder'
    <3>1. \A p, q : (Behind(p, q)' <=> Behind(p, q)) /\ (FirstByte(p)' <=> FirstByte(p))
      BY DEF Behind, FirstByte
    <3> QED  BY <3>1 DEF IInv, InOrder
  <2>5. LinesOfText'  BY DEF IInv, LinesOfText, At, LastByte
  <2> QED  BY <2>1, <2>2, <2>3, <2>4, <2>5
<1>3. Frontier' /\ PassedHanded' /\ AllPassed'
  BY <1>1 DEF IInv, Frontier, Before, PassedHanded, AllPassed
<1>4. HandEnds'
  BY <1>1 DEF IInv, HandEnds, Continues, FirstByte, Behind, IsLine, LastOf, At, LastByte
<1> QED  BY <1>1, <1>2, <1>3, <1>4 DEF IInv

(* Between two units no byte changes its side.                             *)
LEMMA PassedStays ==
  ASSUME IInv, pos = Len(buf), TypeOK', WholeUnit', text' = text,
         \/ buf' = <<>> /\ pos' = 0 /\ next' = next
         \/ pos' = 0 /\ next' = next + 1 /\ buf' = Bytes(next + 1, Len(text[next + 1]))
            /\ next + 1 \in 1..Len(text),
         NEW p \in Positions
  PROVE  Passed(p)' <=> Passed(p)
<1>1. TypeOK /\ (Passed(p) <=> p[1] <= next)  BY PassedDrained DEF IInv
<1>2. /\ p[1] \in 1..Len(text) /\ p[2] \in 1..Len(text[p[1]]) /\ next \in Nat
      /\ Len(text) \in Nat /\ p[1] \in Nat /\ p[2] \in Nat
  <2>1. /\ p[1] \in 1..Len(text) /\ p[2] \in 1..Len(text[p[1]])
        /\ Len(text) \in Nat /\ Len(text[p[1]]) \in Nat
    BY <1>1, PositionIs
  <2>2. next \in Nat  BY <1>1, <2>1 DEF TypeOK
  <2>3. p[1] \in Nat /\ p[2] \in Nat  BY <2>1
  <2> QED  BY <2>1, <2>2, <2>3
<1>3. CASE buf' = <<>> /\ pos' = 0 /\ next' = next
  BY <1>1, <1>2, <1>3 DEF Passed
<1>4. CASE /\ pos' = 0 /\ next' = next + 1 /\ buf' = Bytes(next + 1, Len(text[next + 1]))
           /\ next + 1 \in 1..Len(text)
  <2>1. p[1] = next + 1 => buf' # <<>>
    <3> SUFFICES ASSUME p[1] = next + 1 PROVE buf' # <<>>  OBVIOUS
    <3>1. Len(text[next + 1]) \in Nat /\ Len(text[next + 1]) # 0
      BY <1>1, <1>2, PositionIs
    <3>2. Len(buf') = Len(text[next + 1])  BY <1>4, <3>1 DEF Bytes
    <3>3. Len(<<>>) = 0  OBVIOUS
    <3> QED  BY <3>1, <3>2, <3>3
  <2>2. Passed(p)' <=> p[1] < next + 1 \/ (p[1] = next + 1 /\ (buf' = <<>> \/ p[2] <= 0))
    BY <1>4 DEF Passed
  <2> QED  BY <1>1, <1>2, <2>1, <2>2
<1> QED  BY <1>3, <1>4

LEMMA ReadUnitInv == ASSUME IInv, ReadUnit PROVE IInv'
<1>1. /\ pos = Len(buf) /\ pc = "reading" /\ next < Len(text)
      /\ buf' = Bytes(next + 1, Len(text[next + 1])) /\ pos' = 0 /\ next' = next + 1
      /\ UNCHANGED <<text, caller, pc, hand, pieces, dropped>>
  BY DEF ReadUnit, Drained
<1>2. TypeOK /\ next + 1 \in 1..Len(text)
  <2>1. TypeOK  BY DEF IInv
  <2>2. Len(text) \in Nat /\ next \in Nat  BY <2>1, PositionIs DEF TypeOK
  <2> QED  BY <1>1, <2>1, <2>2
<1>3. /\ Positions' = Positions /\ LastLine' = LastLine /\ Handed' = Handed /\ Tip' = Tip
  BY <1>1 DEF Positions, LastLine, At, Handed, Tip, LastOf
<1>4. TypeOK'
  <2>1. Len(text[next + 1]) \in Nat  BY <1>2, PositionIs
  <2>2. \A k \in 1..Len(text[next + 1]) : <<next + 1, k>> \in Positions
    BY <1>2, PositionIs
  <2>3. buf' \in Seq(Positions) /\ Len(buf') \in Nat  BY <1>1, <2>1, <2>2 DEF Bytes
  <2>4. next' \in 0..Len(text) /\ pos' \in 0..Len(buf')
    <3>1. Len(text) \in Nat  BY <1>2, PositionIs
    <3> QED  BY <1>1, <1>2, <2>3, <3>1
  <2> QED  BY <1>1, <1>2, <1>3, <2>3, <2>4 DEF TypeOK
<1>5. WholeUnit'  BY <1>1, <1>2 DEF WholeUnit, Bytes
<1>6. WholeLines' /\ InOrder' /\ LinesOfText'
  BY <1>1
  DEF IInv, WholeLines, EndsLine, InOrder, LinesOfText, FirstByte, Behind, At, LastByte
<1>7. \A p \in Positions : Passed(p)' <=> Passed(p)
  BY <1>1, <1>2, <1>4, <1>5, PassedStays
<1>8. Frontier' /\ PassedHanded' /\ AllPassed'
  <2>1. Frontier'  BY <1>1, <1>3, <1>7 DEF IInv, Frontier, Before
  <2>2. PassedHanded' /\ AllPassed'  BY <1>1, <1>3, <1>7 DEF IInv, PassedHanded, AllPassed
  <2> QED  BY <2>1, <2>2
<1>9. HandEnds'
  BY <1>1, <1>3 DEF IInv, HandEnds, Continues, FirstByte, Behind, IsLine, LastOf, At, LastByte
<1> QED  BY <1>1, <1>3, <1>4, <1>5, <1>6, <1>8, <1>9 DEF IInv

(* The units are used up: the line in work is the last piece.              *)
LEMMA NoUnitInv == ASSUME IInv, NoUnit PROVE IInv'
<1>1. /\ pos = Len(buf) /\ pc = "reading" /\ next >= Len(text)
      /\ buf' = <<>> /\ pos' = 0 /\ hand' = <<>> /\ next' = next
      /\ UNCHANGED <<text, caller, next, dropped>>
  BY DEF NoUnit, Drained
<1>2. TypeOK  BY DEF IInv
<1>3. Positions' = Positions /\ LastLine' = LastLine
  BY <1>1 DEF Positions, LastLine, At
<1>4. WholeLines' /\ WholeUnit' /\ HandEnds'
  BY <1>1 DEF IInv, WholeLines, EndsLine, WholeUnit, HandEnds
<1>5. \A p \in Positions : Passed(p) /\ Passed(p)'
  <2> TAKE p \in Positions
  <2>1. /\ p[1] \in 1..Len(text) /\ Len(text) \in Nat /\ next \in 0..Len(text)
    BY <1>2, PositionIs DEF TypeOK
  <2>2. p[1] <= next  BY <1>1, <2>1
  <2>3. Passed(p)  BY <1>1, <1>2, <2>2, PassedDrained DEF IInv
  <2>4. p[1] < next' \/ p[1] = next'  BY <1>1, <2>1, <2>2
  <2> QED  BY <1>1, <2>3, <2>4 DEF Passed
<1>6. /\ pieces' \in Seq(Seq(Positions)) /\ InOrder' /\ LinesOfText'
      /\ pc' \in {"idle", "ended"}
      /\ \A p : p \in Handed \/ (\E k \in DOMAIN hand : hand[k] = p) => p \in Handed'
  <2>1. CASE hand = <<>>
    <3>1. pieces' = pieces /\ pc' = "ended"  BY <2>1 DEF NoUnit
    <3>2. InOrder' /\ LinesOfText'
      BY <1>1, <3>1
      DEF IInv, InOrder, LinesOfText, FirstByte, Behind, At, LastByte
    <3>3. Handed' = Handed /\ DOMAIN hand = {}  BY <2>1, <3>1 DEF Handed
    <3> QED  BY <1>2, <3>1, <3>2, <3>3 DEF TypeOK
  <2>2. CASE hand # <<>>
    <3>1. pieces' = Append(pieces, hand) /\ pc' = "idle"  BY <2>2 DEF NoUnit
    <3>2. hand \in Seq(Positions) /\ Continues(hand) /\ (caller = "lines" => IsLine(hand))
      BY <1>2, <2>2 DEF IInv, HandEnds, TypeOK
    <3> QED  BY <1>1, <3>1, <3>2, PieceAppended
  <2> QED  BY <2>1, <2>2
<1>7. TypeOK'
  <2>1. buf' \in Seq(Positions) /\ hand' \in Seq(Positions) /\ pos' \in 0..Len(buf')
    <3>1. Len(<<>>) = 0  OBVIOUS
    <3> QED  BY <1>1, <3>1
  <2> QED  BY <1>1, <1>2, <1>3, <1>6, <2>1 DEF TypeOK
<1>8. Frontier' /\ AllPassed'  BY <1>1, <1>3, <1>5 DEF Frontier, AllPassed
<1>9. PassedHanded'  BY <1>1, <1>3, <1>5, <1>6 DEF IInv, PassedHanded
<1> QED  BY <1>1, <1>3, <1>4, <1>6, <1>7, <1>8, <1>9 DEF IInv

(* A source that fails leaves nothing in the buffer.                       *)
LEMMA FailUnitInv == ASSUME IInv, "partial" \notin Faults, FailUnit PROVE IInv'
<1>1. /\ pos = Len(buf) /\ pc = "reading" /\ pc' = "idle"
      /\ buf' = <<>> /\ pos' = 0 /\ hand' = <<>> /\ next' = next
      /\ dropped' = dropped \cup {hand[k] : k \in DOMAIN hand}
      /\ UNCHANGED <<text, caller, next, pieces>>
  BY DEF FailUnit, Drained, Leftovers
<1>2. TypeOK  BY DEF IInv
<1>3. /\ Positions' = Positions /\ LastLine' = LastLine /\ Handed' = Handed /\ Tip' = Tip
  BY <1>1 DEF Positions, LastLine, At, Handed, Tip, LastOf
<1>4. WholeLines' /\ WholeUnit' /\ HandEnds' /\ AllPassed' /\ InOrder' /\ LinesOfText'
  BY <1>1
  DEF IInv, WholeLines, EndsLine, WholeUnit, HandEnds, AllPassed, InOrder, LinesOfText,
      FirstByte, Behind, At, LastByte
<1>5. \A k \in DOMAIN hand : hand[k] \in LastLine
  <2>1. CASE hand = <<>>  BY <2>1
  <2>2. CASE hand # <<>>  BY <2>2 DEF IInv, HandEnds
  <2> QED  BY <2>1, <2>2
<1>6. dropped' \subseteq LastLine  BY <1>1, <1>5 DEF IInv
<1>7. TypeOK'
  <2>1. buf' \in Seq(Positions) /\ hand' \in Seq(Positions) /\ pos' \in 0..Len(buf')
    <3>1. Len(<<>>) = 0  OBVIOUS
    <3> QED  BY <1>1, <3>1
  <2>2. LastLine \subseteq Positions  BY DEF LastLine
  <2> QED  BY <1>1, <1>2, <1>3, <1>6, <2>1, <2>2 DEF TypeOK
<1>8. \A p \in Positions : Passed(p)' <=> Passed(p)
  BY <1>1, <1>4, <1>7, PassedStays
<1>9. Frontier'  BY <1>1, <1>3, <1>8 DEF IInv, Frontier, Before
<1>10. PassedHanded'  BY <1>1, <1>3, <1>8 DEF IInv, PassedHanded
<1> QED  BY <1>3, <1>4, <1>6, <1>7, <1>9, <1>10 DEF IInv

LEMMA InitInv == Init => IInv
<1> SUFFICES ASSUME Init PROVE IInv  OBVIOUS
<1>1. /\ text \in Seq(Seq({"c", "nl"})) /\ caller \in {"lines", "chunks"}
      /\ \A u \in 1..(Len(text) - 1) : text[u] # <<>> => EndsLine(text[u])
  BY UnitsAssumption DEF Init
<1>2. TypeOK
  <2>1. Len(text) \in Nat /\ Len(<<>>) = 0  BY <1>1
  <2>2. next \in 0..Len(text) /\ pos \in 0..Len(buf)  BY <2>1 DEF Init
  <2> QED  BY <1>1, <2>2 DEF Init, TypeOK
<1>3. \A p \in Positions : ~ Passed(p)
  <2> TAKE p \in Positions
  <2>1. p[1] \in 1..Len(text) /\ next = 0 /\ Len(text) \in Nat  BY <1>2, PositionIs DEF Init
  <2> QED  BY <2>1 DEF Passed
<1>4. DOMAIN pieces = {} /\ pieces = <<>> /\ hand = <<>>  BY DEF Init
<1>5. Frontier /\ PassedHanded  BY <1>3, <1>4 DEF Frontier, PassedHanded
<1>6. WholeLines /\ WholeUnit /\ HandEnds /\ AllPassed /\ InOrder /\ LinesOfText
  BY <1>1, <1>4
  DEF Init, WholeLines, WholeUnit, HandEnds, AllPassed, InOrder, LinesOfText
<1> QED  BY <1>2, <1>5, <1>6 DEF Init, IInv

(* The invariant holds throughout if a source that fails leaves nothing    *)
(* behind.                                                                 *)
THEOREM Inductive == ASSUME "partial" \notin Faults PROVE Spec => []IInv
<1>1. IInv /\ [Next]_vars => IInv'
  BY CallInv, ReadUnitInv, NoUnitInv, FailUnitInv, TakeLineInv, TakeChunkInv, StutterInv
  DEF Next
<1> QED  BY <1>1, InitInv, PTL DEF Spec

(* The buffer and the pieces hold bytes of the text.                       *)
THEOREM TypeCorrect == ASSUME "partial" \notin Faults PROVE Spec => []TypeOK
<1>1. IInv => TypeOK  BY DEF IInv
<1> QED  BY <1>1, Inductive, PTL

(* Over all calls, failed ones between them, the pieces are the units one  *)
(* behind the other, however the text is cut into units.                   *)
THEOREM PiecesInOrder == ASSUME "partial" \notin Faults PROVE Spec => []InOrder
<1>1. IInv => InOrder  BY DEF IInv
<1> QED  BY <1>1, Inductive, PTL

(* What read_line returns is a line of the text, wherever units meet.      *)
THEOREM PiecesAreLines == ASSUME "partial" \notin Faults PROVE Spec => []LinesOfText
<1>1. IInv => LinesOfText  BY DEF IInv
<1> QED  BY <1>1, Inductive, PTL

(* An error takes nothing with it but a last line that lacks its end, and  *)
(* at the end all else was handed out.                                     *)
THEOREM NothingIsLost == ASSUME "partial" \notin Faults PROVE Spec => []NothingLost
<1>1. ASSUME IInv PROVE NothingLost
  <2>1. ASSUME pc = "ended", NEW p \in Positions PROVE p \in dropped \/ p \in Handed
    <3>1. DOMAIN hand = {} /\ Passed(p)  BY <1>1, <2>1 DEF IInv, AllPassed
    <3> QED  BY <1>1, <3>1 DEF IInv, PassedHanded
  <2> QED  BY <1>1, <2>1 DEF IInv, NothingLost, Handed
<1> QED  BY <1>1, Inductive, PTL
=============================================================================
