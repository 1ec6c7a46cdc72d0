-------------------------- MODULE FrameSplitProofs --------------------------
(***************************************************************************)
(* The cuts of FrameSplit, for every file, frame size and window size.     *)
(***************************************************************************)
EXTENDS FrameSplit, WellFoundedInduction, TLAPS

(* The numbers a state is made of, and the order they are in.              *)
LEMMA Numbers ==
  ASSUME IInv
  PROVE  /\ total \in Nat /\ start \in Nat /\ end \in Nat /\ pos \in Nat
         /\ MaxFrame \in Nat \ {0} /\ CheckSize \in Nat \ {0}
         /\ start <= total
         /\ delims \subseteq Nat
         /\ \A d \in delims : d < total
         /\ out \in Seq(Frame) /\ Len(out) \in Nat
  BY SplitAssumption, FrameAssumption DEF IInv, TypeOK, Tiled

LEMMA InitInv == Init => IInv
<1> SUFFICES ASSUME Init PROVE IInv  OBVIOUS
<1>1. total \in Nat /\ out = <<>> /\ Len(out) = 0  BY SplitAssumption, FrameAssumption DEF Init
<1>2. TypeOK  BY <1>1 DEF Init, TypeOK, Frame
<1> QED
  BY <1>1, <1>2 DEF Init, IInv, Tiled, InFrame, NothingMissed, CutsBehindDelims, LinesWhole

(* Only Cut touches the frames and where the next one starts.              *)
LEMMA FramesKept ==
  ASSUME IInv, UNCHANGED file, out' = out, start' = start, pc' = "done" => start' = total
  PROVE  /\ Tiled' /\ CutsBehindDelims' /\ LinesWhole'
         /\ (ShortLines' /\ "read" \notin faults' => start' \in {0, total'} \/ start' - 1 \in delims')
  BY DEF IInv, file, Tiled, CutsBehindDelims, LinesWhole, ShortLines, EndOf, NothingMissed

(* The window looked at next lies in the frame and ends at `pos'.          *)
LEMMA Window ==
  ASSUME IInv, pc = "look", pos > start
  PROVE  /\ WindowSize \in Nat /\ SeekPos \in Nat
         /\ start <= SeekPos /\ SeekPos < pos /\ pos <= end
         /\ SeekPos + WindowSize = pos
         /\ start < end /\ end <= total /\ end = start + MaxFrame
         /\ \A n \in BytesRead : n \in Nat /\ n <= WindowSize
<1>1. /\ start <= pos /\ pos <= end /\ end = start + MaxFrame /\ end <= total
  BY Numbers DEF IInv, InFrame, LeastOf
<1>2. WindowSize \in Nat \ {0} /\ WindowSize <= pos - start
  BY Numbers DEF WindowSize, LeastOf
<1>3. SeekPos = pos - WindowSize  BY DEF SeekPos
<1>4. \A n \in BytesRead : n \in Nat /\ n <= WindowSize  BY <1>2 DEF BytesRead
<1> QED  BY <1>1, <1>2, <1>3, <1>4, Numbers

LEMMA SizeInv == ASSUME IInv, Size PROVE IInv'
<1>1. TypeOK'  BY DEF IInv, TypeOK, Size, file
<1>2. Tiled' /\ CutsBehindDelims' /\ LinesWhole'
      /\ (ShortLines' /\ "read" \notin faults' => start' \in {0, total'} \/ start' - 1 \in delims')
  BY FramesKept DEF Size
<1> QED  BY <1>1, <1>2 DEF IInv, InFrame, NothingMissed, Size

LEMMA OpenFrameInv == ASSUME IInv, OpenFrame PROVE IInv'
<1>0. /\ total' = total /\ delims' = delims /\ faults' = faults /\ start' = start /\ pos' = end'
      /\ end' \in Nat /\ start < end' /\ end' <= start + MaxFrame /\ end' <= total
      /\ end' < total => end' = start + MaxFrame
      /\ pc' = IF end' < total THEN "look" ELSE "cut"
  BY Numbers DEF OpenFrame, file, LeastOf
<1>1. TypeOK'  BY <1>0 DEF IInv, TypeOK, OpenFrame
<1>2. Tiled' /\ CutsBehindDelims' /\ LinesWhole'
      /\ (ShortLines' /\ "read" \notin faults' => start' \in {0, total'} \/ start' - 1 \in delims')
  BY <1>0, FramesKept DEF OpenFrame
<1>3. InFrame'  BY <1>0, Numbers DEF InFrame, LeastOf
<1>4. NothingMissed'  BY <1>0, <1>2, Numbers DEF NothingMissed, NoDelim
<1> QED  BY <1>1, <1>2, <1>3, <1>4 DEF IInv

LEMMA FindDelimInv == ASSUME IInv, FindDelim PROVE IInv'
<1>1. PICK n \in BytesRead : \E d \in Seen(n) : end' = d + 1  BY DEF FindDelim
<1>p. PICK d \in Seen(n) : end' = d + 1  BY <1>1
<1>2. /\ total' = total /\ delims' = delims /\ faults' = faults /\ start' = start /\ pos' = pos
      /\ out' = out /\ pc' = "cut"
  BY DEF FindDelim, file
<1>3. n \in Nat /\ n <= WindowSize  BY <1>1, Window DEF FindDelim
<1>4. d \in delims /\ d \in Nat /\ SeekPos <= d /\ d < pos
  <2>1. pc = "look" /\ pos > start  BY DEF FindDelim
  <2>2. d \in delims /\ d \in SeekPos..(SeekPos + n - 1)  BY <1>p DEF Seen
  <2> QED  BY <1>3, <2>1, <2>2, Window, Numbers
<1>5. end' \in Nat /\ start < end' /\ end' <= end /\ end' - 1 \in delims
  BY <1>p, <1>4, Window, Numbers DEF FindDelim
<1>6. TypeOK'  BY <1>2, <1>5 DEF IInv, TypeOK
<1>7. Tiled' /\ CutsBehindDelims' /\ LinesWhole'
      /\ (ShortLines' /\ "read" \notin faults' => start' \in {0, total'} \/ start' - 1 \in delims')
  BY <1>2, FramesKept DEF file
<1>8. InFrame'  BY <1>2, <1>5, Window, Numbers DEF InFrame, LeastOf, FindDelim
<1>9. NothingMissed'  BY <1>2, <1>5, <1>7 DEF NothingMissed
<1> QED  BY <1>6, <1>7, <1>8, <1>9 DEF IInv

LEMMA MissDelimInv == ASSUME IInv, MissDelim PROVE IInv'
<1>1. /\ total' = total /\ delims' = delims /\ faults' = faults /\ start' = start /\ end' = end
      /\ out' = out /\ pc' = "look" /\ pc = "look" /\ pos > start /\ pos' = SeekPos
  BY DEF MissDelim, file
<1>2. TypeOK'  BY <1>1, Window DEF IInv, TypeOK
<1>3. Tiled' /\ CutsBehindDelims' /\ LinesWhole'
      /\ (ShortLines' /\ "read" \notin faults' => start' \in {0, total'} \/ start' - 1 \in delims')
  BY <1>1, FramesKept DEF file
<1>4. InFrame'  BY <1>1, Window, Numbers DEF InFrame, LeastOf
<1>5. ASSUME "read" \notin faults PROVE NoDelim(pos', end')
  <2>1. Seen(WindowSize) = {}  BY <1>5 DEF MissDelim, BytesRead
  <2> SUFFICES ASSUME NEW d \in delims, SeekPos <= d, d < end PROVE FALSE
    BY <1>1 DEF NoDelim
  <2>2. d \in Nat /\ pos \in Nat /\ end \in Nat  BY Numbers
  <2>3. CASE d < pos
    <3>1. d \in SeekPos..(SeekPos + WindowSize - 1)  BY <1>1, <2>2, <2>3, Window
    <3> QED  BY <2>1, <3>1 DEF Seen
  <2>4. CASE pos <= d  BY <1>1, <1>5, <2>4 DEF IInv, NothingMissed, NoDelim
  <2> QED  BY <2>2, <2>3, <2>4
<1>6. NothingMissed'  BY <1>1, <1>3, <1>5 DEF NothingMissed, NoDelim
<1> QED  BY <1>2, <1>3, <1>4, <1>6 DEF IInv

LEMMA GiveUpInv == ASSUME IInv, GiveUp PROVE IInv'
<1>1. /\ total' = total /\ delims' = delims /\ faults' = faults /\ start' = start /\ end' = end /\ pos' = pos
      /\ out' = out /\ pc' = "cut" /\ pc = "look" /\ pos = start /\ end = start + MaxFrame
  BY Numbers DEF GiveUp, file, IInv, InFrame
<1>2. TypeOK'  BY <1>1 DEF IInv, TypeOK
<1>3. Tiled' /\ CutsBehindDelims' /\ LinesWhole'
      /\ (ShortLines' /\ "read" \notin faults' => start' \in {0, total'} \/ start' - 1 \in delims')
  BY <1>1, FramesKept DEF file
<1>4. InFrame'  BY <1>1 DEF IInv, InFrame
<1>5. NothingMissed'  BY <1>1, <1>3 DEF IInv, NothingMissed, NoDelim
<1> QED  BY <1>2, <1>3, <1>4, <1>5 DEF IInv

LEMMA CutInv == ASSUME IInv, Cut PROVE IInv'
<1> DEFINE f == [start |-> start, len |-> end - start]
<1>1. /\ total' = total /\ delims' = delims /\ faults' = faults /\ start' = end /\ end' = end /\ pos' = pos
      /\ out' = Append(out, f) /\ pc' = "frame" /\ pc = "cut"
  BY DEF Cut, file
<1>2. /\ f \in Frame /\ f.len \in 1..MaxFrame /\ EndOf(f) = end /\ f.start = start
      /\ start < end /\ end <= total
  <2>1. start < end /\ end <= start + MaxFrame /\ end <= total
    BY <1>1, Numbers DEF IInv, InFrame, LeastOf
  <2>2. end - start \in 1..MaxFrame /\ start + (end - start) = end  BY <2>1, Numbers
  <2> QED  BY <2>1, <2>2, Numbers DEF Frame, EndOf
<1>3. /\ Len(out') = Len(out) + 1
      /\ \A i \in 1..Len(out) : out'[i] = out[i]
      /\ out'[Len(out) + 1] = f
  BY <1>1, <1>2, Numbers
<1>4. TypeOK'  BY <1>1, <1>2 DEF IInv, TypeOK
<1>5. Tiled'
  <2>1. start = IF Len(out) = 0 THEN 0 ELSE EndOf(out[Len(out)])
    BY Numbers DEF IInv, Tiled
  <2>2. ASSUME NEW i \in 1..Len(out')
        PROVE  /\ out'[i].len \in 1..MaxFrame
               /\ out'[i].start = IF i = 1 THEN 0 ELSE EndOf(out'[i - 1])
    <3>1. CASE i \in 1..Len(out)
      <4>1. i # 1 => out'[i - 1] = out[i - 1]  BY <1>3, <3>1, Numbers
      <4> QED  BY <1>3, <3>1, <4>1 DEF IInv, Tiled
    <3>2. CASE i = Len(out) + 1
      <4>1. i # 1 => out'[i - 1] = out[Len(out)] /\ Len(out) # 0  BY <1>3, <3>2, Numbers
      <4> QED  BY <1>2, <1>3, <2>1, <3>2, <4>1, Numbers
    <3> QED  BY <1>3, <3>1, <3>2, Numbers
  <2>3. out' # <<>> /\ EndOf(out'[Len(out')]) = end  BY <1>2, <1>3, Numbers
  <2> QED  BY <1>1, <1>2, <2>2, <2>3 DEF Tiled, EndOf
<1>6. InFrame'  BY <1>1 DEF InFrame
<1>7. end = total \/ end - 1 \in delims \/ f.len = MaxFrame
  BY <1>1, Numbers DEF IInv, NothingMissed
<1>8. CutsBehindDelims'
  <2> SUFFICES ASSUME NEW i \in 1..Len(out')
               PROVE EndOf(out'[i]) = total \/ EndOf(out'[i]) - 1 \in delims
                     \/ out'[i].len = MaxFrame
    BY <1>1 DEF CutsBehindDelims, EndOf
  <2>1. CASE i \in 1..Len(out)  BY <1>3, <2>1 DEF IInv, CutsBehindDelims
  <2>2. CASE i = Len(out) + 1  BY <1>2, <1>3, <1>7, <2>2
  <2> QED  BY <1>3, <2>1, <2>2, Numbers
<1>9. ASSUME ShortLines, "read" \notin faults PROVE end = total \/ end - 1 \in delims
  <2> SUFFICES ASSUME end < total, end = start + MaxFrame, NoDelim(start, end) PROVE FALSE
    BY <1>1, <1>2, <1>9, Numbers DEF IInv, NothingMissed
  <2>1. start \in 0..total /\ start + MaxFrame < total  BY Numbers
  <2> QED  BY <1>9, <2>1 DEF ShortLines, NoDelim
<1>10. LinesWhole'
  <2> SUFFICES ASSUME ShortLines, "read" \notin faults, NEW i \in 1..Len(out')
               PROVE out'[i].start = 0 \/ out'[i].start - 1 \in delims
    BY <1>1 DEF LinesWhole, ShortLines
  <2>1. CASE i \in 1..Len(out)  BY <1>3, <2>1 DEF IInv, LinesWhole
  <2>2. CASE i = Len(out) + 1
    BY <1>2, <1>3, <2>2, Numbers DEF IInv, NothingMissed
  <2> QED  BY <1>3, <2>1, <2>2, Numbers
<1>11. NothingMissed'  BY <1>1, <1>9 DEF NothingMissed, ShortLines
<1> QED  BY <1>4, <1>5, <1>6, <1>8, <1>10, <1>11 DEF IInv

LEMMA FinishInv == ASSUME IInv, Finish PROVE IInv'
<1>1. /\ total' = total /\ delims' = delims /\ faults' = faults /\ start' = start /\ end' = end /\ pos' = pos
      /\ out' = out /\ pc' = "done" /\ start = total
  BY Numbers DEF Finish, file
<1>2. TypeOK'  BY <1>1 DEF IInv, TypeOK
<1>3. Tiled' /\ CutsBehindDelims' /\ LinesWhole'
      /\ (ShortLines' /\ "read" \notin faults' => start' \in {0, total'} \/ start' - 1 \in delims')
  BY <1>1, FramesKept DEF file
<1> QED  BY <1>1, <1>2, <1>3 DEF IInv, InFrame, NothingMissed

LEMMA StutterInv == ASSUME IInv, UNCHANGED vars PROVE IInv'
  BY DEF vars, file, IInv, TypeOK, Tiled, InFrame, NothingMissed, NoDelim, CutsBehindDelims,
         LinesWhole, ShortLines, EndOf

THEOREM Inductive == Spec => []IInv
<1>1. IInv /\ [Next]_vars => IInv'
  BY SizeInv, OpenFrameInv, FindDelimInv, MissDelimInv, GiveUpInv, CutInv, FinishInv,
     StutterInv DEF Next
<1> QED  BY <1>1, InitInv, PTL DEF Spec

(* The frames tile the file, whatever its size and its delimiters are and  *)
(* whichever reads fail.                                                   *)
THEOREM FramesTile == Spec => []Tiled
<1>1. IInv => Tiled  BY DEF IInv
<1> QED  BY <1>1, Inductive, PTL

(* A frame ends with the file, behind a delimiter or at its full length.   *)
THEOREM CutsAreDelims == Spec => []CutsBehindDelims
<1>1. IInv => CutsBehindDelims  BY DEF IInv
<1> QED  BY <1>1, Inductive, PTL

(* No line that fits into a frame is cut in two.                           *)
THEOREM LinesStayWhole == Spec => []LinesWhole
<1>1. IInv => LinesWhole  BY DEF IInv
<1> QED  BY <1>1, Inductive, PTL

-----------------------------------------------------------------------------
(* The definition of a cut, and what its recursion unfolds to.             *)

LEMMA LeastIn ==
  ASSUME NEW S \in SUBSET Nat, S # {}
  PROVE  \E n \in S : \A m \in S : n <= m
<1>1. PICK n \in S : \A m \in S : ~ (<<m, n>> \in OpToRel(<, Nat))
  BY NatLessThanWellFounded, WFMin
<1>2. \A m \in S : ~ (m < n)  BY <1>1 DEF OpToRel
<1> QED  BY <1>2

LEMMA GreatestIn ==
  ASSUME NEW b \in Nat, NEW S \in SUBSET (0..b), S # {}
  PROVE  \E d \in S : \A e \in S : e <= d
<1> DEFINE T == {b - d : d \in S}
<1>1. \A d \in S : d \in Nat /\ d <= b /\ b - d \in Nat  OBVIOUS
<1>2. T \in SUBSET Nat /\ T # {}  BY <1>1
<1> HIDE DEF T
<1>3. PICK k \in T : \A j \in T : k <= j  BY <1>2, LeastIn
<1>4. PICK d \in S : k = b - d  BY <1>3 DEF T
<1>5. \A e \in S : b - e \in T  BY DEF T
<1> QED  BY <1>1, <1>3, <1>4, <1>5

(* A cut is behind the start of its frame, and in the text.                *)
LEMMA CutEndBehind ==
  ASSUME NEW ds \in SUBSET Nat, NEW t \in Nat, NEW s \in Nat, s < t
  PROVE  CutEnd(ds, t, s) \in Nat /\ s < CutEnd(ds, t, s) /\ CutEnd(ds, t, s) <= t
<1> DEFINE inside == {d \in ds : s <= d /\ d < s + MaxFrame}
           m == CHOOSE d \in inside : \A e \in inside : e <= d
<1>1. MaxFrame \in Nat /\ MaxFrame > 0 /\ s + MaxFrame \in Nat  BY FrameAssumption
<1>2. CASE s + MaxFrame >= t  BY <1>1, <1>2 DEF CutEnd
<1>3. CASE s + MaxFrame < t /\ inside = {}  BY <1>1, <1>3 DEF CutEnd
<1>4. CASE s + MaxFrame < t /\ inside # {}
  <2>1. \A d \in inside : d \in 0..(s + MaxFrame)  BY <1>1
  <2>2. \E d \in inside : \A e \in inside : e <= d  BY <1>1, <1>4, <2>1, GreatestIn
  <2>3. m \in inside  BY <2>2
  <2>4. CutEnd(ds, t, s) = 1 + m  BY <1>1, <1>4 DEF CutEnd
  <2>5. m \in Nat /\ s <= m /\ m < s + MaxFrame  BY <2>3
  <2> HIDE DEF m, inside
  <2> QED  BY <1>1, <1>4, <2>4, <2>5
<1> QED  BY <1>1, <1>2, <1>3, <1>4

(* The recursion goes down with the bytes left, so it has a solution: a    *)
(* solution for the last k bytes can be continued by one byte to the front.*)
LEMMA CutsSolved ==
  ASSUME NEW ds \in SUBSET Nat, NEW t \in Nat
  PROVE  \A s \in 0..t :
           CutsFrom(ds, t)[s] =
             IF s = t THEN <<>>
             ELSE <<[start |-> s, len |-> CutEnd(ds, t, s) - s]>>
                    \o CutsFrom(ds, t)[CutEnd(ds, t, s)]
<1> DEFINE E(s) == CutEnd(ds, t, s)
           Step(g, s) == IF s = t THEN <<>> ELSE <<[start |-> s, len |-> E(s) - s]>> \o g[E(s)]
           Solved(k) == \E g : g = [s \in (t - k)..t |-> Step(g, s)]
           Bad == {k \in 0..t : ~ Solved(k)}
<1>0. \A s \in 0..t : s # t => E(s) \in Nat /\ s < E(s) /\ E(s) <= t
  BY CutEndBehind
<1> HIDE DEF E
<1>1. Solved(0)
  <2> DEFINE g == [s \in t..t |-> <<>>]
  <2>1. t - 0 = t /\ \A s \in t..t : s = t  OBVIOUS
  <2>2. g = [s \in (t - 0)..t |-> Step(g, s)]  BY <2>1
  <2> QED  BY <2>2
<1>2. ASSUME NEW k \in Nat, k + 1 <= t, Solved(k) PROVE Solved(k + 1)
  <2>1. PICK g : g = [s \in (t - k)..t |-> Step(g, s)]  BY <1>2
  <2> DEFINE b == t - (k + 1)
             h == [s \in b..t |-> Step(g, s)]
  <2>2. b \in Nat /\ b + 1 = t - k /\ b # t  BY <1>2
  <2>3. \A s \in b..t : s # t => E(s) \in (t - k)..t  BY <1>0, <2>2
  <2>4. \A u \in (t - k)..t : u \in b..t  BY <2>2
  <2>5. \A u \in (t - k)..t : g[u] = Step(g, u)  BY <2>1
  <2>6. \A u \in (t - k)..t : h[u] = g[u]  BY <2>4, <2>5
  <2>7. \A s \in b..t : Step(g, s) = Step(h, s)  BY <2>3, <2>6
  <2>8. h = [s \in b..t |-> Step(h, s)]  BY <2>7
  <2> QED  BY <2>8
<1> HIDE DEF Solved
<1>3. Bad = {}
  <2> SUFFICES ASSUME Bad # {} PROVE FALSE  OBVIOUS
  <2>1. Bad \in SUBSET Nat  OBVIOUS
  <2>2. PICK n \in Bad : \A m \in Bad : n <= m  BY <2>1, LeastIn
  <2>3. n \in Nat /\ n <= t /\ ~ Solved(n)  BY <2>2
  <2>4. n # 0  BY <1>1, <2>3
  <2>5. n - 1 \in Nat /\ (n - 1) + 1 = n /\ n - 1 \in 0..t /\ ~ (n <= n - 1)  BY <2>3, <2>4
  <2>6. Solved(n - 1)  BY <2>2, <2>5
  <2> QED  BY <1>2, <2>3, <2>5, <2>6
<1>4. Solved(t)  BY <1>3
<1>5. \E g : g = [s \in 0..t |-> Step(g, s)]
  <2>1. t - t = 0  OBVIOUS
  <2> QED  BY <1>4, <2>1 DEF Solved
<1>6. CutsFrom(ds, t) = CHOOSE g : g = [s \in 0..t |-> Step(g, s)]  BY DEF CutsFrom, E
<1>7. CutsFrom(ds, t) = [s \in 0..t |-> Step(CutsFrom(ds, t), s)]  BY <1>5, <1>6
<1>8. \A s \in 0..t : CutsFrom(ds, t)[s] = Step(CutsFrom(ds, t), s)  BY <1>7, Zenon
<1> QED  BY <1>8 DEF E

LEMMA CutsAreFrames ==
  ASSUME NEW ds \in SUBSET Nat, NEW t \in Nat
  PROVE  \A s \in 0..t : CutsFrom(ds, t)[s] \in Seq(Frame)
<1> DEFINE C == CutsFrom(ds, t)
           E(s) == CutEnd(ds, t, s)
           Bad == {k \in 0..t : C[t - k] \notin Seq(Frame)}
<1>0. \A s \in 0..t : s # t => E(s) \in Nat /\ s < E(s) /\ E(s) <= t
  BY CutEndBehind
<1>1. \A s \in 0..t : C[s] = IF s = t THEN <<>> ELSE <<[start |-> s, len |-> E(s) - s]>> \o C[E(s)]
  BY CutsSolved
<1> HIDE DEF C, E
<1>2. Bad = {}
  <2> SUFFICES ASSUME Bad # {} PROVE FALSE  OBVIOUS
  <2>1. Bad \in SUBSET Nat  OBVIOUS
  <2>2. PICK n \in Bad : \A m \in Bad : n <= m  BY <2>1, LeastIn
  <2> DEFINE s == t - n
             f == [start |-> s, len |-> E(s) - s]
  <2>3. n \in Nat /\ n <= t /\ s \in 0..t /\ C[s] \notin Seq(Frame)  BY <2>2
  <2>4. s # t
    <3>0. t \in 0..t  OBVIOUS
    <3>1. C[t] = <<>>  BY <1>1, <3>0, Zenon
    <3>2. <<>> \in Seq(Frame)  OBVIOUS
    <3> QED  BY <2>3, <3>1, <3>2
  <2>5. E(s) \in Nat /\ s < E(s) /\ E(s) <= t /\ s \in Nat  BY <1>0, <2>3, <2>4
  <2>6. f \in Frame  BY <2>5 DEF Frame
  <2> DEFINE m == t - E(s)
  <2>7. m \in 0..t /\ m < n /\ t - m = E(s)  BY <2>3, <2>5
  <2>8. m \notin Bad  BY <2>2, <2>7
  <2>9. C[E(s)] \in Seq(Frame)  BY <2>7, <2>8
  <2>10. C[s] = <<f>> \o C[E(s)]  BY <1>1, <2>3, <2>4
  <2> HIDE DEF f
  <2>11. <<f>> \in Seq(Frame)  BY <2>6
  <2> QED  BY <2>3, <2>9, <2>10, <2>11
<1>3. ASSUME NEW s \in 0..t PROVE C[s] \in Seq(Frame)
  <2>1. t - s \in 0..t /\ t - (t - s) = s  OBVIOUS
  <2> QED  BY <1>2, <2>1
<1> QED  BY <1>3 DEF C

(* One more frame cut is one less to come.  (`With' keeps the two joins    *)
(* whole for the provers.)                                                 *)
FromTo(s, e) == [start |-> s, len |-> e - s]
With(q, r) == q \o r

LEMMA CutsUnfold ==
  ASSUME NEW ds \in SUBSET Nat, NEW t \in Nat, NEW s \in Nat, s < t,
         NEW q \in Seq(Frame),
         NEW e, e = CutEnd(ds, t, s)
  PROVE  With(q, CutsFrom(ds, t)[s]) = With(Append(q, FromTo(s, e)), CutsFrom(ds, t)[e])
<1> DEFINE rest == CutsFrom(ds, t)[e]
           f == FromTo(s, e)
<1>1. e \in Nat /\ s < e /\ e <= t  BY CutEndBehind
<1>2. CutsFrom(ds, t)[s] = <<f>> \o rest
  <2>1. s \in 0..t /\ s # t  OBVIOUS
  <2> QED  BY <2>1, CutsSolved DEF FromTo
<1>3. rest \in Seq(Frame)  BY <1>1, CutsAreFrames
<1>4. f \in Frame  BY <1>1 DEF Frame, FromTo
<1> HIDE DEF rest, f
<1>5. q \o (<<f>> \o rest) = Append(q, f) \o rest  BY <1>3, <1>4
<1> QED  BY <1>2, <1>5 DEF rest, f, With

(* The search stops at the last delimiter of the frame.                    *)
LEMMA CutFound ==
  ASSUME NEW ds \in SUBSET Nat, NEW t \in Nat, NEW s \in Nat, s + MaxFrame < t,
         NEW d \in ds, s <= d, d < s + MaxFrame,
         \A e \in ds : e < s + MaxFrame => e <= d
  PROVE  CutEnd(ds, t, s) = d + 1
<1> DEFINE inside == {e \in ds : s <= e /\ e < s + MaxFrame}
           m == CHOOSE e \in inside : \A x \in inside : x <= e
<1>1. MaxFrame \in Nat /\ ~ (s + MaxFrame >= t) /\ d \in inside  BY FrameAssumption
<1>2. CutEnd(ds, t, s) = 1 + m  BY <1>1 DEF CutEnd
<1>3. \A x \in inside : x <= d  OBVIOUS
<1>4. m \in inside /\ \A x \in inside : x <= m  BY <1>1, <1>3
<1>5. m <= d /\ d <= m /\ m \in Nat /\ d \in Nat  BY <1>1, <1>3, <1>4
<1> HIDE DEF m
<1> QED  BY <1>2, <1>5

LEMMA CutMissed ==
  ASSUME NEW ds \in SUBSET Nat, NEW t \in Nat, NEW s \in Nat, s + MaxFrame < t,
         \A d \in ds : ~ (s <= d /\ d < s + MaxFrame)
  PROVE  CutEnd(ds, t, s) = s + MaxFrame
<1>1. MaxFrame \in Nat /\ ~ (s + MaxFrame >= t)  BY FrameAssumption
<1>2. {d \in ds : s <= d /\ d < s + MaxFrame} = {}  OBVIOUS
<1> QED  BY <1>1, <1>2 DEF CutEnd

-----------------------------------------------------------------------------
(* The search is the definition.                                           *)

LEMMA InitSoFar == Init => CutSoFar
<1> SUFFICES ASSUME Init PROVE CutSoFar  OBVIOUS
<1>1. total \in Nat /\ delims \in SUBSET Nat  BY SplitAssumption DEF Init
<1>2. CutsFrom(delims, total)[0] \in Seq(Frame)  BY <1>1, CutsAreFrames
<1>3. \A q \in Seq(Frame) : <<>> \o q = q  OBVIOUS
<1> QED  BY <1>2, <1>3 DEF Init, CutSoFar, CutFrames

(* Steps that cut nothing: where the frame in work ends is all there is.   *)
LEMMA SoFarKept ==
  ASSUME CutSoFar, UNCHANGED file, out' = out, start' = start,
         "read" \notin faults =>
           /\ pc' = "look" => end' < total
           /\ pc' = "cut" => end' = CutEnd(delims, total, start)
  PROVE  CutSoFar'
  BY DEF CutSoFar, CutFrames, file

LEMMA OpenFrameSoFar == ASSUME IInv, CutSoFar, OpenFrame PROVE CutSoFar'
<1>1. pc' = "cut" => end' = CutEnd(delims, total, start)
  <2> SUFFICES ASSUME pc' = "cut" PROVE end' = CutEnd(delims, total, start)  OBVIOUS
  <2>1. ~ (end' < total) /\ end' = LeastOf(start + MaxFrame, total)  BY DEF OpenFrame
  <2>2. start + MaxFrame >= total /\ end' = total  BY <2>1, Numbers DEF LeastOf
  <2> QED  BY <2>2 DEF CutEnd
<1> QED  BY <1>1, SoFarKept DEF OpenFrame

LEMMA FindDelimSoFar == ASSUME IInv, CutSoFar, FindDelim PROVE CutSoFar'
<1> SUFFICES ASSUME "read" \notin faults PROVE end' = CutEnd(delims, total, start)
  BY SoFarKept DEF FindDelim
<1>1. PICK n \in BytesRead :
        \E d \in Seen(n) : (\A e \in Seen(n) : e <= d) /\ end' = d + 1
  BY DEF FindDelim
<1>2. PICK d \in Seen(n) : (\A e \in Seen(n) : e <= d) /\ end' = d + 1  BY <1>1
<1>3. pc = "look" /\ pos > start  BY DEF FindDelim
<1>4. n = WindowSize  BY <1>1 DEF BytesRead
<1>5. /\ WindowSize \in Nat /\ SeekPos \in Nat /\ start <= SeekPos /\ pos <= end
      /\ SeekPos + WindowSize = pos /\ end = start + MaxFrame
  BY <1>3, Window
<1>6. d \in delims /\ d \in SeekPos..(SeekPos + n - 1)  BY <1>2 DEF Seen
<1>7. d \in Nat /\ SeekPos <= d /\ d < pos  BY <1>4, <1>5, <1>6, Numbers
<1>8. start + MaxFrame < total  BY <1>3, <1>5 DEF CutSoFar
<1>9. ASSUME NEW e \in delims, e < start + MaxFrame PROVE e <= d
  <2>1. e \in Nat /\ pos \in Nat /\ end \in Nat  BY Numbers
  <2>2. ~ (pos <= e)  BY <1>3, <1>5, <1>9 DEF IInv, NothingMissed, NoDelim
  <2>3. CASE e < SeekPos  BY <1>5, <1>7, <2>1, <2>3
  <2>4. CASE SeekPos <= e
    <3>1. e \in SeekPos..(SeekPos + n - 1)  BY <1>4, <1>5, <2>1, <2>2, <2>4
    <3> QED  BY <1>2, <3>1 DEF Seen
  <2> QED  BY <1>5, <2>1, <2>3, <2>4
<1>10. start <= d /\ d < start + MaxFrame /\ start \in Nat /\ total \in Nat
  BY <1>5, <1>7, Numbers
<1>11. delims \in SUBSET Nat  BY Numbers
<1> QED  BY <1>2, <1>6, <1>8, <1>9, <1>10, <1>11, CutFound

LEMMA MissDelimSoFar == ASSUME IInv, CutSoFar, MissDelim PROVE CutSoFar'
  BY SoFarKept DEF MissDelim, CutSoFar

LEMMA GiveUpSoFar == ASSUME IInv, CutSoFar, GiveUp PROVE CutSoFar'
<1> SUFFICES ASSUME "read" \notin faults PROVE end = CutEnd(delims, total, start)
  BY SoFarKept DEF GiveUp
<1>1. pc = "look" /\ pos = start /\ end = start + MaxFrame
  BY Numbers DEF GiveUp, IInv, InFrame
<1>2. start + MaxFrame < total  BY <1>1 DEF CutSoFar
<1>3. \A d \in delims : ~ (start <= d /\ d < start + MaxFrame)
  BY <1>1 DEF IInv, NothingMissed, NoDelim
<1> QED  BY <1>1, <1>2, <1>3, Numbers, CutMissed

LEMMA CutSoFarGrows == ASSUME IInv, CutSoFar, Cut PROVE CutSoFar'
<1> SUFFICES ASSUME "read" \notin faults
             PROVE  CutFrames(delims, total) = out' \o CutsFrom(delims, total)[start']
  BY DEF Cut, CutSoFar, CutFrames, file
<1>1. pc = "cut" /\ end = CutEnd(delims, total, start)  BY DEF Cut, CutSoFar
<1>2. start < end /\ end <= total  BY <1>1, Numbers DEF IInv, InFrame, LeastOf
<1>3. start \in Nat /\ total \in Nat /\ start < total /\ delims \in SUBSET Nat /\ out \in Seq(Frame)
  BY <1>2, Numbers
<1>4. With(out, CutsFrom(delims, total)[start])
        = With(Append(out, FromTo(start, end)), CutsFrom(delims, total)[end])
  BY <1>1, <1>3, CutsUnfold
<1>5. out \o CutsFrom(delims, total)[start]
        = Append(out, FromTo(start, end)) \o CutsFrom(delims, total)[end]
  BY <1>4 DEF With
<1>6. out' = Append(out, FromTo(start, end)) /\ start' = end  BY DEF Cut, FromTo
<1> QED  BY <1>5, <1>6 DEF CutSoFar

THEOREM CutsKept == Spec => []CutSoFar
<1>1. IInv /\ CutSoFar /\ [Next]_vars => CutSoFar'
  <2> SUFFICES ASSUME IInv, CutSoFar, [Next]_vars PROVE CutSoFar'  OBVIOUS
  <2>1. CASE Size \/ Finish  BY <2>1, SoFarKept DEF Size, Finish
  <2>2. CASE UNCHANGED vars  BY <2>2, SoFarKept DEF vars, CutSoFar
  <2> QED  BY <2>1, <2>2, OpenFrameSoFar, FindDelimSoFar, MissDelimSoFar, GiveUpSoFar,
              CutSoFarGrows DEF Next
<1> QED  BY <1>1, InitSoFar, Inductive, PTL DEF Spec

(* If no read fails the frames are those of the definition, whatever the   *)
(* windows' size is and however the length of a frame falls on it.         *)
THEOREM SearchIsDefinition == Spec => []CutAsDefined
<1>1. IInv /\ CutSoFar => CutAsDefined
  <2> SUFFICES ASSUME IInv, CutSoFar, pc = "done", "read" \notin faults
               PROVE out = CutFrames(delims, total)
    BY DEF CutAsDefined
  <2>1. start = total  BY DEF IInv, Tiled
  <2>2. total \in 0..total /\ delims \in SUBSET Nat /\ total \in Nat  BY Numbers
  <2>3. CutsFrom(delims, total)[total] = <<>>  BY <2>2, CutsSolved, Zenon
  <2>4. \A q \in Seq(Frame) : q \o <<>> = q  OBVIOUS
  <2> QED  BY <2>1, <2>3, <2>4, Numbers DEF CutSoFar
<1> QED  BY <1>1, CutsKept, Inductive, PTL
====
