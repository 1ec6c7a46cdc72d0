----------------------------- MODULE UnitsReader ----------------------------
(***************************************************************************)
(* The units of a UnitSource as one stream (UnitsReader), and a caller     *)
(* that reads it by lines (read_line) or by chunks (read), and goes on     *)
(* after a call that failed.                                               *)
(*                                                                         *)
(* A unit is a sequence of bytes, of which only newlines matter.  A byte   *)
(* of the text is named by its position <<unit, offset>>, both from 1; the *)
(* buffer holds positions, so that a byte handed out twice, or out of      *)
(* order, shows.                                                           *)
(***************************************************************************)
EXTENDS Naturals, Sequences

CONSTANTS
  Texts,      \* the texts: sequences of units, sequences of "c" and "nl"
  Callers,    \* how the stream is read: any of "lines" and "chunks"
  MaxChunk,   \* bound: the longest chunk asked for
  Faults      \* "fail": read_unit may fail; "partial": after it appended bytes

EndsLine(unit) == unit[Len(unit)] = "nl"

(* "Each unit whole lines"; the last line of the text may lack its end.    *)
ASSUME UnitsAssumption ==
  /\ \A t \in Texts : /\ t \in Seq(Seq({"c", "nl"}))
                      /\ \A u \in 1..(Len(t) - 1) : t[u] # <<>> => EndsLine(t[u])
  /\ Callers \subseteq {"lines", "chunks"}
  /\ MaxChunk \in Nat

VARIABLES
  text, caller,
  next,      \* the number of units read
  buf, pos,  \* the unit being handed out, and how much of it has been
  pc,        \* "idle", "reading" or "ended"
  hand,      \* the bytes of the line in work
  pieces,    \* history: the lines or chunks the caller got
  dropped    \* history: the bytes that went with a call that failed

vars == <<text, caller, next, buf, pos, pc, hand, pieces, dropped>>

At(p) == text[p[1]][p[2]]

(* The first m bytes of a unit.                                            *)
Bytes(u, m) == [k \in 1..m |-> <<u, k>>]

-----------------------------------------------------------------------------
Call ==
  /\ pc = "idle"
  /\ pc' = "reading"
  /\ UNCHANGED <<text, caller, next, buf, pos, hand, pieces, dropped>>

Drained == pc = "reading" /\ pos = Len(buf)

(* One round of fill_buf: an empty unit makes another.  Mutant: the buffer *)
(* is not emptied.                                                         *)
ReadUnitKept ==
  /\ Drained /\ next < Len(text)
  /\ buf' = buf \o Bytes(next + 1, Len(text[next + 1])) /\ pos' = 0
  /\ next' = next + 1
  /\ UNCHANGED <<text, caller, pc, hand, pieces, dropped>>

ReadUnit ==
  /\ Drained /\ next < Len(text)
  /\ buf' = Bytes(next + 1, Len(text[next + 1])) /\ pos' = 0
  /\ next' = next + 1
  /\ UNCHANGED <<text, caller, pc, hand, pieces, dropped>>

(* No unit is left: the line in work is the last, or the stream has ended. *)
NoUnit ==
  /\ Drained /\ next >= Len(text)
  /\ buf' = <<>> /\ pos' = 0
  /\ IF hand = <<>>
     THEN pc' = "ended" /\ UNCHANGED pieces
     ELSE pc' = "idle" /\ pieces' = Append(pieces, hand)
  /\ hand' = <<>>
  /\ UNCHANGED <<text, caller, next, dropped>>

(* What a read that failed leaves in the buffer.                           *)
Leftovers ==
  IF "partial" \in Faults /\ next < Len(text)
  THEN {Bytes(next + 1, m) : m \in 0..Len(text[next + 1])} ELSE {<<>>}

(* Mutants: the unit is given up; the buffer is emptied but pos is not.    *)
FailUnitSkips ==
  /\ Drained /\ "fail" \in Faults
  /\ buf' \in Leftovers /\ pos' = 0
  /\ next' = next + 1
  /\ pc' = "idle" /\ hand' = <<>>
  /\ dropped' = dropped \cup {hand[k] : k \in DOMAIN hand}
  /\ UNCHANGED <<text, caller, pieces>>

FailUnitKeepsPos ==
  /\ Drained /\ "fail" \in Faults
  /\ buf' \in Leftovers
  /\ pc' = "idle" /\ hand' = <<>>
  /\ dropped' = dropped \cup {hand[k] : k \in DOMAIN hand}
  /\ UNCHANGED <<text, caller, next, pos, pieces>>

(* The call fails, and takes the line in work with it.                     *)
FailUnit ==
  /\ Drained /\ "fail" \in Faults
  /\ buf' \in Leftovers /\ pos' = 0
  /\ pc' = "idle" /\ hand' = <<>>
  /\ dropped' = dropped \cup {hand[k] : k \in DOMAIN hand}
  /\ UNCHANGED <<text, caller, next, pieces>>

-----------------------------------------------------------------------------
Filled == pc = "reading" /\ pos < Len(buf)

Newlines == {k \in (pos + 1)..Len(buf) : At(buf[k]) = "nl"}

(* Mutant: a unit ends a line, with or without its newline.                *)
TakeLineOfUnit ==
  /\ Filled /\ caller = "lines"
  /\ pos' = Len(buf)
  /\ pieces' = Append(pieces, hand \o SubSeq(buf, pos + 1, Len(buf)))
  /\ hand' = <<>> /\ pc' = "idle"
  /\ UNCHANGED <<text, caller, next, buf, dropped>>

(* read_line takes what is there up to a newline, and goes on without one. *)
TakeLine ==
  /\ Filled /\ caller = "lines"
  /\ IF Newlines = {}
     THEN /\ pos' = Len(buf)
          /\ hand' = hand \o SubSeq(buf, pos + 1, pos')
          /\ UNCHANGED <<pc, pieces>>
     ELSE /\ pos' = CHOOSE k \in Newlines : \A j \in Newlines : k <= j
          /\ pieces' = Append(pieces, hand \o SubSeq(buf, pos + 1, pos'))
          /\ hand' = <<>> /\ pc' = "idle"
  /\ UNCHANGED <<text, caller, next, buf, dropped>>

LeastOf(a, b) == IF a <= b THEN a ELSE b

TakeChunk ==
  /\ Filled /\ caller = "chunks"
  /\ \E m \in 1..MaxChunk : pos' = LeastOf(pos + m, Len(buf))
  /\ pieces' = Append(pieces, SubSeq(buf, pos + 1, pos'))
  /\ pc' = "idle"
  /\ UNCHANGED <<text, caller, next, buf, hand, dropped>>

-----------------------------------------------------------------------------
Init ==
  /\ text \in Texts /\ caller \in Callers
  /\ next = 0 /\ buf = <<>> /\ pos = 0
  /\ pc = "idle" /\ hand = <<>> /\ pieces = <<>> /\ dropped = {}

Next == Call \/ ReadUnit \/ NoUnit \/ FailUnit \/ TakeLine \/ TakeChunk

Spec == Init /\ [][Next]_vars

(* The caller goes on until the end, and no unit fails for ever.           *)
FairSpec == /\ Spec
            /\ WF_vars(Call) /\ WF_vars(TakeLine) /\ WF_vars(TakeChunk)
            /\ SF_vars(ReadUnit) /\ SF_vars(NoUnit)

-----------------------------------------------------------------------------
(* What must hold.                                                         *)

Positions == UNION {{u} \X (1..Len(text[u])) : u \in 1..Len(text)}

TypeOK ==
  /\ text \in Seq(Seq({"c", "nl"})) /\ caller \in {"lines", "chunks"}
  /\ next \in 0..Len(text) /\ buf \in Seq(Positions) /\ pos \in 0..Len(buf)
  /\ pc \in {"idle", "reading", "ended"}
  /\ hand \in Seq(Positions) /\ pieces \in Seq(Seq(Positions))
  /\ dropped \subseteq Positions

(* Byte q comes right behind byte p in the text.                           *)
Behind(p, q) ==
  \/ q[1] = p[1] /\ q[2] = p[2] + 1
  \/ /\ p[2] = Len(text[p[1]]) /\ q[2] = 1 /\ p[1] < q[1]
     /\ \A u \in (p[1] + 1)..(q[1] - 1) : text[u] = <<>>

FirstByte(p) == p[2] = 1 /\ \A u \in 1..(p[1] - 1) : text[u] = <<>>

LastByte(p) == /\ p[2] = Len(text[p[1]])
               /\ \A u \in (p[1] + 1)..Len(text) : text[u] = <<>>

(* Over all calls, failed ones between them, the pieces are the units in   *)
(* the order of their numbers: each starts with the byte behind the last   *)
(* one before it, and no byte is left out or handed out twice inside.      *)
InOrder ==
  \A i \in DOMAIN pieces :
    /\ pieces[i] # <<>>
    /\ IF i = 1 THEN FirstByte(pieces[i][1])
       ELSE Behind(pieces[i - 1][Len(pieces[i - 1])], pieces[i][1])
    /\ \A k \in 1..(Len(pieces[i]) - 1) : Behind(pieces[i][k], pieces[i][k + 1])

(* A line is a line of the text: it ends with the first newline in it, or  *)
(* with the text; where units meet makes no difference.                    *)
LinesOfText ==
  caller = "lines" =>
    \A i \in DOMAIN pieces :
      LET l == pieces[i]
      IN  /\ \A k \in 1..(Len(l) - 1) : At(l[k]) # "nl"
          /\ At(l[Len(l)]) = "nl" \/ LastByte(l[Len(l)])

(* As units are whole lines a call that fails has no line in work, and the *)
(* next call goes on as if nothing had happened: the only line that an     *)
(* error can take with it is the last, when it lacks its end.  At the end  *)
(* every other byte has been handed out.                                   *)
LastLine ==
  {p \in Positions : \A q \in Positions :
     At(q) = "nl" => q[1] < p[1] \/ (q[1] = p[1] /\ q[2] < p[2])}

NothingLost ==
  /\ dropped \subseteq LastLine
  /\ pc = "ended" =>
       Positions \subseteq
         dropped \cup UNION {{pieces[i][k] : k \in DOMAIN pieces[i]} : i \in DOMAIN pieces}

(* The stream comes to its end once failing stops.                         *)
Recovers == <>(pc = "ended")
=============================================================================
