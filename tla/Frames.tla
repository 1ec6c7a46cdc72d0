------------------------------- MODULE Frames -------------------------------
(***************************************************************************)
(* What a cut of a text into frames is.  Bytes are offsets from 0; a frame *)
(* is a record [start, len] of its first byte and its length.              *)
(***************************************************************************)
EXTENDS Integers, Sequences

CONSTANT MaxFrame  \* MAX_FRAME_SIZE

ASSUME FrameAssumption == MaxFrame \in Nat \ {0}

Frame == [start : Nat, len : Nat]

EndOf(f) == f.start + f.len

(* The end of the frame that starts at `s' in a text of `total' bytes with *)
(* line ends at the offsets `delims', as far as they can be read: the last *)
(* frame ends with the text, the others behind the last line end in their  *)
(* MaxFrame bytes, or after all of them if there is none.                  *)
CutEnd(delims, total, s) ==
  LET inside == {d \in delims : s <= d /\ d < s + MaxFrame}
  IN  IF s + MaxFrame >= total THEN total
      ELSE IF inside = {} THEN s + MaxFrame
      ELSE 1 + CHOOSE d \in inside : \A e \in inside : e <= d

(* The frames from the offset `s' on, of a text that does not change while *)
(* it is cut; all of them.                                                 *)
CutsFrom(delims, total) ==
  LET from[s \in 0..total] ==
        IF s = total THEN <<>>
        ELSE LET e == CutEnd(delims, total, s)
             IN  <<[start |-> s, len |-> e - s]>> \o from[e]
  IN  from

CutFrames(delims, total) == CutsFrom(delims, total)[0]

(* The frames a seek table tells: `ends' are the offsets behind each, in   *)
(* the decompressed text.  A table that goes backwards gives empty frames. *)
TableFrames(ends) ==
  [i \in 1..Len(ends) |->
     LET s == IF i = 1 THEN 0 ELSE ends[i - 1]
     IN  [start |-> s, len |-> IF ends[i] > s THEN ends[i] - s ELSE 0]]
=============================================================================
