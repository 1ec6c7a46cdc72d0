----------------------------- MODULE FrameSplit -----------------------------
(***************************************************************************)
(* How a plain seekable file is cut into the frames the parallel scan      *)
(* deals out (frames_from_seekable_without_seekable_zst): a frame takes    *)
(* MaxFrame bytes, then is cut back to the last delimiter in it, which is  *)
(* looked for from the end in windows of CheckSize bytes.                  *)
(*                                                                         *)
(* Of the bytes only the length of the file and the offsets (from 0) of    *)
(* its delimiters matter.                                                  *)
(***************************************************************************)
EXTENDS Frames

CONSTANTS
  CheckSize,  \* CHECK_SIZE
  MaxTotal,   \* bound: the longest file
  Faults      \* what may go wrong in some file: any of "size", "read"

ASSUME SplitAssumption ==
  /\ CheckSize \in Nat \ {0}
  /\ MaxTotal \in Nat

VARIABLES
  total,   \* the size of the file
  delims,  \* the offsets of its delimiters
  faults,  \* what goes wrong in it
  pc,      \* "size", "frame", "look", "cut", "done" or "declined"
  start,   \* where the frame in work starts
  end,     \* where it ends, as far as is known
  pos,     \* where the next window ends
  out      \* the frames, as records [start, len]

file == <<total, delims, faults>>
vars == <<file, pc, start, end, pos, out>>

LeastOf(a, b) == IF a <= b THEN a ELSE b

Init ==
  /\ total \in 0..MaxTotal
  /\ delims \in SUBSET (0..(total - 1))
  /\ faults \in SUBSET Faults
  /\ pc = "size"
  /\ start = 0 /\ end = 0 /\ pos = 0
  /\ out = <<>>

(* An empty file, or one that does not tell its size, is not cut.          *)
Size ==
  /\ pc = "size"
  /\ \/ pc' = IF total = 0 THEN "declined" ELSE "frame"
     \/ "size" \in faults /\ pc' = "declined"
  /\ UNCHANGED <<file, start, end, pos, out>>

(* Mutant: the end of the file is forgotten.                               *)
OpenFrameUnclamped ==
  /\ pc = "frame" /\ start < total
  /\ end' = start + MaxFrame
  /\ pos' = end'
  /\ pc' = "look"
  /\ UNCHANGED <<file, start, out>>

(* The last frame ends with the file, whatever its last byte is.           *)
OpenFrame ==
  /\ pc = "frame" /\ start < total
  /\ end' = LeastOf(start + MaxFrame, total)
  /\ pos' = end'
  /\ pc' = IF end' < total THEN "look" ELSE "cut"
  /\ UNCHANGED <<file, start, out>>

WindowSize == LeastOf(CheckSize, pos - start)

SeekPos == pos - WindowSize

(* How many bytes of the window are read.  A seek or a read that fails is  *)
(* a window of no bytes, and a read may be short; the buffer behind it     *)
(* holds zeros, which are no delimiters.                                   *)
BytesRead == IF "read" \in faults THEN 0..WindowSize ELSE {WindowSize}

(* Mutant: the last byte of the window is not looked at.                   *)
SeenShort(n) == delims \cap SeekPos..(SeekPos + n - 2)

Seen(n) == delims \cap SeekPos..(SeekPos + n - 1)

(* Mutants: the first delimiter of the window instead of the last; the     *)
(* delimiter left to the next frame.                                       *)
FindFirstDelim ==
  /\ pc = "look" /\ pos > start
  /\ \E n \in BytesRead :
       \E d \in Seen(n) :
         /\ \A e \in Seen(n) : d <= e
         /\ end' = d + 1
  /\ pc' = "cut"
  /\ UNCHANGED <<file, start, pos, out>>

FindDelimBefore ==
  /\ pc = "look" /\ pos > start
  /\ \E n \in BytesRead :
       \E d \in Seen(n) :
         /\ \A e \in Seen(n) : e <= d
         /\ end' = d
  /\ pc' = "cut"
  /\ UNCHANGED <<file, start, pos, out>>

FindDelim ==
  /\ pc = "look" /\ pos > start
  /\ \E n \in BytesRead :
       \E d \in Seen(n) :
         /\ \A e \in Seen(n) : e <= d
         /\ end' = d + 1
  /\ pc' = "cut"
  /\ UNCHANGED <<file, start, pos, out>>

MissDelim ==
  /\ pc = "look" /\ pos > start
  /\ \E n \in BytesRead : Seen(n) = {}
  /\ pos' = SeekPos
  /\ UNCHANGED <<file, pc, start, end, out>>

(* Mutant: the search is not given up at the start of the frame.           *)
GiveUpBehindStart ==
  /\ pc = "look" /\ pos < start
  /\ pc' = "cut"
  /\ UNCHANGED <<file, start, end, pos, out>>

(* No delimiter in the frame: it keeps its full length.                    *)
GiveUp ==
  /\ pc = "look" /\ pos <= start
  /\ pc' = "cut"
  /\ UNCHANGED <<file, start, end, pos, out>>

Cut ==
  /\ pc = "cut"
  /\ out' = Append(out, [start |-> start, len |-> end - start])
  /\ start' = end
  /\ pc' = "frame"
  /\ UNCHANGED <<file, end, pos>>

Finish ==
  /\ pc = "frame" /\ start >= total
  /\ pc' = "done"
  /\ UNCHANGED <<file, start, end, pos, out>>

Next == Size \/ OpenFrame \/ FindDelim \/ MissDelim \/ GiveUp \/ Cut \/ Finish

Spec == Init /\ [][Next]_vars

(* One thread runs the loop to its end.                                    *)
FairSpec == Spec /\ WF_vars(Next)

-----------------------------------------------------------------------------
(* What must hold.                                                         *)

TypeOK ==
  /\ total \in Nat /\ delims \in SUBSET (0..(total - 1)) /\ faults \subseteq Faults
  /\ pc \in {"size", "frame", "look", "cut", "done", "declined"}
  /\ start \in Nat /\ end \in Nat /\ pos \in Nat
  /\ out \in Seq(Frame)

(* Whatever delimiters the file has and whatever reads fail, the frames    *)
(* tile the bytes scanned so far: none is empty, none is longer than       *)
(* MaxFrame, each starts where the one before it ends (the start = end     *)
(* handover, and a cut that never falls on the frame's own start).         *)
Tiled ==
  /\ \A i \in 1..Len(out) :
       /\ out[i].len \in 1..MaxFrame
       /\ out[i].start = IF i = 1 THEN 0 ELSE EndOf(out[i - 1])
  /\ start = IF out = <<>> THEN 0 ELSE EndOf(out[Len(out)])
  /\ start <= total
  /\ pc = "done" => start = total

(* The invariant that one rests on: a frame in work is not empty and its   *)
(* window lies inside it.                                                  *)
InFrame ==
  /\ pc \in {"look", "cut"} => start < end /\ end <= LeastOf(start + MaxFrame, total)
  /\ pc = "look" => start <= pos /\ pos <= end /\ end = start + MaxFrame

(* A frame ends with the file, behind a delimiter, or at its full length:  *)
(* failed reads make frames longer, they never move a cut into a line that *)
(* would have been whole.                                                  *)
CutsBehindDelims ==
  \A i \in 1..Len(out) :
    \/ EndOf(out[i]) = total
    \/ EndOf(out[i]) - 1 \in delims
    \/ out[i].len = MaxFrame

(* No line is longer than a frame: every stretch of MaxFrame bytes of the  *)
(* file has a delimiter in it.                                             *)
ShortLines ==
  \A s \in 0..total : s + MaxFrame < total =>
    \E d \in delims : s <= d /\ d < s + MaxFrame

(* If no line is longer than a frame and no read fails, no line is ever    *)
(* cut in two: every frame starts with the file or behind a delimiter, so  *)
(* that the lines of the frames are the lines of the file.                 *)
LinesWhole ==
  ShortLines /\ "read" \notin faults =>
    \A i \in 1..Len(out) : out[i].start = 0 \/ out[i].start - 1 \in delims

(* The search in windows from the end finds what one look at the whole    *)
(* frame would: if no read fails, the frames are those of the definition   *)
(* in module Frames, whatever the windows' size and however a frame's      *)
(* length falls on it.                                                     *)
CutAsDefined ==
  pc = "done" /\ "read" \notin faults => out = CutFrames(delims, total)

(* Why no line is cut: without failed reads the windows already looked at  *)
(* hold no delimiter, so a frame keeps its full length only when it has    *)
(* none; and what has been cut so far ends behind one.                     *)
NoDelim(a, b) == \A d \in delims : ~ (a <= d /\ d < b)

NothingMissed ==
  /\ "read" \notin faults /\ pc = "look" => NoDelim(pos, end)
  /\ pc = "cut" => \/ end = total
                   \/ end - 1 \in delims
                   \/ end = start + MaxFrame /\ ("read" \notin faults => NoDelim(start, end))
  /\ ShortLines /\ "read" \notin faults => start \in {0, total} \/ start - 1 \in delims

(* Why the frames are those of the definition: a cut is where it says, and *)
(* what has been cut is what it says comes before the rest.                *)
CutSoFar ==
  "read" \notin faults =>
    /\ pc = "look" => end < total
    /\ pc = "cut" => end = CutEnd(delims, total, start)
    /\ CutFrames(delims, total) = out \o CutsFrom(delims, total)[start]

IInv == TypeOK /\ Tiled /\ InFrame /\ NothingMissed /\ CutsBehindDelims /\ LinesWhole

(* The search ends, whatever the file and the faults.                      *)
Terminates == <>(pc \in {"done", "declined"})
=============================================================================
