---------------------------- MODULE MCLogfmtLine ----------------------------
(***************************************************************************)
(* Lines for TLC: all ways of putting at most MaxPieces pieces together.   *)
(* With the piece `k=' a short line already has two pairs.                 *)
(***************************************************************************)
EXTENDS LogfmtLine

Seqs == INSTANCE SequencesExt

CONSTANT MaxPieces   \* pieces in a line

Pieces == {<<"char", "eq">>, <<"eq">>, <<"quote">>, <<"bsl">>, <<"ws">>, <<"char">>,
           <<"lead", "cont">>}

MCLines == UNION {{Seqs!FlattenSeq(p) : p \in [1..k -> Pieces]} : k \in 0..MaxPieces}
=============================================================================
