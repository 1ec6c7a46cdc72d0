---------------------------- MODULE MCColumnTypes ---------------------------
(***************************************************************************)
(* Texts and options for TLC: rows of the given values or none.            *)
(***************************************************************************)
EXTENDS ColumnTypes

CONSTANTS Values, MaxRows, Callers, Declared, Lengths, Asked, Batches

MCTexts == UNION {[1..n -> Values \cup {None}] : n \in 0..MaxRows}

(* The lengths matter only if no schema is given, polars' own only if the  *)
(* reader is asked, and a stream is read in batches on one thread.         *)
MCOptions ==
  {o \in [caller : Callers, declared : Declared, handles : BOOLEAN, aligned : BOOLEAN,
          length : Lengths, asked : Asked, batch : Batches] :
     /\ o.declared # None => o.length = 1
     /\ o.asked # None => o.caller = "direct" /\ o.declared = None}
=============================================================================
