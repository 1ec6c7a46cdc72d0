--------------------------- MODULE MCProbeHandoff ---------------------------
(***************************************************************************)
(* Texts of up to MaxLines lines for TLC.                                  *)
(***************************************************************************)
EXTENDS ProbeHandoff, TLC

CONSTANT MaxLines

Row(key, type) == [kind |-> "row", types |-> [k \in {key} |-> type]]
NoRow(kind) == [kind |-> kind, types |-> NoSchema]

MCLines == {Row("a", t) : t \in {"Integer", "Float", "Boolean"}}
             \cup {Row("b", "Integer"), NoRow("skip"), NoRow("bad")}

MCTexts == UNION {[1..n -> MCLines] : n \in 0..MaxLines}

Symmetry == Permutations(Collects)
=============================================================================
