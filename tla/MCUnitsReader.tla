---------------------------- MODULE MCUnitsReader ---------------------------
(***************************************************************************)
(* Texts for TLC: up to MaxUnits units of up to MaxLen bytes, of which all *)
(* but the last are whole lines or empty.                                  *)
(***************************************************************************)
EXTENDS UnitsReader

CONSTANTS MaxUnits, MaxLen

AnyUnits == UNION {[1..n -> {"c", "nl"}] : n \in 0..MaxLen}
WholeUnits == {u \in AnyUnits : u # <<>> => EndsLine(u)}

MCTexts ==
  UNION {{t \in [1..n -> AnyUnits] : \A k \in 1..(n - 1) : t[k] \in WholeUnits} :
           n \in 0..MaxUnits}
=============================================================================
