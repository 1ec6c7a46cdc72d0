------------------------------ MODULE RowClaims ------------------------------
(***************************************************************************)
(* What one scan of a log promises about raw rows, whoever reads them and  *)
(* in whatever order: a row is taken once, no more rows are taken than the *)
(* slice asks for, the call is answered once, and an answer that carries a *)
(* frame leaves neither a row unread nor a place in the slice unused.      *)
(* Declining (the caller then reads the log another way) and failing are   *)
(* allowed at any time.                                                    *)
(***************************************************************************)
EXTENDS Naturals, FiniteSets

CONSTANT None       \* no slice was asked for

VARIABLES rows,     \* the rows the filters accept, fixed by the text
          n_rows,   \* the slice: a number of rows, or None
          taken,    \* the rows taken so far
          answer    \* "pending", "frame", "declined" or "failed"

vars == <<rows, n_rows, taken, answer>>

Init == /\ taken = {}
        /\ answer = "pending"

Room == n_rows = None \/ Cardinality(taken) < n_rows

Take(r) == /\ answer = "pending"
           /\ r \in rows \ taken
           /\ Room
           /\ taken' = taken \cup {r}
           /\ UNCHANGED <<rows, n_rows, answer>>

AnswerFrame == /\ answer = "pending"
               /\ taken = rows \/ ~ Room
               /\ answer' = "frame"
               /\ UNCHANGED <<rows, n_rows, taken>>

GiveUp == /\ answer = "pending"
          /\ answer' \in {"declined", "failed"}
          /\ UNCHANGED <<rows, n_rows, taken>>

Next == (\E r \in rows : Take(r)) \/ AnswerFrame \/ GiveUp

Spec == Init /\ [][Next]_vars
=============================================================================
