--------------------------- MODULE DataFrameMaker ---------------------------
(***************************************************************************)
(* The column builders one worker of the parallel scan fills line by line  *)
(* (struct DataFrameMaker, mode ColumnerChunkedBuilder, the only mode the  *)
(* program uses), the frame they are turned into, and the predicate and    *)
(* projection polars pushes down to it.                                    *)
(*                                                                         *)
(* A cell is the position of the line its value came from, or None; the    *)
(* value itself and its type are abstracted.  A line is the sequence of    *)
(* its keys in the order of the text, so that a key may come twice.  A     *)
(* frame is a function from the column names to the sequences of cells.    *)
(***************************************************************************)
EXTENDS Naturals, Sequences, FiniteSets

CONSTANT None   \* a null cell; also an Option without a value

EmptyFrame == [k \in {} |-> <<>>]

NewMaker == [rows_pushed |-> 0, columns |-> EmptyFrame]

(***************************************************************************)
(* push_line.  `keys' is column_keys (empty accepts every key), `line' the *)
(* keys of the line, `id' its position.  A column is born the first time a *)
(* line carries it, with no cells for the rows pushed before.  Nones are   *)
(* appended only when fewer pairs were taken than there are columns.       *)
(***************************************************************************)
Hits(keys, line) == {i \in DOMAIN line : keys = {} \/ line[i] \in keys}

(* Mutant: the nulls go in front of a column.                              *)
PushLineFront(m, keys, line, id) ==
  LET hits    == Hits(keys, line)
      names   == DOMAIN m.columns \cup {line[i] : i \in hits}
      held(k) == IF k \in DOMAIN m.columns THEN m.columns[k] ELSE <<>>
      taken(k) == {i \in hits : line[i] = k}
      ragged  == Cardinality(hits) < Cardinality(names)
      cells(k) == IF taken(k) # {} THEN [i \in 1..Cardinality(taken(k)) |-> id]
                  ELSE IF ragged THEN <<None>> ELSE <<>>
  IN  [rows_pushed |-> m.rows_pushed + 1,
       columns     |-> [k \in names |-> IF taken(k) = {} THEN cells(k) \o held(k)
                                     ELSE held(k) \o cells(k)]]

PushLine(m, keys, line, id) ==
  LET hits    == Hits(keys, line)
      names   == DOMAIN m.columns \cup {line[i] : i \in hits}
      held(k) == IF k \in DOMAIN m.columns THEN m.columns[k] ELSE <<>>
      taken(k) == {i \in hits : line[i] = k}
      ragged  == Cardinality(hits) < Cardinality(names)
      cells(k) == IF taken(k) # {} THEN [i \in 1..Cardinality(taken(k)) |-> id]
                  ELSE IF ragged THEN <<None>> ELSE <<>>
  IN  [rows_pushed |-> m.rows_pushed + 1,
       columns     |-> [k \in names |-> held(k) \o cells(k)]]

(***************************************************************************)
(* to_df.  Only the columns named in column_keys are emitted; polars       *)
(* refuses columns of different heights.                                   *)
(***************************************************************************)
Emitted(m, keys) == [k \in keys \cap DOMAIN m.columns |-> m.columns[k]]

Rectangular(df) == \A j, k \in DOMAIN df : Len(df[j]) = Len(df[k])

Height(df) == IF DOMAIN df = {} THEN 0 ELSE Len(df[CHOOSE k \in DOMAIN df : TRUE])

(* The cells of row i, the nulls left out.                                 *)
RowLines(df, i) == {df[k][i] : k \in DOMAIN df} \ {None}

(***************************************************************************)
(* apply_pushdown: filter on a column, then select.  Either fails when it  *)
(* names a column the frame does not have.  `pred' is a column or None     *)
(* (no predicate), `passing' the lines whose value there it lets through;  *)
(* a null passes no predicate.  `cols' is the projection, empty when there *)
(* is none.                                                                *)
(***************************************************************************)
PushdownFails(df, pred, cols) ==
  \/ pred # None /\ pred \notin DOMAIN df
  \/ ~ (cols \subseteq DOMAIN df)

Keep(df, pred, passing) ==
  {i \in 1..Height(df) : pred = None \/ df[pred][i] \in passing}

Nth(S, n) == CHOOSE i \in S : Cardinality({j \in S : j <= i}) = n

ApplyPushdown(df, pred, cols, passing) ==
  LET kept == Keep(df, pred, passing)
      out  == IF cols = {} THEN DOMAIN df ELSE cols
  IN  [k \in out |-> [n \in 1..Cardinality(kept) |-> df[k][Nth(kept, n)]]]
=============================================================================
