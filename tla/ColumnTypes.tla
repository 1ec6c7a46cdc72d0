----------------------------- MODULE ColumnTypes ----------------------------
(***************************************************************************)
(* One column of a log, from the values in the text to the frames handed   *)
(* out: the type polars is promised for it (schema, scan_logfmt), the type *)
(* and the cells the single-threaded path gives it batch by batch          *)
(* (rows_to_dataframe_filled), and those the workers of the parallel scan  *)
(* give it with their typed builders (DataFrameMaker).                     *)
(*                                                                         *)
(* A text is a sequence of rows: the class of the value a row has for the  *)
(* column, or None.  Every row has some other key besides, always present  *)
(* and left out.  A cell is "kept" (the value is in it, or can be had back *)
(* from it), "default" (0, 0.0, false, the epoch or "") or "null".  A      *)
(* frame is a record of its rows, from the one behind `after', its dtype   *)
(* (None: it has no such column) and its cells.                            *)
(***************************************************************************)
EXTENDS SchemaTypes

CONSTANTS
  None,
  Texts,     \* sequences of classes and None
  Options,   \* records [caller, declared, handles, aligned, length, asked, batch]
  Worker     \* the workers of the parallel scan

(* caller: "frame" (scan_logfmt), "direct" (anonymous_scan of a reader) or *)
(* "pull" (next_batch).  declared: the field of a given schema, or None.   *)
(* handles: the source can be opened again (a file, units), so that it is  *)
(* probed, and scanned in parallel.  asked: infer_schema_length as polars  *)
(* gives it to schema().                                                   *)
ASSUME ColumnAssumption ==
  /\ \A t \in Texts : t \in Seq(Classes \cup {None})
  /\ \A o \in Options :
       /\ o.caller \in {"frame", "direct", "pull"} /\ o.declared \in Fields \cup {None}
       /\ {o.handles, o.aligned} \subseteq BOOLEAN
       /\ o.length \in Nat /\ o.asked \in Nat \cup {None} /\ o.batch \in Nat \ {0}
  /\ None \notin Classes \cup Fields \cup Nat
  /\ IsFiniteSet(Worker) /\ Worker # {} /\ Worker = 1..Cardinality(Worker)

VARIABLES
  text, opts,
  share,     \* the rows each worker is dealt: a record [from, to]
  promised,  \* the dtype polars was told, or None
  field,     \* the schema's field for the column, or None: no schema
  pc,        \* "start", "collect", "workers", "single", "done", "no_schema" or "unfit"
  builder,   \* per worker: the rows pushed, and the cells of its builder
  frames     \* the frames joined (a scan) or handed out (pulls)

inputs == <<text, opts, share>>
vars == <<inputs, promised, field, pc, builder, frames>>

IsScan == opts.caller # "pull"

-----------------------------------------------------------------------------
(* The schema.                                                             *)

(* infer_schema_from_reader: the field the first rows give the column, and *)
(* that of the first n, None when there is no row.                         *)
Widened(type, value) ==
  IF value = None THEN type
  ELSE IF type = "Unlisted" THEN InferType(value) ELSE Merged(type, InferType(value))

FieldAfter(rows) ==
  LET after[n \in 0..Len(rows)] ==
        IF n = 0 THEN "Unlisted" ELSE Widened(after[n - 1], rows[n])
  IN  after

Inferred(n) == IF n = 0 THEN None ELSE FieldAfter(text)[n]

Rows(n) == IF n <= Len(text) THEN n ELSE Len(text)
Probed(n) == Inferred(Rows(n))

(* schema(), asked by polars; or scan_logfmt, which asks itself.           *)
AskedLength == IF opts.caller = "direct" /\ opts.asked # None THEN opts.asked ELSE opts.length

(* A given schema is announced as it is, an inferred one is what the probe *)
(* says; the frame of scan_logfmt keeps it for the scan.                   *)
Announce ==
  /\ pc = "start" /\ IsScan
  /\ LET f == IF opts.declared # None THEN opts.declared ELSE Probed(AskedLength) IN
     IF f = None
     THEN pc' = "no_schema" /\ UNCHANGED <<promised, field>>
     ELSE /\ promised' = IF f = "Unlisted" THEN None ELSE Announced(f)
          /\ field' = IF opts.caller = "frame" THEN f ELSE opts.declared
          /\ pc' = "collect"
  /\ UNCHANGED <<inputs, builder, frames>>

(* The parallel scan comes first, wherever there are frames to deal.       *)
FirstPath == IF opts.handles /\ text # <<>> THEN "workers" ELSE "single"

(* scan(): the clone that reads has a schema, inferred now if none is set. *)
(* Mutant: the clone gets the schema of the reader, which may be none.     *)
CollectUnset ==
  /\ pc = "collect"
  /\ IF field = None /\ Probed(opts.length) = None
     THEN pc' = "no_schema"
     ELSE pc' = FirstPath
  /\ UNCHANGED <<inputs, promised, field, builder, frames>>

Collect ==
  /\ pc = "collect"
  /\ LET f == IF field # None THEN field ELSE Probed(opts.length) IN
     IF f = None
     THEN pc' = "no_schema" /\ UNCHANGED field
     ELSE field' = f /\ pc' = FirstPath
  /\ UNCHANGED <<inputs, promised, builder, frames>>

(* next_batch: a schema that is missing is predicted through a handle, at  *)
(* every call again; without a handle there is none.                       *)
Pull ==
  /\ pc = "start" /\ ~ IsScan
  /\ field' = IF opts.declared # None THEN opts.declared
              ELSE IF opts.handles THEN Probed(opts.length) ELSE None
  /\ pc' = FirstPath
  /\ UNCHANGED <<inputs, promised, builder, frames>>

-----------------------------------------------------------------------------
(* The workers.                                                            *)

First(w) == text[share[w].from]

(* Without any schema a worker's first row decides.                        *)
WorkerField(w) ==
  IF field # None THEN field
  ELSE IF First(w) = None THEN "Unlisted" ELSE InferType(First(w))

BuilderType(w) ==
  IF WorkerField(w) \in {"Auto", "Unlisted"} THEN "String" ELSE WorkerField(w)

(* Mutant: a value that does not parse is left null.                       *)
BuiltOrNull(value, type) ==
  IF value # None /\ value \in Accepted(type) THEN "kept" ELSE "null"

Built(value, type) ==
  IF value = None THEN "null" ELSE IF value \in Accepted(type) THEN "kept" ELSE "default"

PushLine(w) ==
  /\ pc = "workers"
  /\ share[w].from + builder[w].pushed <= share[w].to
  /\ builder' = [builder EXCEPT ![w] =
       [pushed |-> @.pushed + 1,
        cells  |-> Append(@.cells, Built(text[share[w].from + @.pushed], BuilderType(w)))]]
  /\ UNCHANGED <<inputs, promised, field, pc, frames>>

Busy == {w \in Worker : share[w].from <= share[w].to}
Finished == \A w \in Busy : share[w].from + builder[w].pushed > share[w].to

(* The column list is the keys of the worker's first row.                  *)
DtypeOf(w) == IF First(w) = None THEN None ELSE Announced(BuilderType(w))

Fitting == \A v, w \in Busy : DtypeOf(v) = DtypeOf(w)

(* The workers' frames are joined in the order of their shares.            *)
Owner(i) == CHOOSE w \in Busy : share[w].from <= i /\ i <= share[w].to
CellAt(i) == builder[Owner(i)].cells[i - share[Owner(i)].from + 1]

(* Without aligned_cols_cnt the workers have nothing to show.              *)
CollectFrame ==
  /\ pc = "workers" /\ Finished
  /\ opts.aligned /\ Fitting
  /\ LET dtype == DtypeOf(CHOOSE w \in Busy : TRUE)
     IN  frames' = <<[after |-> 0, dtype |-> dtype,
                      cells |-> [i \in DOMAIN text |-> IF dtype = None THEN "null" ELSE CellAt(i)]]>>
  /\ pc' = "done"
  /\ UNCHANGED <<inputs, promised, field, builder>>

CollectNothing ==
  /\ pc = "workers" /\ Finished
  /\ ~ (opts.aligned /\ Fitting)
  /\ pc' = "single"
  /\ UNCHANGED <<inputs, promised, field, builder, frames>>

-----------------------------------------------------------------------------
(* The single-threaded path.                                               *)

RowsRead == IF frames = <<>> THEN 0
            ELSE frames[Len(frames)].after + Len(frames[Len(frames)].cells)

BatchRows == (RowsRead + 1)..Rows(RowsRead + opts.batch)

(* With aligned_cols_cnt the keys of the batch's first row are kept.       *)
ValueAt(i) == IF opts.aligned /\ text[RowsRead + 1] = None THEN None ELSE text[i]

ParsedAt(i) ==
  IF field = None THEN ParsedFreely(ValueAt(i)) ELSE Parsed(ValueAt(i), field)

(* Without a schema the first row of the batch gives one.                  *)
UsedField ==
  IF field # None THEN field
  ELSE IF text[RowsRead + 1] = None THEN "Unlisted" ELSE InferType(text[RowsRead + 1])

(* The type of the column: the field, or the first of these some value has.*)
Precedence == <<"DateTime", "Duration", "String", "Float", "Integer", "Boolean">>

ColumnType ==
  LET has == {ParsedAt(i).type : i \in {i \in BatchRows : ValueAt(i) # None}}
  IN  IF UsedField \notin {"Auto", "Unlisted"} THEN UsedField
      ELSE Precedence[CHOOSE p \in DOMAIN Precedence :
             Precedence[p] \in has /\ \A q \in 1..(p - 1) : Precedence[q] \notin has]

(* Texts and durations are made strings of; numbers are converted.         *)
Converts(p, type) ==
  \/ type \in {p.type, "String", "Duration"}
  \/ <<p.type, type>> \in {<<"Integer", "Float">>, <<"Duration", "Integer">>, <<"Duration", "Float">>}
  \/ p.type = "String" /\ p.class \in Accepted(type)

Filled(i, type) ==
  IF ValueAt(i) # None /\ ParsedAt(i).kept /\ Converts(ParsedAt(i), type) THEN "kept"
  ELSE IF type = "DateTime" THEN "null" ELSE "default"

(* rows_to_dataframe_filled: durations are no case of it.                  *)
FilledDtype(type) == IF type = "Duration" THEN "str" ELSE Announced(type)

Column ==
  [after |-> RowsRead,
   dtype |-> IF \A i \in BatchRows : ValueAt(i) = None THEN None ELSE FilledDtype(ColumnType),
   cells |-> [k \in 1..Cardinality(BatchRows) |->
                IF \A i \in BatchRows : ValueAt(i) = None THEN "null"
                ELSE Filled(RowsRead + k, ColumnType)]]

(* scan() joins only frames of the same columns and types; a program that  *)
(* pulls takes what comes.                                                 *)
SingleBatch ==
  /\ pc = "single" /\ BatchRows # {}
  /\ IF IsScan /\ frames # <<>> /\ frames[Len(frames)].dtype # Column.dtype
     THEN pc' = "unfit" /\ UNCHANGED frames
     ELSE frames' = Append(frames, Column) /\ UNCHANGED pc
  /\ UNCHANGED <<inputs, promised, field, builder>>

EndOfText ==
  /\ pc = "single" /\ BatchRows = {}
  /\ pc' = "done"
  /\ UNCHANGED <<inputs, promised, field, builder, frames>>

-----------------------------------------------------------------------------
(* Contiguous shares of the text, the later ones perhaps empty.            *)
Shares ==
  IF ~ (opts.handles /\ opts.aligned) THEN {[w \in Worker |-> [from |-> 1, to |-> 0]]}
  ELSE {s \in [Worker -> [from : 1..(Len(text) + 1), to : 0..Len(text)]] :
          \A w \in Worker :
            /\ s[w].from <= s[w].to + 1
            /\ s[w].from = IF w - 1 \in Worker THEN s[w - 1].to + 1 ELSE 1
            /\ w + 1 \notin Worker => s[w].to = Len(text)}

Init ==
  /\ text \in Texts /\ opts \in Options /\ share \in Shares
  /\ promised = None /\ field = None
  /\ pc = "start"
  /\ builder = [w \in Worker |-> [pushed |-> 0, cells |-> <<>>]]
  /\ frames = <<>>

Next == \/ Announce \/ Collect \/ Pull
        \/ (\E w \in Worker : PushLine(w)) \/ CollectFrame \/ CollectNothing
        \/ SingleBatch \/ EndOfText

Spec == Init /\ [][Next]_vars

-----------------------------------------------------------------------------
(* What must hold.                                                         *)

Columns == {frames[k] : k \in {k \in DOMAIN frames : frames[k].dtype # None}}

(* polars gets the type it was told, whichever path read the column,       *)
(* however the text was cut into batches and shares and wherever the type  *)
(* comes from (a given field, `auto', a probe).  Two exceptions: durations *)
(* (see DurationsAreIntegers), and a length of polars' own, which schema() *)
(* obeys and scan() does not.                                              *)
PromiseKept ==
  /\ promised # None /\ field # "Duration"
  /\ opts.declared = None /\ opts.caller = "direct" => opts.asked \in {None, opts.length}
  => \A c \in Columns : c.dtype = promised

(* No scan fails because two batches give the column two types, and the    *)
(* workers of a scan never differ in it.  A program that pulls gets one    *)
(* type, too, if the source has handles or a schema is given; from a       *)
(* stream without either each batch has the type of its own first row.     *)
OneType ==
  /\ pc = "unfit" => None \in {frames[Len(frames)].dtype, Column.dtype}
  /\ IsScan /\ pc = "workers" =>
       \A v, w \in Busy : None \notin {DtypeOf(v), DtypeOf(w)} => DtypeOf(v) = DtypeOf(w)
  /\ IsScan \/ field # None => \A c, d \in Columns : c.dtype = d.dtype

(* If the probe has seen every row, no value is lost to the type it chose: *)
(* not on either path, and not in any batch.                               *)
Covered == opts.declared = None /\ opts.length >= Len(text) /\ opts.length > 0

ProbedValuesKept ==
  IsScan /\ Covered =>
    \A c \in Columns : \A k \in DOMAIN c.cells :
      text[c.after + k] # None => c.cells[k] = "kept"

(* Whether the parallel scan answers makes no difference to the values: it *)
(* keeps those the single-threaded path would keep, and a null is always a *)
(* missing key.  (Durations that are none are kept as texts by the one and *)
(* 0 in the other; what the other does with missing keys: NothingFilled.)  *)
FromWorkers == pc = "done" /\ opts.aligned /\ Busy # {} /\ Fitting

KeptSingly(v) ==
  LET p == Parsed(v, field)
  IN  p.kept /\ Converts(p, IF field \in {"Auto", "Unlisted"} THEN "String" ELSE field)

PathsAgree ==
  IsScan /\ FromWorkers /\ field # "Duration" =>
    \A c \in Columns : \A k \in DOMAIN text :
      /\ c.cells[k] = "kept" <=> text[k] # None /\ KeptSingly(text[k])
      /\ c.cells[k] = "null" <=> text[k] = None

-----------------------------------------------------------------------------
(* What the repository says and the code does not do.                      *)

(* "rows_to_dataframe_filled() builds Int64 columns from Durations         *)
(* (microseconds) when appropriate" (doc/worklog_add_duration.md): polars  *)
(* is promised integers for durations, and gets them.                      *)
DurationsAreIntegers ==
  field = "Duration" /\ opts.caller = "frame" => \A c \in Columns : c.dtype = promised
=============================================================================
