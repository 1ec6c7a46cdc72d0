---------------------------- MODULE ParallelScan ----------------------------
(***************************************************************************)
(* The frame-parallel first batch of LazyLogFmtReader (_parallel_batch and *)
(* its workers, parse_frames): the text is cut into frames, the frames are *)
(* dealt to workers in contiguous chunks, each worker reads its chunk line *)
(* by line with a handle of its own, claims a slot of the slice before it  *)
(* keeps a row, and hands one frame of columns to the collector.           *)
(*                                                                         *)
(* A line is a record: `kind' is "row" (accepted), "skip" (blank, or       *)
(* refused by line_filter) or "bad" (not UTF-8); `keys' its keys in the    *)
(* order of the text; `passes' the predicate's verdict on its values.  The *)
(* workers are handed the row_filter and never ask it.  A row is named by  *)
(* its position <<frame, line>>.  Frames and lines are numbered from 1,    *)
(* workers from 0.                                                         *)
(***************************************************************************)
EXTENDS DataFrameMaker, Deal

CONSTANTS
  Lines,        \* the lines a text is made of
  Scans         \* the scans: records of
                \*   text, a sequence of frames, sequences of Lines
                \*   opts, a record [n_rows, predicate, columns, aligned]
                \*   faults, what may go wrong: any of "probe", "clone", "read"

ErrorKinds == {"clone", "read", "utf8", "shape", "column"}

ASSUME ScanAssumption ==
  /\ \A s \in Scans : /\ s.text \in Seq(Seq(Lines))
                      /\ s.opts.n_rows \in Nat \cup {None}
  /\ \A l \in Lines : /\ l.kind \in {"row", "skip", "bad"}
                      /\ l.keys \in Seq({l.keys[i] : i \in DOMAIN l.keys})
                      /\ None # {l.keys[i] : i \in DOMAIN l.keys}
  /\ None \notin Nat \cup ErrorKinds \cup (Nat \X Nat)

VARIABLES
  text,         \* the text, frame by frame
  opts,         \* the scan options of the call
  faults,       \* what may go wrong in it
  call,         \* the caller: see Answers, and "start", "running"
  pc,           \* per worker, where it is in parse_frames
  frame,        \* per worker, the frame it reads
  line,         \* per worker, the next line of that frame
  first_row,    \* per worker, the keys of the frame's first row, or None
  column_keys,  \* per worker, the column list
  maker,        \* per worker, its DataFrameMaker
  capped,       \* per worker, whether it stopped because the slice was full
  out,          \* per worker, the frame it returned
  error,        \* per worker, the kind of error it returned, or None
  slots,        \* the shared counter of slots of the slice
  saved,        \* the error the collector keeps, or None
  batch,        \* the frame handed to the caller
  taken         \* history: the rows pushed to any maker

scanned    == <<text, opts, faults>>
callVars   == <<scanned, call, batch>>
workerVars == <<pc, frame, line, first_row, column_keys, maker, capped, out, error>>
vars       == <<callVars, workerVars, slots, saved, taken>>

-----------------------------------------------------------------------------
N == Len(text)
Capped == opts.n_rows # None

(* The order of the text, and of the rows of the workers.                  *)
Before(p, q) == p[1] < q[1] \/ (p[1] = q[1] /\ p[2] < q[2])

-----------------------------------------------------------------------------
(* The workers.                                                            *)

Fail(w, kind) == /\ pc' = [pc EXCEPT ![w] = "failed"]
                 /\ error' = [error EXCEPT ![w] = kind]

(* A task starts; after an error too, as long as the collector's flag that *)
(* says so is not raised or not seen.                                      *)
CloneHandle(w) ==
  /\ call = "running" /\ pc[w] = "idle"
  /\ \/ /\ pc' = [pc EXCEPT ![w] = "frame"]
        /\ frame' = [frame EXCEPT ![w] = FirstFrame(N, w)]
        /\ UNCHANGED error
     \/ /\ "clone" \in faults /\ Fail(w, "clone")
        /\ UNCHANGED frame
  /\ UNCHANGED <<callVars, line, first_row, column_keys, maker, capped,
                 out, slots, saved, taken>>

(* After an error the collector is full: a task not started may never be.  *)
SkipTask(w) ==
  /\ call = "running" /\ pc[w] = "idle" /\ saved # None
  /\ pc' = [pc EXCEPT ![w] = "skipped"]
  /\ UNCHANGED <<callVars, frame, line, first_row, column_keys, maker, capped,
                 out, error, slots, saved, taken>>

(* The slice was filled by the other workers: the frame is not read.       *)
LeaveFrame(w) ==
  /\ pc[w] = "frame"
  /\ Capped /\ slots >= opts.n_rows
  /\ pc' = [pc EXCEPT ![w] = "to_df"]
  /\ capped' = [capped EXCEPT ![w] = TRUE]
  /\ UNCHANGED <<callVars, frame, line, first_row, column_keys, maker, out,
                 error, slots, saved, taken>>

(* read_frame; a frame without bytes and one without lines are the same.   *)
ReadFrame(w) ==
  /\ pc[w] = "frame"
  /\ Capped => slots < opts.n_rows
  /\ \/ /\ pc' = [pc EXCEPT ![w] = "line"]
        /\ line' = [line EXCEPT ![w] = 1]
        /\ first_row' = [first_row EXCEPT ![w] = None]
        /\ UNCHANGED error
     \/ /\ "read" \in faults /\ Fail(w, "read")
        /\ UNCHANGED <<line, first_row>>
  /\ UNCHANGED <<callVars, frame, column_keys, maker, capped, out, slots,
                 saved, taken>>

HasLine(w) == pc[w] = "line" /\ line[w] <= Len(text[frame[w]])
Here(w) == <<frame[w], line[w]>>
LineAt(p) == text[p[1]][p[2]]

SkipLine(w) ==
  /\ HasLine(w) /\ LineAt(Here(w)).kind = "skip"
  /\ line' = [line EXCEPT ![w] = @ + 1]
  /\ UNCHANGED <<callVars, pc, frame, first_row, column_keys, maker, capped,
                 out, error, slots, saved, taken>>

BadLine(w) ==
  /\ HasLine(w) /\ LineAt(Here(w)).kind = "bad"
  /\ Fail(w, "utf8")
  /\ UNCHANGED <<callVars, frame, line, first_row, column_keys, maker, capped,
                 out, slots, saved, taken>>

(* slots.fetch_add(1): the old value decides, the counter moves anyway.    *)
Claim == slots' = IF Capped THEN slots + 1 ELSE slots

(* Mutants: the comparison with the slice is off by one.                   *)
GrantedOneMore == Capped => slots <= opts.n_rows
GrantedOneLess == Capped => slots + 1 < opts.n_rows

Granted == Capped => slots < opts.n_rows

(* The keys of the frame's first row, parsed only while no column list is  *)
(* known, and the column list they become with aligned_cols_cnt.  Without  *)
(* it the list stays empty, and so does the frame of the worker.           *)
FirstRow(w) ==
  IF first_row[w] = None /\ column_keys[w] = {}
  THEN {LineAt(Here(w)).keys[i] : i \in DOMAIN LineAt(Here(w)).keys}
  ELSE first_row[w]

(* Mutant: the column list is made without aligned_cols_cnt too.           *)
ColumnKeysAlways(w) ==
  IF column_keys[w] = {} /\ FirstRow(w) # None THEN FirstRow(w) ELSE column_keys[w]

ColumnKeys(w) ==
  IF opts.aligned /\ column_keys[w] = {} /\ FirstRow(w) # None
  THEN FirstRow(w) ELSE column_keys[w]

TakeRow(w) ==
  /\ HasLine(w) /\ LineAt(Here(w)).kind = "row"
  /\ Granted
  /\ Claim
  /\ first_row' = [first_row EXCEPT ![w] = FirstRow(w)]
  /\ column_keys' = [column_keys EXCEPT ![w] = ColumnKeys(w)]
  /\ maker' = [maker EXCEPT ![w] = PushLine(@, ColumnKeys(w), LineAt(Here(w)).keys, Here(w))]
  /\ taken' = taken \cup {Here(w)}
  /\ line' = [line EXCEPT ![w] = @ + 1]
  /\ UNCHANGED <<callVars, pc, frame, capped, out, error, saved>>

RefuseRow(w) ==
  /\ HasLine(w) /\ LineAt(Here(w)).kind = "row"
  /\ ~ Granted
  /\ Claim
  /\ pc' = [pc EXCEPT ![w] = "to_df"]
  /\ capped' = [capped EXCEPT ![w] = TRUE]
  /\ UNCHANGED <<callVars, frame, line, first_row, column_keys, maker, out,
                 error, saved, taken>>

(* The end of the frame: on to the next of the chunk, if there is one.     *)
EndFrame(w) ==
  /\ pc[w] = "line" /\ line[w] > Len(text[frame[w]])
  /\ IF frame[w] = LastFrame(N, w)
     THEN /\ pc' = [pc EXCEPT ![w] = "to_df"]
          /\ UNCHANGED <<frame, line>>
     ELSE /\ pc' = [pc EXCEPT ![w] = "frame"]
          /\ frame' = [frame EXCEPT ![w] = @ + 1]
          /\ line' = [line EXCEPT ![w] = 1]
  /\ UNCHANGED <<callVars, first_row, column_keys, maker, capped, out, error,
                 slots, saved, taken>>

(* The columns become a frame, filtered and projected at once unless the   *)
(* call has a slice, which is taken from the raw rows.                     *)
Passing == {p \in taken : LineAt(p).passes}

ToDf(w) ==
  LET df   == Emitted(maker[w], column_keys[w])
      push == DOMAIN df # {} /\ ~ Capped
  IN
  /\ pc[w] = "to_df"
  /\ IF ~ Rectangular(df)
     THEN Fail(w, "shape") /\ UNCHANGED out
     ELSE IF push /\ PushdownFails(df, opts.predicate, opts.columns)
     THEN Fail(w, "column") /\ UNCHANGED out
     ELSE /\ out' = [out EXCEPT ![w] =
               IF push THEN ApplyPushdown(df, opts.predicate, opts.columns, Passing) ELSE df]
          /\ pc' = [pc EXCEPT ![w] = "done"]
          /\ UNCHANGED error
  /\ UNCHANGED <<callVars, frame, line, first_row, column_keys, maker, capped,
                 slots, saved, taken>>

(* The collector keeps one error, the first it gets hold of.               *)
SaveError(w) ==
  /\ pc[w] = "failed"
  /\ pc' = [pc EXCEPT ![w] = "skipped"]
  /\ saved' = IF saved = None THEN error[w] ELSE saved
  /\ UNCHANGED <<callVars, frame, line, first_row, column_keys, maker, capped,
                 out, error, slots, taken>>

-----------------------------------------------------------------------------
(* The caller.                                                             *)

Answers == {"frame", "declined", "failed"}

(* Nothing to deal: no frame, no worker.  The probe that infers a missing  *)
(* schema may fail.                                                        *)
Begin ==
  /\ call = "start"
  /\ \/ /\ call' = IF N = 0 \/ Workers(N) = 0 THEN "declined" ELSE "running"
     \/ "probe" \in faults /\ call' = "failed"
  /\ UNCHANGED <<scanned, batch, workerVars, slots, saved, taken>>

(* Mutants: a failed worker counts before its error is saved; a worker     *)
(* that has nothing to show is waited for.                                 *)
FinishedUnsaved == \A w \in Active(N) : pc[w] \in {"done", "skipped", "failed"}
FinishedDone == \A w \in Active(N) : pc[w] = "done"

Finished == \A w \in Active(N) : pc[w] \in {"done", "skipped"}

(* The frames with a row in them, in the order of the workers.             *)
Parts == {w \in Active(N) : pc[w] = "done" /\ Height(out[w]) > 0}

SameColumns == \A v, w \in Parts : DOMAIN out[v] = DOMAIN out[w]

(* Mutant: the frames are joined in the reverse order of the workers.      *)
NthRowReversed(S, n) ==
  CHOOSE p \in S :
    Cardinality({q \in S : q[1] > p[1] \/ (q[1] = p[1] /\ q[2] <= p[2])}) = n

NthRow(S, n) == CHOOSE p \in S : Cardinality({q \in S : q = p \/ Before(q, p)}) = n

(* accumulate_dataframes_vertical: the rows of the frames, worker by       *)
(* worker; a row is named by its worker and its number there.              *)
Accumulated ==
  LET rows    == UNION {{w} \X (1..Height(out[w])) : w \in Parts}
      columns == UNION {DOMAIN out[w] : w \in Parts}
  IN  [k \in columns |-> [n \in 1..Cardinality(rows) |->
         out[NthRow(rows, n)[1]][k][NthRow(rows, n)[2]]]]

(* An error of some worker: the scan fails, except that a handle that      *)
(* could not be cloned sends the caller to the single-threaded path.       *)
CollectError ==
  /\ call = "running" /\ Finished
  /\ saved # None
  /\ call' = IF saved = "clone" THEN "declined" ELSE "failed"
  /\ UNCHANGED <<scanned, batch, workerVars, slots, saved, taken>>

(* No row, or frames that do not fit on each other.                        *)
CollectNothing ==
  /\ call = "running" /\ Finished
  /\ saved = None
  /\ Parts = {} \/ ~ SameColumns
  /\ call' = "declined"
  /\ UNCHANGED <<scanned, batch, workerVars, slots, saved, taken>>

(* With a slice the predicate and the projection come last.                *)
CollectFrame ==
  /\ call = "running" /\ Finished
  /\ saved = None
  /\ Parts # {} /\ SameColumns
  /\ IF Capped /\ PushdownFails(Accumulated, opts.predicate, opts.columns)
     THEN /\ call' = "failed"
          /\ UNCHANGED batch
     ELSE /\ call' = "frame"
          /\ batch' = IF Capped
                      THEN ApplyPushdown(Accumulated, opts.predicate, opts.columns, Passing)
                      ELSE Accumulated
  /\ UNCHANGED <<scanned, workerVars, slots, saved, taken>>

-----------------------------------------------------------------------------
Init ==
  /\ \E s \in Scans : text = s.text /\ opts = s.opts /\ faults = s.faults
  /\ call = "start"
  /\ pc = [w \in Worker |-> "idle"]
  /\ frame = [w \in Worker |-> 1]
  /\ line = [w \in Worker |-> 1]
  /\ first_row = [w \in Worker |-> None]
  /\ column_keys = [w \in Worker |-> {}]
  /\ maker = [w \in Worker |-> NewMaker]
  /\ capped = [w \in Worker |-> FALSE]
  /\ out = [w \in Worker |-> EmptyFrame]
  /\ error = [w \in Worker |-> None]
  /\ slots = 0
  /\ saved = None
  /\ batch = EmptyFrame
  /\ taken = {}

Step(w) == \/ CloneHandle(w) \/ SkipTask(w) \/ LeaveFrame(w) \/ ReadFrame(w)
           \/ SkipLine(w) \/ BadLine(w) \/ TakeRow(w) \/ RefuseRow(w)
           \/ EndFrame(w) \/ ToDf(w) \/ SaveError(w)

Collect == CollectError \/ CollectNothing \/ CollectFrame

Next == Begin \/ Collect \/ \E w \in Active(N) : Step(w)

Spec == Init /\ [][Next]_vars

(* The caller and the tasks of the pool run: one that can go on does, in  *)
(* whatever order.                                                         *)
FairSpec == Spec /\ WF_vars(Next)

-----------------------------------------------------------------------------
(* What must hold.                                                         *)

RowAt(f, l) == text[f][l].kind = "row"

Accepted == UNION {{<<f, l>> : l \in {i \in 1..Len(text[f]) : RowAt(f, i)}} : f \in 1..N}

KeysOf(p) == {LineAt(p).keys[i] : i \in DOMAIN LineAt(p).keys}

DistinctKeys == \A p \in Accepted : Cardinality(KeysOf(p)) = Len(LineAt(p).keys)

(* Every accepted line carries the same keys, each of them once, the       *)
(* columns the call asks for among them, and all of the text is UTF-8.     *)
Asked == opts.columns \cup ({opts.predicate} \ {None})

Uniform == /\ DistinctKeys
           /\ \A f \in 1..N : \A l \in 1..Len(text[f]) : text[f][l].kind # "bad"
           /\ \A p, q \in Accepted : KeysOf(p) = KeysOf(q)
           /\ \A p \in Accepted : KeysOf(p) # {} /\ Asked \subseteq KeysOf(p)

TypeOK ==
  /\ text \in Seq(Seq(Lines)) /\ opts.n_rows \in Nat \cup {None}
  /\ call \in {"start", "running"} \cup Answers
  /\ pc \in [Worker -> {"idle", "frame", "line", "to_df", "done", "failed", "skipped"}]
  /\ frame \in [Worker -> Nat \ {0}] /\ line \in [Worker -> Nat \ {0}]
  /\ capped \in [Worker -> BOOLEAN]
  /\ error \in [Worker -> ErrorKinds \cup {None}]
  /\ saved \in ErrorKinds \cup {None}
  /\ slots \in Nat
  /\ taken \subseteq Nat \X Nat /\ IsFiniteSet(taken)

(* The slots handed out and the rows read from the text are the same       *)
(* number, whatever the interleaving of the workers: no row without a      *)
(* slot, none read twice, none above the slice (fetch_add, and the chunks  *)
(* the frames are dealt in).                                               *)
SliceRespected ==
  IF Capped THEN Cardinality(taken) = LeastOf(slots, opts.n_rows) ELSE slots = 0

(* A worker gives up its chunk early only when the whole slice has been    *)
(* read, by whichever workers (the load before read_frame and the refused  *)
(* fetch_add).                                                             *)
StopsOnlyWhenFull ==
  \A w \in Worker : capped[w] => Cardinality(taken) = opts.n_rows

(* The invariant those two, and the promise below, rest on.  A worker in a *)
(* frame is in its own chunk; what it has taken lies behind its cursor;    *)
(* every accepted line of its chunk behind the cursor has been taken; it   *)
(* ends behind its last frame or with the slice full; an error is saved    *)
(* before its worker counts as finished; and nobody reads for a caller     *)
(* that is not waiting.                                                    *)
Reading == {"frame", "line", "to_df", "done"}

Placed ==
  \A w \in Active(N) :
    /\ pc[w] \in {"frame", "line"} => frame[w] \in Chunk(N, w)
    /\ pc[w] \in {"idle", "frame"} => line[w] = 1

BehindCursor ==
  \A w \in Active(N) : \A p \in taken :
    p[1] \in Chunk(N, w) => pc[w] # "idle" /\ Before(p, Here(w))

NoneLeftBehind ==
  \A w \in Active(N) : pc[w] \in Reading =>
    \A p \in Accepted : p[1] \in Chunk(N, w) /\ Before(p, Here(w)) => p \in taken

WholeChunk ==
  \A w \in Active(N) : pc[w] \in {"to_df", "done"} =>
    \/ capped[w]
    \/ frame[w] = LastFrame(N, w) /\ line[w] > Len(text[frame[w]])

CappedFull == \A w \in Worker : capped[w] => Capped /\ slots >= opts.n_rows

ErrorSaved ==
  \A w \in Active(N) : /\ pc[w] = "failed" => error[w] # None
                       /\ pc[w] = "skipped" => saved # None

Quiet == call # "running" => \A w \in Active(N) : pc[w] \in {"idle", "done", "skipped"}

IInv == /\ TypeOK
        /\ taken \subseteq Accepted
        /\ Placed /\ BehindCursor /\ NoneLeftBehind /\ WholeChunk
        /\ CappedFull /\ SliceRespected
        /\ ErrorSaved /\ Quiet

(* A log whose lines all carry the same keys comes back exactly: the rows  *)
(* that pass the predicate among the whole text, or among as many rows as  *)
(* the slice has room for; it is declined only when there is no such row   *)
(* and never fails unless a handle or a read does.                         *)
Wanted == {p \in taken : opts.predicate = None \/ p \in Passing}

ExactOnUniformText ==
  call \in Answers /\ Uniform =>
    /\ call = "frame" =>
         /\ Cardinality(taken) = IF Capped THEN LeastOf(opts.n_rows, Cardinality(Accepted))
                                           ELSE Cardinality(Accepted)
         /\ UNION {RowLines(batch, i) : i \in 1..Height(batch)} = Wanted
         /\ Height(batch) = Cardinality(Wanted)
    /\ call = "declined" /\ opts.aligned /\ faults = {} /\ MaxInflight > 0 =>
         IF Capped THEN Accepted = {} \/ opts.n_rows = 0
         ELSE \A p \in Accepted : opts.predicate # None /\ ~ LineAt(p).passes
    /\ call = "failed" => faults # {}

(* Rows leave in the order of the file, whichever worker was quicker, and  *)
(* no row twice (the chunks are contiguous and joined in worker order).    *)
FileOrder ==
  call = "frame" /\ DistinctKeys =>
    \A i, j \in 1..Height(batch) : i < j =>
      \A p \in RowLines(batch, i), q \in RowLines(batch, j) : Before(p, q)

(* The values in one row come from one line: no ragged text, however its   *)
(* keys come and go between lines, frames and workers, shifts a column     *)
(* against another (push_line's null fill, and the refusal of columns of   *)
(* unequal height).                                                        *)
RowsNotMixed ==
  call = "frame" => \A i \in 1..Height(batch) : Cardinality(RowLines(batch, i)) <= 1

RowsNotMixedOnDistinctKeys ==
  call = "frame" /\ DistinctKeys => RowsNotMixed

(* Without aligned_cols_cnt nothing comes of the parallel scan, whatever   *)
(* it read: the caller is sent to the single-threaded path, or told of an  *)
(* error, but never handed a frame.                                        *)
UnalignedDeclines == ~ opts.aligned => call # "frame"

(* The promise of RowClaims is kept: its answer is the caller's.           *)
Answer == IF call \in Answers THEN call ELSE "pending"

Promise == INSTANCE RowClaims WITH
  rows <- Accepted, n_rows <- opts.n_rows, answer <- Answer

KeepsPromise == Promise!Spec

(* The call returns.                                                       *)
Returns == <>(call \in Answers)

-----------------------------------------------------------------------------
(* What the repository says and the code does not do.                      *)

(* "A 0-column frame is discarded by the caller, which then falls back to  *)
(* the single-threaded path" (parse_frames): a worker that read rows and   *)
(* has no column to show for them is never left out of an answer.          *)
ZeroColumnFrameFallsBack ==
  call = "frame" =>
    \A w \in Active(N) : maker[w].rows_pushed > 0 => DOMAIN out[w] # {}
=============================================================================
