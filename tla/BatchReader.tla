----------------------------- MODULE BatchReader ----------------------------
(***************************************************************************)
(* The batches of LazyLogFmtReader: wrrap_next_batch, which tries the      *)
(* parallel scan once and otherwise reads line by line (single_batch,      *)
(* parse_batch_from_reader), and its two callers: a program that pulls     *)
(* batches with next_batch, and the loop of scan() that joins them.        *)
(*                                                                         *)
(* A call holds the lock of the reader state from its first step to its    *)
(* last, so that calls of several threads are one sequence of calls.  The  *)
(* state survives a call that failed, and the caller may call again.       *)
(*                                                                         *)
(* A line is a record as in ParallelScan, its keys a set.  A row is a      *)
(* record [id, keys]: the line it came from, and the keys that were kept.  *)
(* A frame is a record [columns, rows].  A cell of the frame whose row     *)
(* lacks the key is filled: 0, "" or false.                                *)
(***************************************************************************)
EXTENDS Naturals, Sequences, FiniteSets

CONSTANTS
  None,
  Lines,       \* the lines a text is made of
  Inputs,      \* what is read, and how: records of
               \*   text, a sequence of Lines
               \*   opts, a record [caller, n_rows, batch_size, predicate,
               \*     fill_passes, columns, aligned, parallel, schema, probe];
               \*     fill_passes is the predicate's verdict on a filled cell
               \*   faults, what may go wrong: any of "open", "probe", "read"
  MaxCalls     \* bound: calls of a program that pulls

AllKeys == UNION {l.keys : l \in Lines}

ASSUME BatchAssumption ==
  /\ Lines \subseteq [kind : {"row", "skip", "bad"}, keys : SUBSET AllKeys,
                     passes : BOOLEAN, kept : BOOLEAN]
  /\ \A r \in Inputs : /\ r.text \in Seq(Lines)
                       /\ r.opts.caller \in {"pull", "scan"}
                       /\ {r.opts.n_rows, r.opts.batch_size} \subseteq Nat \cup {None}
  /\ None \notin Nat
  /\ MaxCalls \in Nat

VARIABLES
  text, opts, faults,
  \* LogFmtReaderState
  reader,       \* the lines its stream has yielded, or None: no stream
  torn,         \* whether the stream broke in the middle of the next line
  offset,
  finished,
  \* the call
  phase,        \* "idle", "batch", "open", "parse", "flush" or "answered"
  accumulated,  \* the rows read in this call
  column_keys,  \* the column list of this call
  lines_read,   \* the lines that passed the line filter in this call
  answer,       \* its result: [kind, frame], kind "frame", "none" or "error"
  \* scan()
  scan,         \* "running", "done" or "failed"
  acc,          \* the batches joined so far, or NoFrame
  \* history
  calls,        \* the number of calls begun
  raw,          \* the raw rows behind the frames handed out
  given,        \* the rows handed out, in order
  lost          \* the lines whose row a failing call dropped

scanned     == <<text, opts, faults>>
stateVars   == <<reader, torn, offset, finished>>
callVars    == <<accumulated, column_keys, lines_read>>
callerVars  == <<scan, acc>>
historyVars == <<raw, given, lost>>
vars == <<scanned, stateVars, phase, callVars, answer, callerVars, calls, historyVars>>

NoFrame == [columns |-> {}, rows |-> <<>>]

(* A pushed-down slice is the batch size.                                  *)
BatchSize == IF opts.n_rows # None THEN opts.n_rows ELSE opts.batch_size

Answer(kind, frame) == /\ phase' = "answered"
                       /\ answer' = [kind |-> kind, frame |-> frame]

Ids(rows) == {rows[i].id : i \in DOMAIN rows}

-----------------------------------------------------------------------------
(* One call.                                                               *)

Call ==
  /\ phase = "idle"
  /\ IF opts.caller = "pull" THEN calls < MaxCalls ELSE scan = "running"
  /\ phase' = "batch"
  /\ calls' = IF opts.caller = "pull" THEN calls + 1 ELSE calls
  /\ UNCHANGED <<scanned, stateVars, callVars, answer, callerVars, historyVars>>

AnswerFinished ==
  /\ phase = "batch" /\ finished
  /\ Answer("none", NoFrame)
  /\ UNCHANGED <<scanned, stateVars, callVars, callerVars, calls, historyVars>>

(* Mutant: the parallel scan is tried at every call.                       *)
TriesParallelAlways == opts.parallel

TriesParallel == reader = None /\ offset = 0 /\ opts.parallel

(* What passed the line filter, and what passed the row filter too.        *)
Accepted == {i \in DOMAIN text : text[i].kind = "row"}
Kept == {i \in Accepted : text[i].kept}

Verdict(row) ==
  \/ opts.predicate = None
  \/ IF opts.predicate \in row.keys THEN text[row.id].passes ELSE opts.fill_passes

(* On a text whose accepted lines all carry the same keys the answer of    *)
(* the parallel scan is known (ExactOnUniformText of ParallelScan): all    *)
(* accepted rows, or as many as the slice has room for, in the order of    *)
(* the text.  The row filter is not applied to them.                       *)
Uniform == /\ \A i \in DOMAIN text : text[i].kind # "bad"
           /\ \A i, j \in Accepted : text[i].keys = text[j].keys
           /\ \A i \in Accepted : text[i].keys # {}

Claims == IF opts.n_rows = None \/ opts.n_rows >= Cardinality(Accepted)
          THEN {Accepted}
          ELSE {T \in SUBSET Accepted : Cardinality(T) = opts.n_rows}

(* The k-th smallest of a finite set of numbers.                           *)
Nth(S, k) == CHOOSE i \in S : Cardinality({j \in S : j <= i}) = k

InOrderOfText(T) ==
  [k \in 1..Cardinality(T) |-> [id |-> Nth(T, k), keys |-> text[Nth(T, k)].keys]]

(* The rows the predicate lets through, in their order.                    *)
Filtered(rows) ==
  LET through == {i \in DOMAIN rows : Verdict(rows[i])}
  IN  [k \in 1..Cardinality(through) |-> rows[Nth(through, k)]]

(* The columns the call asks for are among the given ones.                 *)
Asked(columns) == opts.columns \cup ({opts.predicate} \ {None}) \subseteq columns

Pushed(df) ==
  [columns |-> IF opts.columns = {} THEN df.columns ELSE opts.columns,
   rows    |-> Filtered(df.rows)]

ParallelFrameAnswered ==
  /\ phase = "batch" /\ ~ finished
  /\ TriesParallel /\ opts.aligned /\ Uniform
  /\ \E T \in Claims \ {{}} :
       LET columns == UNION {text[i].keys : i \in T}
           frame   == Pushed([columns |-> columns, rows |-> InOrderOfText(T)])
       IN  /\ Asked(columns)
           /\ opts.n_rows = None => frame.rows # <<>>
           /\ Answer("frame", frame)
           /\ raw' = raw \cup T
           /\ given' = given \o frame.rows
  /\ finished' = TRUE
  /\ UNCHANGED <<scanned, reader, torn, offset, callVars, callerVars, calls, lost>>

(* It fails by a handle, by a column asked for in vain, or by the text.    *)
ParallelFailed ==
  /\ phase = "batch" /\ ~ finished
  /\ TriesParallel
  /\ \/ "read" \in faults \/ ~ Uniform
     \/ \E i \in Accepted : ~ Asked(text[i].keys)
  /\ Answer("error", NoFrame)
  /\ UNCHANGED <<scanned, stateVars, callVars, callerVars, calls, historyVars>>

(* The parallel scan declined, or is not tried.                            *)
SingleBatch ==
  /\ phase = "batch" /\ ~ finished
  /\ phase' = "open"
  /\ UNCHANGED <<scanned, stateVars, callVars, answer, callerVars, calls, historyVars>>

(* The stream is kept from here on, even when the probe that infers a      *)
(* missing schema through a handle of its own then fails.                  *)
(* Mutant: the stream is opened again at each call.                        *)
OpenedAgain == 0

Opened == IF reader = None THEN 0 ELSE reader

OpenReader ==
  /\ phase = "open"
  /\ \/ /\ phase' = "parse"
        /\ reader' = Opened
        /\ accumulated' = <<>> /\ column_keys' = {} /\ lines_read' = 0
        /\ UNCHANGED answer
     \/ /\ "open" \in faults /\ reader = None
        /\ Answer("error", NoFrame)
        /\ UNCHANGED <<reader, callVars>>
     \/ /\ "probe" \in faults /\ ~ opts.schema
        /\ reader' = Opened
        /\ Answer("error", NoFrame)
        /\ UNCHANGED callVars
  /\ UNCHANGED <<scanned, torn, offset, finished, callerVars, calls, historyVars>>

-----------------------------------------------------------------------------
(* parse_batch_from_reader.                                                *)

BatchFull == BatchSize # None /\ Len(accumulated) >= BatchSize

Reads == phase = "parse" /\ ~ BatchFull /\ reader < Len(text)

(* The line the stream yields next.  If the stream broke in the middle of  *)
(* it, that is what is left of it: some of its pairs, or nothing.          *)
NextLines ==
  LET l == text[reader + 1]
      rests == {[l EXCEPT !.keys = K] : K \in SUBSET l.keys} \cup {[l EXCEPT !.kind = "skip"]}
  IN  IF torn THEN rests ELSE {l}

Advance == /\ reader' = reader + 1
           /\ torn' = FALSE

SkipLine ==
  /\ Reads
  /\ \E l \in NextLines : l.kind = "skip"
  /\ Advance
  /\ UNCHANGED <<scanned, offset, finished, phase, callVars, answer, callerVars,
                 calls, historyVars>>

(* The row filter refuses the row; the line still counts as read.          *)
RejectRow ==
  /\ Reads
  /\ \E l \in NextLines : l.kind = "row" /\ ~ l.kept
  /\ Advance
  /\ lines_read' = lines_read + 1
  /\ UNCHANGED <<scanned, offset, finished, phase, accumulated, column_keys, answer,
                 callerVars, calls, historyVars>>

(* With aligned_cols_cnt a row is cut down to the columns of the first row *)
(* of the call, but only if it does not have as many keys as that one.     *)
Pruned(keys) ==
  IF opts.aligned /\ column_keys # {} /\ Cardinality(keys) # Cardinality(column_keys)
  THEN keys \cap column_keys ELSE keys

KeepRow ==
  /\ Reads
  /\ \E l \in NextLines :
       /\ l.kind = "row" /\ l.kept
       /\ accumulated' = Append(accumulated, [id |-> reader + 1, keys |-> Pruned(l.keys)])
       /\ column_keys' = IF opts.aligned /\ column_keys = {} THEN l.keys ELSE column_keys
  /\ Advance
  /\ lines_read' = lines_read + 1
  /\ UNCHANGED <<scanned, offset, finished, phase, answer, callerVars, calls, historyVars>>

(* A line that is not UTF-8 is consumed, then reported; a read that fails  *)
(* leaves the line whole or broken.  Either way the rows of this call are  *)
(* gone.                                                                   *)
Abandon(dropped) ==
  /\ Answer("error", NoFrame)
  /\ lost' = lost \cup Ids(accumulated) \cup dropped
  /\ UNCHANGED <<scanned, offset, finished, callVars, callerVars, calls, raw, given>>

BadLine == /\ Reads
           /\ \E l \in NextLines : l.kind = "bad"
           /\ Advance
           /\ Abandon({})

ReadFails == /\ Reads
             /\ "read" \in faults
             /\ \/ Abandon({}) /\ UNCHANGED torn
                \/ Abandon({reader + 1}) /\ torn' = TRUE
             /\ UNCHANGED reader

(* Mutant: the end of the stream is the end, whatever has been read.       *)
AnswerNoneAtEnd ==
  /\ phase = "parse" /\ ~ BatchFull /\ reader = Len(text)
  /\ offset' = offset + lines_read
  /\ finished' = TRUE
  /\ Answer("none", NoFrame)
  /\ UNCHANGED <<scanned, reader, torn, callVars, callerVars, calls, historyVars>>

(* The stream is at its end and the call has no row to show.               *)
AnswerNone ==
  /\ phase = "parse" /\ ~ BatchFull /\ reader = Len(text)
  /\ accumulated = <<>>
  /\ offset' = offset + lines_read
  /\ finished' = TRUE
  /\ Answer("none", NoFrame)
  /\ UNCHANGED <<scanned, reader, torn, callVars, callerVars, calls, historyVars>>

(* A slice that is read in full.  Mutant: it takes one row more.           *)
SliceReadLate == opts.n_rows # None /\ Len(accumulated) > opts.n_rows

SliceRead == opts.n_rows # None /\ Len(accumulated) >= opts.n_rows

(* The batch is full, or the stream at its end with rows to show.          *)
BatchEnds == BatchFull \/ (reader = Len(text) /\ accumulated # <<>>)

(* The slice finishes the reader before anything else can fail.            *)
EndBatch ==
  /\ phase = "parse" /\ BatchEnds
  /\ phase' = "flush"
  /\ finished' = (finished \/ SliceRead)
  /\ UNCHANGED <<scanned, reader, torn, offset, callVars, answer, callerVars,
                 calls, historyVars>>

-----------------------------------------------------------------------------
(* The batch becomes a frame: the columns of all its rows, the rows the    *)
(* predicate lets through, the projection.  Rows without a single key have *)
(* no column to be counted in.                                             *)

Filled(rows) ==
  LET columns == UNION {rows[i].keys : i \in DOMAIN rows}
  IN  [columns |-> columns, rows |-> IF columns = {} THEN <<>> ELSE rows]

(* A call that read nothing is the last.  Mutant: it is not.               *)
FinishedStays == finished

FinishedAfter == finished \/ lines_read = 0

(* No row, and no schema to make an empty frame of.                        *)
NoSchema == ~ opts.schema /\ accumulated = <<>>

AnswerNoSchema ==
  /\ phase = "flush" /\ NoSchema
  /\ offset' = offset + lines_read
  /\ finished' = FinishedAfter
  /\ Answer("none", NoFrame)
  /\ UNCHANGED <<scanned, reader, torn, callVars, callerVars, calls, historyVars>>

AnswerBatch ==
  /\ phase = "flush" /\ ~ NoSchema
  /\ LET df == Filled(accumulated) IN
     /\ Asked(df.columns)
     /\ Answer("frame", Pushed(df))
     /\ given' = given \o Pushed(df).rows
  /\ raw' = raw \cup Ids(accumulated)
  /\ offset' = offset + lines_read
  /\ finished' = FinishedAfter
  /\ UNCHANGED <<scanned, reader, torn, callVars, callerVars, calls, lost>>

(* A column asked for is not in this batch.                                *)
AnswerFlushError ==
  /\ phase = "flush" /\ ~ NoSchema
  /\ ~ Asked(Filled(accumulated).columns)
  /\ UNCHANGED <<reader, torn>>
  /\ Abandon({})

-----------------------------------------------------------------------------
(* The callers.                                                            *)

(* A program that pulls takes the answer as it is.                         *)
Pulled ==
  /\ phase = "answered" /\ opts.caller = "pull"
  /\ phase' = "idle"
  /\ UNCHANGED <<scanned, stateVars, callVars, answer, callerVars, calls, historyVars>>

(* scan() passes over a frame without columns, joins a frame with the      *)
(* columns of the last, fails on any other, and stops once it has n_rows.  *)
(* Mutant: the last batch is all that is kept.                             *)
JoinedLast == answer.frame

Joined == IF acc = NoFrame THEN answer.frame
          ELSE [acc EXCEPT !.rows = @ \o answer.frame.rows]

JoinBatch ==
  /\ phase = "answered" /\ opts.caller = "scan"
  /\ answer.kind = "frame"
  /\ IF answer.frame.columns = {} THEN UNCHANGED callerVars
     ELSE IF acc # NoFrame /\ acc.columns # answer.frame.columns
     THEN scan' = "failed" /\ UNCHANGED acc
     ELSE /\ acc' = Joined
          /\ scan' = IF opts.n_rows # None /\ Len(Joined.rows) >= opts.n_rows
                     THEN "done" ELSE "running"
  /\ phase' = "idle"
  /\ UNCHANGED <<scanned, stateVars, callVars, answer, calls, historyVars>>

EndScan ==
  /\ phase = "answered" /\ opts.caller = "scan"
  /\ answer.kind # "frame"
  /\ scan' = IF answer.kind = "none" THEN "done" ELSE "failed"
  /\ phase' = "idle"
  /\ UNCHANGED <<scanned, stateVars, callVars, answer, acc, calls, historyVars>>

(* Mutant: the slice is one row short.                                     *)
ResultShort ==
  IF opts.n_rows # None /\ Len(acc.rows) >= opts.n_rows /\ acc.rows # <<>>
  THEN [acc EXCEPT !.rows = SubSeq(@, 1, opts.n_rows - 1)] ELSE acc

(* What scan() returns.                                                    *)
Result ==
  IF opts.n_rows # None /\ Len(acc.rows) > opts.n_rows
  THEN [acc EXCEPT !.rows = SubSeq(@, 1, opts.n_rows)] ELSE acc

-----------------------------------------------------------------------------
Init ==
  /\ \E r \in Inputs : text = r.text /\ opts = r.opts /\ faults = r.faults
  /\ reader = IF opts.probe THEN 0 ELSE None
  /\ torn = FALSE /\ offset = 0 /\ finished = FALSE
  /\ phase = "idle"
  /\ accumulated = <<>> /\ column_keys = {} /\ lines_read = 0
  /\ answer = [kind |-> "none", frame |-> NoFrame]
  /\ scan = "running" /\ acc = NoFrame
  /\ calls = 0
  /\ raw = {} /\ given = <<>> /\ lost = {}

Batch == \/ AnswerFinished \/ ParallelFrameAnswered \/ ParallelFailed \/ SingleBatch
         \/ OpenReader
         \/ SkipLine \/ RejectRow \/ KeepRow \/ BadLine \/ ReadFails
         \/ AnswerNone \/ EndBatch \/ AnswerNoSchema \/ AnswerBatch \/ AnswerFlushError

Caller == Call \/ Pulled \/ JoinBatch \/ EndScan

Next == Batch \/ Caller

Spec == Init /\ [][Next]_vars

(* One thread runs the call and the loop around it.                        *)
FairSpec == Spec /\ WF_vars(Next)

-----------------------------------------------------------------------------
(* What must hold.                                                         *)

TypeOK ==
  /\ text \in Seq(Lines) /\ {opts.n_rows, opts.batch_size} \subseteq Nat \cup {None}
  /\ reader \in 0..Len(text) \cup {None} /\ torn \in BOOLEAN
  /\ offset \in Nat /\ finished \in BOOLEAN
  /\ phase \in {"idle", "batch", "open", "parse", "flush", "answered"}
  /\ accumulated \in Seq([id : 1..Len(text), keys : SUBSET AllKeys])
  /\ lines_read \in Nat
  /\ raw \subseteq 1..Len(text) /\ lost \subseteq 1..Len(text)

(* Over all calls, the ones that failed and were tried again included, the *)
(* rows come in the order of the text and none comes twice: no mixture of  *)
(* parallel and single batches reads a line again.                         *)
InOrder == \A i, j \in DOMAIN given : i < j => given[i].id < given[j].id

(* The slice counts raw rows: however the calls fall, no more than n_rows  *)
(* rows are behind the frames handed out, and once that many are the       *)
(* reader is finished, whether or not any of them passed the predicate.    *)
SliceFinishes ==
  opts.n_rows # None =>
    /\ Cardinality(raw) <= opts.n_rows
    /\ raw # {} /\ Cardinality(raw) = opts.n_rows => finished

(* When a call says there is nothing more, every line the filters let      *)
(* through has been handed out (or refused by the predicate) or was        *)
(* dropped by a call that reported an error, unless the slice is read or   *)
(* the batches are empty by request.                                       *)
Ended == phase = "answered" /\ answer.kind = "none"

AllAccountedFor ==
  Ended => \/ Kept \subseteq raw \cup lost
           \/ BatchSize = 0
           \/ opts.n_rows # None /\ Cardinality(raw \cup lost) >= opts.n_rows

(* A scan of a text whose lines all carry the same keys returns exactly    *)
(* the lines that pass, or those among the first n_rows lines, whatever    *)
(* the batch size; the parallel scan may take other n_rows lines, and it   *)
(* does not know the row filter.  It fails only for a column no line has,  *)
(* or by a fault.                                                          *)
Slice == {i \in Kept : opts.n_rows # None => Cardinality({j \in Kept : j < i}) < opts.n_rows}

Passing(S) == {i \in S : opts.predicate = None \/ text[i].passes}

ScanExact ==
  opts.caller = "scan" /\ Uniform /\ BatchSize # 0 =>
    /\ scan = "done" =>
         /\ \A i, j \in DOMAIN Result.rows : i < j => Result.rows[i].id < Result.rows[j].id
         /\ \/ Ids(Result.rows) = Passing(Slice)
            \/ opts.parallel /\ \E T \in Claims : Ids(Result.rows) = Passing(T)
    /\ scan = "failed" => faults # {} \/ \E i \in Accepted : ~ Asked(text[i].keys)

(* On a ragged text a scan that does not fail loses no line that has a     *)
(* key: batches without columns, which scan() passes over, hold only lines *)
(* without keys, and what was cut off by a slice is nothing before it.     *)
KeyedRowsKept ==
  scan = "done" /\ ~ opts.parallel /\ BatchSize # 0 /\ opts.predicate = None =>
    /\ {i \in Slice : text[i].keys # {}} \subseteq Ids(Result.rows)
    /\ Ids(Result.rows) \subseteq Slice

(* The loop of scan() ends: no batch without columns, and no batch without *)
(* rows, keeps it calling for ever.                                        *)
ScanReturns == [](opts.caller = "scan" => <>(scan # "running"))

(* The reader is not reopened: its stream never goes back, and a reader    *)
(* that is finished stays so, over failures of either.                     *)
NeverRewinds ==
  [][/\ reader # None => reader' # None /\ reader' >= reader
     /\ finished => finished']_vars

-----------------------------------------------------------------------------
(* What the repository says and the code does not do.                      *)

(* "A key missing from a later line is null there" (LogfmtScanOpts,        *)
(* aligned_cols_cnt): no cell of an aligned scan is filled with a value    *)
(* its line does not have.                                                 *)
NothingFilled ==
  opts.aligned /\ scan = "done" =>
    \A i \in DOMAIN Result.rows : Result.columns \subseteq Result.rows[i].keys
=============================================================================
