# polars-logfmt in TLA+

`polars-logfmt` reads logfmt text (`key=value` pairs, one record a line) from a
file, a compressed file, a command run over ssh, memory, or units of records
handed over by another program, and gives it to polars as a lazy frame. This
directory models the parts of it where something can go wrong that a test would
hardly reach, checks them with TLC on small instances, and proves the most
important results for every instance with TLAPS.

Source paths are below `src/polars-logfmt/src/` unless they say otherwise. `LR`
is `lazy/lazy_logfmt_reader.rs`, `LZ` is `lazy.rs`.

## The system

| Component | Code | State | Operations | Model |
|---|---|---|---|---|
| Scan entry and hand-off | `scan_logfmt` LR 1340, `scan` LR 142-173 | the reader's schema, the stream in its state | infer and keep the probe, take it, clone | `ProbeHandoff` |
| Schema inference | LZ 34-136, 183-199, `schema` LR 228 | the lines consumed, the merged schema | probe lines, widen types, rewind | `ProbeHandoff`, `SchemaTypes`, `ColumnTypes` |
| Scan loop | `scan` LR 175-226 | the batches joined so far | join, stop at the slice, cut | `BatchReader`; types in `ColumnTypes` |
| Batch reader | `wrrap_next_batch` LR 629, `single_batch` LR 672, `parse_batch_from_reader` LR 1236 | stream, offset, finished (`LogFmtReaderState`, behind a lock) | open, read, filter, prune, push down | `BatchReader` |
| Frames of rows | `rows_to_dataframe_filled` LZ 384 | - | choose the type of a column, convert, fill | `ColumnTypes` |
| Parallel scan | `_parallel_batch` LR 417, `parse_frames` LR 982 | the slots of the slice, one worker's frame, line, columns | deal, claim, push, collect | `Deal`, `ParallelScan` |
| Column builders | `DataFrameMaker` LR 1413-1913, `apply_pushdown` LR 1386 | one builder a column, the number of rows | push a line, append nulls, make a frame | `DataFrameMaker`; types in `ColumnTypes` |
| Frame splitter | LR 890-951 | start, end, search window | cut at the last newline | `Frames`, `FrameSplit` |
| Seek-table frames | LR 874-888, `ssh_vfs/*_zst_file.rs` | the table of an opened file | one frame an entry | `Frames`, `FileFrames` |
| File handles | `ssh_vfs/`, `seekable_vfs.rs`, `read_frame` LR 56-83 | path, size told at opening | open, clone, seek, read | `FileFrames` |
| Units stream | LZ 241-288 | next unit, buffer, position | fill, consume, read | `UnitsReader` |
| Line parser | `logfmt.rs` 86-185 | offset, key, value | skip, take a key, take a value | `LogfmtLine` |
| Value types | `logfmt.rs` 38-65, 187-227 | - | infer a type, parse by a schema | `SchemaTypes`, over classes of texts |
| Plugin | `src/logfmt-scan` | the bytes it hands over | options, shared handles | handles in `FileFrames` |
| SSH, filters, CLI, builder | `ssh.rs`, `stream.rs`, `filter.rs`, `time_filter.rs`, `main.rs`, `cli.rs` | - | options, predicates, printing | options and faults of the models |

How they interact: `scan_logfmt` probes the first lines and hands polars an
`AnonymousScan`. Each collect calls `scan`, which takes the probe stream if it is
still there, clones the reader, and calls `wrrap_next_batch` in a loop. The first
call tries the parallel scan: the frames of the file (of the splitter, of a seek
table, or the units) are dealt in contiguous chunks to at most eight workers of
the pool. A worker clones a handle, claims a slot of the slice for each accepted
row with one `fetch_add`, and pushes the row's values to its column builders. The
collector joins the workers' frames in chunk order, or declines, and then the
single-threaded path reads the text line by line from the stream kept in the
state. Every path parses its lines with the same line parser and the same schema.
Predicate and projection are pushed down to whichever path answers. No handle
stays open from one of these steps to the next: the file may be another one, or
longer, each time.

What is hard here: the interleavings of the workers around the slots and the
errors (LR 1022, 1071, 583-600); columns born in the middle of a frame (LR 1661);
the search for a cut in windows (LR 912-933); a file that grows, shrinks or is
rotated between the opening of two handles (LR 66-104, 1260); a call that fails
after it consumed lines, and is followed by another (LR 756); two read paths over
one text (LR 649); collects that race for one stream (LR 147); the type of a
column, which is decided in five places (LZ 113, 153, 548, LR 1413, 1236) and
promised to polars in a sixth; unchecked conversions of slices (`logfmt.rs`
155-180); and a retry of a unit (LZ 264). `PROJECT.json` lists every hazard at its
line with the properties that cover it.

What makes each component right:

- Parallel scan: rows and slots agree; no worker stops before the slice is full;
  the answer holds every row asked for, once, in file order, never two lines in
  one row; an error is never turned into a shorter answer; the call returns.
- Splitter: the frames tile the file, are those the definition gives, and cut no
  line that fits in a frame.
- Files and handles: what a growing file had when the frames were cut comes back
  whole; no byte is parsed that no file had, none twice.
- Batch reader and loop: no line twice, none out of order, none lost without an
  error; the slice ends the reader; the loop ends.
- Units: the stream is the text; a failed read tears no line.
- Hand-off: each collect reads the whole text; no stream has two readers.
- Types: polars gets the type it was told, from every path and every batch, and
  no value that was probed is lost to it.
- Parser: every slice is within the line and between characters.

## The modules

- `RowClaims`: the abstract specification. A scan takes each row at most once, no
  more rows than the slice, and answers with a frame only when no row is left or
  the slice is used up. It may decline or fail.
- `Deal`: the frames each worker is dealt. `ParallelScan` and `FileFrames` use it,
  and the proofs of each begin with the facts about it.
- `DataFrameMaker`: operators for the column builders. A cell is the line it came
  from, or a null, so that a shifted column shows.
- `ParallelScan`: the workers and the collector. One action per step of
  `parse_frames` that another worker can see or be seen by: the clone of a handle,
  the load before a frame is read (`LeaveFrame`/`ReadFrame`), a line (`SkipLine`,
  `BadLine`, `TakeRow`, `RefuseRow`), `EndFrame`, `ToDf`. `slots` is the shared
  counter, `saved` the error the collector keeps, `taken` a history variable. A
  worker whose task has not started when an error is saved may never run
  (`SkipTask`), as rayon's collect into a `Result` stops early. A frame is a
  sequence of lines here, so the units of a source are frames like any other.
- `Frames`: what a cut of a text is (`CutEnd`), all of them from an offset on
  (`CutsFrom`, a recursive function) and from the start (`CutFrames`), and the frames
  of a seek table.
- `FrameSplit`: the search that finds the cuts. The file is its length and the
  offsets of its newlines. `MissDelim` and `FindDelim` are one window of the search
  each. That its frames are `CutFrames` is `CutAsDefined`, and `FileFrames` uses the
  definition in its place.
- `FileFrames`: a scan of a file that is written to. The actions of `Writer`
  (append, truncate, put another file in its place, remove it) stand for whatever
  else runs on the machine and are external. The scan opens its handles in the
  order of the code: the reader's own (`Fresh`), the one the frames are cut with
  (`Probe`, `Cut`), one per worker (`CloneHandle`), the one of the single-threaded
  path (`OpenStream`). Handles come in four kinds: local, SFTP (which may not tell
  a size), seekable zst, and the plugin's shared bytes. `SeekFrame`, `ReadBytes`
  and `ParseFrame` are `read_frame`; `Fill`, `TakeLine`, `TakeTorn` and `EndOfBatch`
  are the `BufReader` under `parse_batch_from_reader`.
- `BatchReader`: `wrrap_next_batch` and its two callers, `scan` and a program that
  pulls. A call runs under the lock of the state, so its steps meet no other
  call. `reader`, `offset` and `finished` survive a failed call. On texts
  whose lines have the same keys the parallel scan answers as `ParallelScan`'s
  `ExactOnUniformText` says. On others it only fails or declines here: what it
  answers there is checked in `ParallelScan` itself.
- `UnitsReader`: `fill_buf` round by round, and a caller that reads lines or
  chunks and calls again after an error. Bytes are positions.
- `SchemaTypes`: operators for types: `infer_type`, `merge_schema_field`, the parse
  with a field of a schema, and what polars is told. The text of a value is known
  by its class, that is, by which of the parsers accept it.
- `ProbeHandoff`: pulls, `scan_logfmt` and any number of concurrent collects over
  the reader's schema and stream. The probe's loop is an operator, for nobody sees
  it halfway.
- `ColumnTypes`: one column from the values in the text to the frames handed out.
  `Announce` and `Collect` are the schema for polars and for the clone that reads,
  `PushLine` and `CollectFrame` the typed builders, `SingleBatch` is
  `rows_to_dataframe_filled` and the join in `scan`. A cell is kept, a default or a
  null. Each worker's share of the rows is any contiguous deal.
- `LogfmtLine`: the parser's loop. A step is one run of a `while` that only skips,
  or one byte between quotes. Of a byte only its class is kept; which characters
  are whitespace, and numbers, are abstracted.
- `*Proofs`: the proofs of a module. `MC*`: the small instances.

Every mapped definition has its lines in `PROJECT.json`. Definitions under a
comment "Mutant" are what a plausible bug would make of the definition below
them. Each property has one that violates it.

## The runs

| Run | Bounds | Shows |
|---|---|---|
| `Scan` | 3 workers; equal-keyed texts in 0, 4 or 5 frames with 2 lines and in 2 or 3 with 3; ragged ones in 1-3 frames with 3 lines and in 2 with 4 and a predicate, on a column asked for or on another; unreadable lines and failing handles and reads; slices none, 0, 1, 2 | slots, early stops, exact rows, file order, no row mixed, the refinement of `RowClaims`, the call returns |
| `Split` | all files up to 9 bytes, frames of 3, windows of 2, failing and short reads, unknown size | tiling, cuts, whole lines, the search is the definition, end |
| `Files` | 2 workers, files of 4 bytes, frames of 2, 4 kinds of handles, 2 steps of the writer, up to 2 files, failing openings | appended files come back as they were cut, pieces are real, the stream tears only an unfinished line, the scan ends |
| `Batch` | `scan`: 3 lines of 7 kinds, slices and batches 0-2; `pull`: 3 lines of 4 kinds, 4 calls, all faults | exact results, no false failure, order, nothing lost silently, the slice ends the reader, nothing is rewound, the loop ends |
| `Units` | 3 units of 3 bytes, by lines or chunks of 2, failing reads | the stream is the text, nothing torn, recovery |
| `Probe` | 2 collects, 3 lines of 6 kinds, probes of 1 and 3 rows, 1 pull, faults | whole texts, one reader a stream, connections, schema |
| `Columns` | 3 rows of 6 classes or none, every field, probes of 0, 1 and 3 rows, batches of 1 and 2, 2 workers | promised types, equal types, no probed value lost, the paths agree |
| `Line` | all lines of 5 pieces | slices, plain lines exact, quotes, end |
| `ScanZeroColumn`, `ScanRepeatedKey`, `BatchFilled`, `DurationColumns` | | the code does not do what its documents say, see below |

Why the bounds suffice. With 3 workers and 4 or 5 frames the chunks are full,
short (5 in chunks of 2) and empty (4 in chunks of 2 leave the third worker none),
and a stale load, a claim and a refusal can belong to three workers. A slice of 2
is overrun by two workers and filled by one. Mixing two lines in a row needs a
column born late, one that lacks a cell and a line to even the heights: three
lines. A frame of 3 bytes with windows of 2 has a full, a short and an empty
window, and 9 bytes are three frames and more. In `Files` frames of 2 in a file of
4 give each worker one of its own and cut a line of 3 bytes in two; two steps of
the writer are a rotation and an append to what was there before, or a
truncation that is appended to. Three lines give a batch of one, a failed call and a
rest. Three rows of a column hold a probed value, one beyond the probe, and a
missing one, in two batches or two shares. A line of 5 pieces holds two pairs, or
an escape before the end of the line, before a quote and before a two-byte
character. `MaxCalls`, `MaxPulls`, `MaxBatch`, `MaxChunk`, `MaxFiles`, `MaxWrites`,
`MaxTotal`, `MaxLen` and the other `MC` constants are bounds of the models alone.

Fairness. `ParallelScan`, `FrameSplit`, `BatchReader` and `LogfmtLine` assume weak
fairness of `Next`: a thread of the program that can go on does, whichever. That is
what the pool and the operating system give, and enough, for each of them counts
down what is left to do. `FileFrames` assumes it of the scan's own steps; the
writer has none, and is bounded. `UnitsReader`: the caller calls again after an
error, and a unit read again and again is read in the end (strong fairness of the
reads that succeed): `Recovers` is about what is left behind by the failures
before that. `Probe` and `Columns` check no liveness and assume none. Deadlock is
not checked: all of these stop when they are done.

## The proofs

| Module | Theorems |
|---|---|
| `ParallelScanProofs` | `ChunksDisjoint`, `ChunksCover`; `TypeCorrect`, `SliceIsRespected`, `WorkersStopOnlyWhenFull`, `ScanKeepsPromise`, `UnalignedNeverAnswers`, `RowsKeepFileOrder`, `RowsAreNotMixed`, `UniformTextIsExact` |
| `FileFramesProofs` | `TypeCorrect`, `PiecesAreReal`, `StreamTakesLines`, `AnswerIsSnapshot` |
| `FrameSplitProofs` | `FramesTile`, `CutsAreDelims`, `LinesStayWhole`, `SearchIsDefinition` |
| `BatchReaderProofs` | `TypeCorrect`, `SliceIsFinal`, `LinesAccountedFor`, `StreamNeverRewinds`, `RowsInOrder`, `UniformScanExact`, `ScanKeepsKeyedRows` |
| `UnitsReaderProofs` | `TypeCorrect`, `PiecesInOrder`, `PiecesAreLines`, `NothingIsLost` |
| `ProbeHandoffProofs` | `TypeCorrect`, `OneReaderEach`, `WholeCollects`, `ConnectionEach`, `ProbedSchemaNarrowest`; `MergedTypes`, `MergeOrder`, `MergeNarrowest` |
| `ColumnTypesProofs` | `PromisesAreKept`, `TypesDoNotDiffer`, `NoProbedValueLost`, `PathsKeepTheSame`; `WideningKeeps`, `InferredAccepts` |
| `LogfmtLineProofs` | `SlicesAreSound`, `QuotedValuesClose`, `PlainLinesExact` |

Those about a specification rest on an inductive invariant `IInv` of their module.

Every invariant and action property that a passing run checks is proved, and what
remains for TLC alone is liveness.

What a recursive definition computes is not proved by an induction over data, which
would need a theorem with an operator as its parameter. These definitions are
recursive functions, of offsets or of the numbers of lines, and each is unfolded once
by a least counterexample: the set of arguments at which the equation fails, if not
empty, has a least element in a well-founded order, at which it holds
(`CutsSolved`, `AfterSolved`). The invariants then carry the value step by step, as
the code does.

`ParallelScan`, from `ScanAssumption` (the kinds of lines; `None` is apart from
numbers, errors, pairs and the keys of a line) and `DealAssumption` (a natural number of threads): `SliceRespected`
counts slots and rows, and to keep it when a row is taken the row must be new.
That needs `BehindCursor` (what was taken in a worker's chunk lies before its
cursor), `Placed` (a worker is in its chunk) and that chunks are disjoint, a lemma
about the rounded-up division. That an answer leaves nothing unread needs the
converse, `NoneLeftBehind`, for a worker in its chunk, `WholeChunk` for one at its
end, `ChunksCover`, and `CappedFull` for those that stopped early; and `ErrorSaved`,
or a failed worker could count as finished. `ScanKeepsPromise` then maps each
step to a `Take`, an answer or a stutter of `RowClaims`. `UnalignedNeverAnswers` needs
an invariant of its own, `NoColumns`: without `aligned_cols_cnt` no worker ever has a
column, so all frames are empty and the caller finds none to show.

What is in the frames takes two more. `FramesInOrder` holds while no line names a key
twice: the columns of a worker hold rows of its own chunk in the order they were
read, aligned from their ends (`Trailing`), because a column that was born late lacks
cells at its front and nowhere else; so its frame, and the joined one, is rectangular,
sorted and of one line a row (`Ordered`), chunks lying one behind the other. That is
`RowsKeepFileOrder` and `RowsAreNotMixed`, and the condition is the one
`ScanRepeatedKey` shows to be needed. `UniformExact` is about texts whose lines have
the same keys, those asked for among them: each column of a worker holds exactly the
rows it took and its frame those due, and errors come from faults alone.
`UniformTextIsExact` puts this together with `NoneLeftBehind` and the count of slots.

`FileFrames`, from `FileAssumption` (a seek table counts up, offsets are natural
numbers) and the assumptions of `Deal` and `Frames`: the frames lie one behind the
other (`Apart`), whether they are cut or come from a table; no worker starts before
the last one is cut (`Pristine`), or a chunk could change under it; and what a worker
has parsed (`PieceOK`) is each time the start of a frame of its own chunk, before the
one in work, of bytes its file had (`WorkerOK`). Two pieces are then apart because
frames are, and two workers' because chunks are disjoint. Nothing in this depends on
what the writer does to the name; that a piece lies in its file holds as long as no
file was truncated, and the invariant carries that condition along.

Two further invariants are proved on top of it. `StreamInv`, for the single-threaded
path: the lines taken lie one behind the other up to the cursor (`Chained`), none
passes a line end of the file and what was seen is still there (`SeenReal`).
`SnapInv`, for the parallel one: frames join (`Adjacent`), end with the size told at
opening, which the file keeps (`Sized`), and each ends with a line unless it has no
line end (`CutWell`); a worker with that file open gets each frame in full, because
the file cannot end before the frame does (`WholeFrames`); and a worker that failed
or did not run cannot be part of an answer (`ErrorKept`, `AllDone`).
`AnswerIsSnapshot` then is a fact about offsets (`LinesOfFrame`): the lines of a frame
cut at line ends are the lines of the text that begin in it, and each offset of the
text is in a frame, which by `ChunksCover` some worker has parsed.

`FrameSplit`, from the sizes being positive: `InFrame` keeps the search window inside the frame,
so that a cut is never at its start, and `NothingMissed` says that the windows
already looked at hold no newline, so that a frame keeps its full length only if
it has none. `LinesStayWhole` is about files whose lines fit in a frame. `CutSoFar`
says that a cut is where the definition puts it, and that what has been cut, followed
by `CutsFrom` at the start of the next frame, is `CutFrames` of the whole file: at the
end nothing is left to follow, which is `SearchIsDefinition`. `FileFrames` rests on it.

`BatchReader`, from `BatchAssumption` (the shapes of lines and options): a line the
stream has passed is behind a frame, lost with an error, or among the rows in work
(`Accounted`); the rows in work are of different lines, no more than the batch has
room for (`CallRows`), so their number can be told from the counter; and once rows of
a slice were shown the slice is read or the stream is at its end (`SliceCounted`):
without the second case a call after a short batch could add rows beyond the slice.
`EndsAccounted` carries what is known at the end over the calls that follow it.
`GivenBehind` is the order: what was handed out ascends and lies behind the stream,
and without a stream it can only come from one parallel answer. The loop of `scan`
has an invariant of its own, `ScanInv`: a batch with a keyed line has a keyed row, so
that it is not dropped for having no columns (`BatchKeys`, `ScanFrames`); the rows
handed out are those joined and the batch not joined yet, and without a predicate no
keyed line is missing among them (`ScanLoop`); on uniform texts every batch has the
same columns, so that none fails to join, and an error comes from a fault or from a
column that the lines lack (`ScanUniform`). `UniformScanExact` and `ScanKeepsKeyedRows` follow from it
and from `Accounted`, through a lemma that the first rows of a sorted answer are those
the slice is due.

`UnitsReader`, from units being whole lines and from a source that fails leaving
nothing in the buffer (`"partial"` is not among `Faults`; it fails otherwise, see
below): the buffer is the unit read last (`WholeUnit`), bytes before the position
are passed and the others not (`Passed`), and as long as any is left the last byte
handed out is the last one passed, with no line in work (`Frontier`): lines end
where units end. At the end of the text alone a line may be in work that lacks its
end, which is `HandEnds`.

`ProbeHandoff`, from `ProbeAssumption` (finitely many collects, rows that give a type
to each of their keys): what a collect has
got and what its stream still replays lie one behind the other (`StreamFits`,
`GotInOrder`), a stream that stands behind the first line got there by pulls under a
given schema (`StashWhole`, `BehindPulls`), and the connections made are at most the
collects that needed one and the probe still kept (`Connections`). The theorems
about merging are facts about `SchemaTypes`: the types are a semilattice under
it, so that the schema depends on the set of rows probed only. `SchemaKnown` says that
the schema kept is none, that of a text without one, or what was inferred from the
lines probed, and
`ProbedSchemaNarrowest` that each type inferred is the narrowest that covers the rows
probed: `SchemaAfterNarrow` takes it from one line to the next.

`ColumnTypes`, from `ColumnAssumption` (the shapes of texts and options, workers
numbered from 1): once a scan reads, the field it reads with is the one wanted, and
what polars was told was told of that field (`SchemaInv`). The builder of a worker
holds the cells its rows make, and no others (`BuilderInv`); each row has a worker, the
first whose share does not end before it, and so is in one frame (`FramesPlaced`).
Under a field all frames of the single-threaded path have the type it fills with and
the one frame of the workers has the type announced (`FramesTyped`); a frame that does
not fit is the last (`Unfit`). The workers are asked first and answer whenever their
frames fit, and their frame then holds what the builders make of the whole text
(`WorkersFirst`). `ProbedKept` says
that the type the probe merged accepts each value it saw: what is inferred of a value
accepts it (`InferredAccepts`), and a wider type accepts what a narrower one did
(`WideningKeeps`).

`LogfmtLine`, from lines being UTF-8: `Between` says that outside of quotes the
parser stands between two characters behind all it has emitted, and that a value
starts between characters and ends at a quote. Escapes may take the offset into a
character or one byte over the end; a value then still ends at a quote or at the
end of the line. The values are converted to `str` unchecked (`logfmt.rs` 169,
180), and `SlicesAreSound` is what that rests on. `QuoteWork` is the state of the loop
between quotes: no quote behind the parser closes the value, and the parser is never
at an escaped byte, so the value ends at the first quote that is not escaped
(`QuotedValuesClose`). `PlainWork` is about lines of plain pairs: the pairs so far are
the words placed before the parser's position, and the word in work begins where one
does, so at the end of the line there is one pair a word (`PlainLinesExact`).

Only model-checked: liveness (`Returns`, `Terminates`, `ScanReturns`, `ScanEnds`,
`Recovers`), which the prover does not do.

## Where the code and its documents differ

With a run (the finding in `PROJECT.json` has the quotation):

- `ScanZeroColumn`: a worker whose first accepted line has no pairs has no
  columns, and its rows are left out of the answer; the comment at LR 1200-1203
  says that the scan falls back then.
- `ScanRepeatedKey`: a line that repeats one key and lacks another counts as
  complete, so no null is appended (LR 1661) and columns shift.
- `BatchFilled`: the single-threaded path fills a missing key with 0, "" or false,
  `scan.rs` 48-49 promises a null.
- `DurationColumns`: polars is promised integers for durations and the log of the
  change says it gets them; the single-threaded path builds strings (LZ 548).

Without one (met on the way, visible in the models):

- The parallel scan does not ask the row filter (FIXME at LR 1097), which
  `doc/4_multithread_scan_plan.md` 23 says it does.
- A projection or predicate on a key that one worker's lines lack fails the whole
  scan (LR 1205), although a missing key is to be null (`scan.rs` 48-49).
- A later line with as many keys as the first is not pruned (LR 1294), so a key
  the first did not have is kept (`scan.rs` 49-50).
- `a=""` has the value `"`: an empty value looks like one without a closing quote
  (`logfmt.rs` 165). `QuoteCloses` leaves it out.
- A bare word followed by a word swallows that word, `a b=1` gives no pair
  (`logfmt.rs` 132-137).
- A collect of a reader with a given schema that batches were pulled from goes on
  behind them (`CollectsWhole` says how), and the next pull starts again.
- A column a given schema does not name is parsed as a string (`logfmt.rs` 211),
  `scan.rs` 33 says that its type is inferred.
- `schema` obeys the `infer_schema_length` polars passes (LR 229-231), the clone that
  reads does not; the two can then differ in a type, which `PromiseKept` leaves out.
- A stream that is pulled without a schema gives each batch the types of its own
  rows, so two batches may differ (`OneType` says when they do not).
- A file that is replaced while it is scanned is cut by the sizes of one file and
  read from another, and one answer may hold rows of both (`clone_handle` opens the
  path again); `PiecesReal` and `SnapshotLines` say what still holds.
- A unit that fails after it appended bytes leaves them in the buffer; they are
  handed out, and again when the unit is read: with `Faults = {"fail", "partial"}`
  in `Units.cfg` TLC finds `InOrder` violated by a failing read, a line begun with
  the leftovers, and the same unit read in full. `UnitSource` (`seekable_vfs.rs`
  31-33) does not say whether it may.

## Not modelled

- What the parsers of numbers, dates and durations accept (external, of which
  `SchemaTypes` keeps the classes), and the wording of a value as a string.
- The decoder of zst files: of it `FileFrames` has that it reads the text and
  refuses a seek behind its end.
- The reader's builder, the translation of options (`scan.rs`, the
  plugin, `cli.rs`), filters, printing and the benchmark (`main.rs`): functions of
  their arguments. Their results are the options and the verdicts of the modules.
- SSH authentication and channels, `stream.rs`: the ssh2 library's I/O; here a source
  that opens or not and breaks or not.
- The asynchronous methods of the handles, the two modes of `DataFrameMaker` that
  nothing selects, and the files that are not compiled (`dsl.rs`,
  `logfmt_schema_util.rs`, `lazy/lazy_logfmt_query.rs`).
- Memory orders: the slots are one atomic counter, and no other location is ordered
  by it, so interleaving loses nothing.

## The plan

Done, in this order: `RowClaims`, `DataFrameMaker`, `Deal`, `ParallelScan`;
`Frames`, `FrameSplit`; `BatchReader`; `LogfmtLine`; `UnitsReader`; `SchemaTypes`,
`ProbeHandoff`; `ColumnTypes`; `FileFrames`; and the proofs above.

Left, in this order:

1. `BatchReader` over the stream of `UnitsReader` and behind `ProbeHandoff`, so that
   a failed read is known to tear no line of a unit; an abstract stream of lines that
   both implement.
2. Several columns at once in `ColumnTypes`, and the pruning of a batch's rows.
