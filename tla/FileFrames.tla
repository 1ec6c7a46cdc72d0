----------------------------- MODULE FileFrames -----------------------------
(***************************************************************************)
(* A scan of a log that is still written to.  The scan keeps no handle     *)
(* open from one step to the next: the reader's own, the one the frames    *)
(* are cut with, one per worker and the one of the single-threaded path    *)
(* are each opened anew (SeekableVfsFile::clone_handle), while a writer    *)
(* appends to the file, truncates it, or puts another one in its place.    *)
(*                                                                         *)
(* Handles are of these kinds:                                             *)
(*   "local"  a local plain file, opened by path, its size told at opening *)
(*   "sftp"   the same over SFTP, where the size may be unknown            *)
(*   "zst"    a seekable zstd file, local or over SFTP: opened by path,    *)
(*            with a table of its frames; such a file is never appended to *)
(*   "shared" the bytes a plugin hands over: every handle is on the same   *)
(*            file, and the size is asked for when it is needed            *)
(*                                                                         *)
(* A file is a record: `lines' the offsets of the line ends it has or will *)
(* have, `len' how much of it is written, `table' its seek table.  Bytes   *)
(* are whole characters here; a character cut in two is a "bad" line of    *)
(* module ParallelScan.  The scan has no slice: no worker stops early.     *)
(***************************************************************************)
EXTENDS Deal, Frames

CONSTANTS
  Kinds,     \* the kinds of handles
  LineEnds,  \* what `lines' may be
  Tables,    \* what `table' may be, for "zst"; a sequence of frame ends
  MaxLen,    \* bound: the longest file
  MaxFiles,  \* bound: files that get the name one after the other
  MaxWrites, \* bound: steps of the writer
  Faults     \* what may go wrong besides the writer: "open"

(* A seek table counts up: it is made of the sizes of the frames.          *)
ASSUME FileAssumption ==
  /\ \A l \in LineEnds : l \subseteq Nat
  /\ \A t \in Tables : t \in Seq(Nat) /\ \A i, j \in 1..Len(t) : i < j => t[i] <= t[j]
  /\ {MaxLen, MaxFiles, MaxWrites} \subseteq Nat

VARIABLES
  kind,     \* the kind of the handles
  files,    \* the files that had the name, oldest first
  name,     \* which of them has it now; 0 when it was removed
  writes,   \* steps of the writer
  shrunk,   \* history: some file was truncated
  call,     \* the scan: "start", "probe", "cut", "read", "stream", "lines",
            \* and how it ends: "framed", "streamed" or "failed"
  handle,   \* the file the scan's own thread has open: its reader's, then
            \* the one the frames are cut from, then the one it streams
  size,     \* the size that handle told
  frames,   \* the frames cut so far
  pc,       \* per worker: "idle", "frame", "bytes", "done", "failed", "skipped"
  fd,       \* per worker, the file it has open; 0 for none
  at,       \* per worker, the frame in work
  got,      \* per worker, how many of its bytes were read
  why,      \* per worker, what failed: "clone", "read" or "none"
  pieces,   \* per worker, what it parsed: records [file, start, len]
  cursor,   \* the single-threaded path: where the line in work starts
  seen,     \* and how far the file was read
  kept,     \* whether the batch in work has a row
  lines,    \* the lines it took: records [start, len]
  ends      \* history: where it found the file to end

disk    == <<kind, files, name, writes, shrunk>>
workers == <<pc, fd, at, got, why, pieces>>
stream  == <<cursor, seen, kept, lines, ends>>
vars    == <<disk, call, handle, size, frames, workers, stream>>

N == Len(frames)

NewFile(k) ==
  IF k = "zst"
    THEN {[lines |-> l, len |-> IF t = <<>> THEN 0 ELSE t[Len(t)], table |-> t] :
            l \in LineEnds, t \in Tables}
    ELSE {[lines |-> l, len |-> n, table |-> <<>>] : l \in LineEnds, n \in 0..MaxLen}

Init ==
  /\ kind \in Kinds
  /\ \E f \in NewFile(kind) : files = <<f>>
  /\ name = 1 /\ writes = 0 /\ shrunk = FALSE
  /\ call = "start"
  /\ handle = 1 /\ size = 0 /\ frames = <<>>
  /\ pc = [w \in Worker |-> "idle"] /\ fd = [w \in Worker |-> 0] /\ at = [w \in Worker |-> 1]
  /\ got = [w \in Worker |-> 0] /\ why = [w \in Worker |-> "none"]
  /\ pieces = [w \in Worker |-> <<>>]
  /\ cursor = 0 /\ seen = 0 /\ kept = FALSE /\ lines = <<>> /\ ends = {}

-----------------------------------------------------------------------------
(* The writer.                                                             *)

Write == writes < MaxWrites /\ writes' = writes + 1

Append1(f) ==
  /\ Write /\ kind # "zst" /\ files[f].len < MaxLen
  /\ \E n \in (files[f].len + 1)..MaxLen : files' = [files EXCEPT ![f].len = n]
  /\ UNCHANGED <<name, shrunk>>

Truncate(f) ==
  /\ Write /\ kind # "zst" /\ files[f].len > 0
  /\ \E n \in 0..(files[f].len - 1) : files' = [files EXCEPT ![f].len = n]
  /\ shrunk' = TRUE
  /\ UNCHANGED name

Replace ==
  /\ Write /\ Len(files) < MaxFiles
  /\ \E f \in NewFile(kind) : files' = Append(files, f)
  /\ name' = Len(files) + 1
  /\ UNCHANGED shrunk

Remove ==
  /\ Write /\ name # 0
  /\ name' = 0
  /\ UNCHANGED <<files, shrunk>>

Writer ==
  /\ \/ \E f \in DOMAIN files : Append1(f) \/ Truncate(f)
     \/ Replace \/ Remove
  /\ UNCHANGED <<kind, call, handle, size, frames, workers, stream>>

-----------------------------------------------------------------------------
(* Handles.                                                                *)

(* The files an open finds: at most one.                                   *)
Opened == IF kind = "shared" THEN {1} ELSE {name} \ {0}

(* "open": the network, or an archive whose table is not written yet.      *)
OpenFails == Opened = {} \/ "open" \in Faults

(* A handle over SFTP may not be told a size.                              *)
Sizes(f) == {files[f].len} \cup (IF kind = "sftp" THEN {0} ELSE {})

(* clone_with_fresh_handle: the scan works on a reader of its own.         *)
Fresh ==
  /\ call = "start"
  /\ \/ handle' \in Opened /\ call' = "probe"
     \/ OpenFails /\ call' = "failed" /\ UNCHANGED handle
  /\ UNCHANGED <<disk, size, frames, workers, stream>>

(* The handle the frames are cut with: a seek table that names a frame is  *)
(* taken as it is; without, a file that is empty or does not tell its size *)
(* is left to the single-threaded path.                                    *)
Probe ==
  /\ call = "probe"
  /\ \/ \E f \in Opened, s \in 0..MaxLen :
          /\ s \in Sizes(f) /\ handle' = f /\ size' = s
          /\ frames' = TableFrames(files[f].table)
          /\ call' = CASE frames' # <<>> -> "read"
                       [] frames' = <<>> /\ s > 0 -> "cut"
                       [] OTHER -> "stream"
     \/ OpenFails /\ call' = "stream" /\ UNCHANGED <<handle, size, frames>>
  /\ UNCHANGED <<disk, workers, stream>>

CutUpTo == IF frames = <<>> THEN 0 ELSE EndOf(frames[N])

(* The line ends that can be read from file `f' now.                       *)
Visible(f) == {d \in files[f].lines : d < files[f].len}

(* FrameSplit, a frame at a time: the size is that of the opening, the     *)
(* bytes are looked at as they are now.                                    *)
Cut ==
  /\ call = "cut" /\ CutUpTo < size
  /\ LET e == CutEnd(Visible(handle), size, CutUpTo)
     IN  frames' = Append(frames, [start |-> CutUpTo, len |-> e - CutUpTo])
  /\ UNCHANGED <<disk, call, handle, size, workers, stream>>

CutDone ==
  /\ call = "cut" /\ CutUpTo = size
  /\ call' = "read"
  /\ UNCHANGED <<disk, handle, size, frames, workers, stream>>

-----------------------------------------------------------------------------
(* The workers.                                                            *)

Fail(w, reason) == /\ pc' = [pc EXCEPT ![w] = "failed"]
                   /\ why' = [why EXCEPT ![w] = reason]

CloneHandle(w) ==
  /\ call = "read" /\ pc[w] = "idle"
  /\ \/ /\ \E f \in Opened : fd' = [fd EXCEPT ![w] = f]
        /\ pc' = [pc EXCEPT ![w] = "frame"]
        /\ at' = [at EXCEPT ![w] = FirstFrame(N, w)]
        /\ UNCHANGED why
     \/ OpenFails /\ Fail(w, "clone") /\ UNCHANGED <<fd, at>>
  /\ UNCHANGED <<disk, call, handle, size, frames, got, pieces, stream>>

(* After an error a task that was not started may never be.                *)
SkipTask(w) ==
  /\ call = "read" /\ pc[w] = "idle"
  /\ \E v \in Active(N) : pc[v] = "failed"
  /\ pc' = [pc EXCEPT ![w] = "skipped"]
  /\ UNCHANGED <<disk, call, handle, size, frames, fd, at, got, why, pieces, stream>>

NextFrame(w) ==
  IF at[w] = LastFrame(N, w)
    THEN pc' = [pc EXCEPT ![w] = "done"] /\ UNCHANGED at
    ELSE pc' = [pc EXCEPT ![w] = "frame"] /\ at' = [at EXCEPT ![w] = @ + 1]

(* read_frame: an empty frame is skipped; a seek of a decoder behind the   *)
(* end of its text is an error.                                            *)
SeekFrame(w) ==
  /\ pc[w] = "frame"
  /\ \/ frames[at[w]].len = 0 /\ NextFrame(w) /\ UNCHANGED <<got, why>>
     \/ /\ frames[at[w]].len > 0
        /\ pc' = [pc EXCEPT ![w] = "bytes"] /\ got' = [got EXCEPT ![w] = 0]
        /\ UNCHANGED <<at, why>>
     \/ /\ kind = "zst" /\ frames[at[w]].start > files[fd[w]].len
        /\ Fail(w, "read") /\ UNCHANGED <<at, got>>
  /\ UNCHANGED <<disk, call, handle, size, frames, fd, pieces, stream>>

Left(w) == frames[at[w]].len - got[w]
There(w) == files[fd[w]].len - (frames[at[w]].start + got[w])

(* One read; it may return less than is there.                             *)
ReadBytes(w) ==
  /\ pc[w] = "bytes"
  /\ \E n \in 1..Left(w) : n <= There(w) /\ got' = [got EXCEPT ![w] = @ + n]
  /\ UNCHANGED <<disk, call, handle, size, frames, pc, fd, at, why, pieces, stream>>

ParseAs(w, n) ==
  /\ pieces' = [pieces EXCEPT ![w] =
                  Append(@, [file |-> fd[w], start |-> frames[at[w]].start, len |-> n])]
  /\ NextFrame(w)
  /\ UNCHANGED <<disk, call, handle, size, frames, fd, got, why, stream>>

(* Mutants: one read is taken for the whole frame; the buffer is not cut   *)
(* to what was read; the end of the file is not taken for an end.          *)
ParseFirstRead(w) ==
  /\ pc[w] = "bytes" /\ (got[w] > 0 \/ There(w) <= 0)
  /\ ParseAs(w, got[w])

ParsePadded(w) ==
  /\ pc[w] = "bytes" /\ (Left(w) = 0 \/ There(w) <= 0)
  /\ ParseAs(w, frames[at[w]].len)

ParseFull(w) ==
  /\ pc[w] = "bytes" /\ Left(w) = 0
  /\ ParseAs(w, got[w])

(* The frame is read, or the file ends before it does: what there is of it *)
(* is parsed.                                                              *)
ParseFrame(w) ==
  /\ pc[w] = "bytes" /\ (Left(w) = 0 \/ There(w) <= 0)
  /\ ParseAs(w, got[w])

Step(w) == CloneHandle(w) \/ SkipTask(w) \/ SeekFrame(w) \/ ReadBytes(w) \/ ParseFrame(w)

(* The caller gets the error kept, or the rows; the single-threaded path   *)
(* takes over when a handle was missing, when there is no worker or when   *)
(* nothing comes of the rows (see ParallelScan).                           *)
Join ==
  /\ call = "read" /\ \A w \in Active(N) : pc[w] \in {"done", "failed", "skipped"}
  /\ LET failed == {why[w] : w \in Active(N)} \ {"none"}
     IN  call' \in (IF failed = {}
                      THEN {"stream"} \cup (IF Active(N) = {} THEN {} ELSE {"framed"})
                      ELSE {IF r = "clone" THEN "stream" ELSE "failed" : r \in failed})
  /\ UNCHANGED <<disk, handle, size, frames, workers, stream>>

-----------------------------------------------------------------------------
(* The single-threaded path (BatchReader), over a BufReader.               *)

OpenStream ==
  /\ call = "stream"
  /\ \/ \E f \in Opened : handle' = f /\ call' = "lines" /\ size' = files[f].len
     \/ OpenFails /\ call' = "failed" /\ UNCHANGED <<handle, size>>
  /\ UNCHANGED <<disk, frames, workers, stream>>

Source == files[handle]

Buffered == {d \in Source.lines : cursor <= d /\ d < seen}

TakeTo(e) == /\ lines' = Append(lines, [start |-> cursor, len |-> e - cursor])
             /\ cursor' = e
             /\ kept' \in {kept, TRUE}

(* Mutant: a line ends with the buffer.                                    *)
TakeLineBuffered ==
  /\ call = "lines" /\ cursor < seen
  /\ TakeTo(IF Buffered = {} THEN seen
            ELSE 1 + CHOOSE d \in Buffered : \A e \in Buffered : d <= e)
  /\ UNCHANGED <<disk, call, handle, size, frames, workers, seen, ends>>

(* A line that is in the buffer; it may be kept or filtered out.           *)
TakeLine ==
  /\ call = "lines" /\ Buffered # {}
  /\ TakeTo(1 + CHOOSE d \in Buffered : \A e \in Buffered : d <= e)
  /\ UNCHANGED <<disk, call, handle, size, frames, workers, seen, ends>>

Fill ==
  /\ call = "lines" /\ Buffered = {}
  /\ \E n \in (seen + 1)..MaxLen : n <= Source.len /\ seen' = n
  /\ UNCHANGED <<disk, call, handle, size, frames, workers, cursor, kept, lines, ends>>

AtEnd == call = "lines" /\ Buffered = {} /\ seen >= Source.len

(* The file ends inside a line: what there is of it is a line.             *)
TakeTorn ==
  /\ AtEnd /\ cursor < seen
  /\ TakeTo(seen)
  /\ ends' = ends \cup {seen}
  /\ UNCHANGED <<disk, call, handle, size, frames, workers, seen>>

(* The batch ends; the scan ends with a batch without rows, and otherwise  *)
(* asks for the next one, which reads on if the file has grown.            *)
EndOfBatch ==
  /\ AtEnd /\ cursor = seen
  /\ kept' = FALSE
  /\ call' = IF kept THEN "lines" ELSE "streamed"
  /\ ends' = ends \cup {seen}
  /\ UNCHANGED <<disk, handle, size, frames, workers, cursor, seen, lines>>

Single == OpenStream \/ TakeLine \/ Fill \/ TakeTorn \/ EndOfBatch

Main == Fresh \/ Probe \/ Cut \/ CutDone \/ Join \/ Single

Next == Writer \/ Main \/ \E w \in Active(N) : Step(w)

Spec == Init /\ [][Next]_vars

(* The threads of the scan run: one that can go on does, in whatever       *)
(* order.  The writer need not.                                            *)
FairSpec == Spec /\ WF_vars(Main \/ \E w \in Active(N) : Step(w))

-----------------------------------------------------------------------------
(* What must hold.                                                         *)

(* The lines of the bytes of `f' from `a' to `b', as pairs of offsets.     *)
LinesIn(f, a, b) ==
  LET cuts == {a, b} \cup {d + 1 : d \in {e \in files[f].lines : a <= e /\ e < b}}
  IN  {c \in cuts \X cuts : c[1] < c[2] /\ \A z \in cuts : ~ (c[1] < z /\ z < c[2])}

(* The writer's side: lines no longer than a frame, or an archive each of  *)
(* whose frames but the last ends with a line.                             *)
LinesFitFrames ==
  LET f == handle IN
    IF files[f].table # <<>>
      THEN \A i \in 1..(N - 1) : EndOf(frames[i]) - 1 \in files[f].lines
      ELSE \A s \in 0..size : s + MaxFrame < size =>
             \E d \in files[f].lines : s <= d /\ d < s + MaxFrame

Parsed == UNION {{pieces[w][i] : i \in DOMAIN pieces[w]} : w \in Worker}

(* A log that is appended to while the workers read it comes back as it    *)
(* was when the frames were cut: exactly its lines of that moment, each    *)
(* once, however short the reads, however far the file has grown under     *)
(* each worker (read_frame's loop, the size told at opening).              *)
SnapshotLines ==
  LET f == handle IN
    call = "framed" /\ ~ shrunk /\ LinesFitFrames /\ (\A w \in Active(N) : fd[w] = f) =>
      UNION {LinesIn(p.file, p.start, p.start + p.len) : p \in Parsed} = LinesIn(f, 0, size)

(* Whatever the writer does between two openings, the rows are made of     *)
(* bytes that some file had, no offset is read twice, and a worker takes   *)
(* all its rows from one file (buf.truncate, one handle per worker).       *)
PiecesReal ==
  /\ \A p \in Parsed : ~ shrunk /\ p.len > 0 => p.start + p.len <= files[p.file].len
  /\ \A p, q \in Parsed : p = q \/ p.start + p.len <= q.start \/ q.start + q.len <= p.start
  /\ \A w \in Worker : \A i \in DOMAIN pieces[w] : pieces[w][i].file = fd[w]

(* The single-threaded path on a growing log: its lines lie one behind the *)
(* other from the first byte, each is a whole line of the file or stops    *)
(* where the file was seen to end, and none that was there when it opened  *)
(* the file is missing when it ends.                                       *)
StreamLines ==
  call \in {"lines", "streamed"} /\ ~ shrunk =>
    /\ \A i \in DOMAIN lines :
         LET l == lines[i] IN
           /\ l.start = IF i = 1 THEN 0 ELSE EndOf(lines[i - 1])
           /\ l.len > 0
           /\ \A d \in Source.lines : ~ (l.start <= d /\ d < EndOf(l) - 1)
           /\ EndOf(l) - 1 \in Source.lines \/ EndOf(l) \in ends
    /\ cursor = IF lines = <<>> THEN 0 ELSE EndOf(lines[Len(lines)])
    /\ call = "streamed" => cursor >= size

(* A scan ends when the writer does, whatever was done to the file.        *)
ScanEnds == <>(call \in {"framed", "streamed", "failed"})
=============================================================================
