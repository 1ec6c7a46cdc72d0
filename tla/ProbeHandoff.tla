---------------------------- MODULE ProbeHandoff ----------------------------
(***************************************************************************)
(* The probe that infers a schema, and what becomes of its stream.  A      *)
(* reader is shared by everyone who uses it: a program that pulls batches  *)
(* (next_batch), scan_logfmt, which infers the schema once and leaves the  *)
(* probe stream in the reader state, and the collects of the frame it      *)
(* makes (AnonymousScan::scan), any number of them at once, each of which  *)
(* takes the stream that is there or opens one of its own.                 *)
(*                                                                         *)
(* A line is a record: `kind' is "row", "skip" (blank or refused by the    *)
(* line filter) or "bad" (not UTF-8), `types' the types of its values by   *)
(* key.  Lines are numbered from 1.  A stream is a record: its identity,   *)
(* the lines put back in front of it (Cursor(consumed)), and how many      *)
(* lines its connection or handle has yielded.                             *)
(***************************************************************************)
EXTENDS SchemaTypes

CONSTANTS
  None,
  Texts,        \* sequences of lines
  Sources,      \* any of "ssh" (one stream per connection) and "handles"
  Given,        \* whether a schema is given: any of TRUE and FALSE
  Lengths,      \* infer_schema_length
  Collects,     \* the collects
  MaxPulls,     \* bound: batches pulled
  MaxBatch,     \* bound: lines of a batch
  Faults        \* what may go wrong: any of "open", "read"

NoSchema == [k \in {} |-> "String"]

Stream == [id : Nat, replay : Seq(Nat), at : Nat]

ASSUME ProbeAssumption ==
  /\ Sources \subseteq {"ssh", "handles"} /\ Given \subseteq BOOLEAN
  /\ Lengths \subseteq Nat /\ MaxPulls \in Nat /\ MaxBatch \in Nat
  /\ \A t \in Texts :
       /\ Len(t) \in Nat
       /\ \A k \in 1..Len(t) : t[k].types \in [DOMAIN t[k].types -> Types]
  /\ IsFiniteSet(Collects)
  /\ None \notin Stream /\ None # NoSchema

VARIABLES
  text, source, length,
  built,    \* "reader", "frame" (scan_logfmt has made one) or "failed"
  schema,   \* the schema of the reader, or None; a given one is NoSchema
  stash,    \* the stream in its reader state, or None
  opened,   \* the streams opened so far
  pulls,    \* batches pulled so far
  pc,       \* per collect: "idle", "taken", "cloned", "reading", "done" or "failed"
  stream,   \* per collect, its stream, or None
  got,      \* per collect, the lines it has read
  \* history
  behind,   \* per collect, the lines pulled from its stream before it took it
  byPulls    \* the streams opened by pulls

inputs == <<text, source, length>>
vars == <<inputs, built, schema, stash, opened, pulls, pc, stream, got, behind, byPulls>>

Fresh(id) == [id |-> id, replay |-> <<>>, at |-> 0]

-----------------------------------------------------------------------------
(* infer_schema_from_reader: the first `length' rows decide.               *)

Rows(n) == {k \in 1..n : text[k].kind = "row"}

(* The lines it reads: those before which it has not rows enough.          *)
Probed == Cardinality({k \in 1..Len(text) : Cardinality(Rows(k - 1)) < length})

MergedRow(s, row) ==
  [k \in DOMAIN s \cup DOMAIN row |->
     IF k \notin DOMAIN s THEN row[k]
     ELSE IF k \notin DOMAIN row THEN s[k] ELSE Merged(s[k], row[k])]

(* What the first lines of a text make of the schema.                      *)
SchemaAfter(lines) ==
  LET after[n \in 0..Len(lines)] ==
        IF n = 0 THEN NoSchema
        ELSE IF lines[n].kind = "row" THEN MergedRow(after[n - 1], lines[n].types)
        ELSE after[n - 1]
  IN  after

Inferred == IF Rows(Probed) = {} THEN None ELSE SchemaAfter(text)[Probed]

(* A line that is not UTF-8 fails the probe, as a read does.               *)
ProbeFails == "read" \in Faults \/ \E k \in 1..Probed : text[k].kind = "bad"
ProbeWorks == \A k \in 1..Probed : text[k].kind # "bad"

(* The probe stream, rewound: what was consumed comes first, then the rest *)
(* of the stream.  Only a command's stream is kept.  Mutant: the line that *)
(* ends the probe is not put back.                                         *)
RewoundShort(id) ==
  IF source = "ssh"
  THEN [id |-> id, replay |-> [k \in 1..(Probed - 1) |-> k], at |-> Probed] ELSE None

Rewound(id) ==
  IF source = "ssh"
  THEN [id |-> id, replay |-> [k \in 1..Probed |-> k], at |-> Probed] ELSE None

-----------------------------------------------------------------------------
(* scan_logfmt.  It takes the reader, so nobody else has it.               *)

Alone == \A c \in Collects : pc[c] \in {"idle", "done", "failed"}

Frame ==
  /\ built = "reader" /\ Alone
  /\ schema # None
  /\ built' = "frame"
  /\ UNCHANGED <<inputs, schema, stash, opened, pulls, pc, stream, got, behind, byPulls>>

(* The probe takes the place of a stream that was there.                   *)
InferAndFrame ==
  /\ built = "reader" /\ Alone
  /\ schema = None /\ ProbeWorks /\ Inferred # None
  /\ opened' = opened + 1
  /\ schema' = Inferred
  /\ stash' = Rewound(opened')
  /\ built' = "frame"
  /\ UNCHANGED <<inputs, pulls, pc, stream, got, behind, byPulls>>

FrameFails ==
  /\ built = "reader" /\ Alone
  /\ schema = None
  /\ \/ "open" \in Faults /\ opened' = opened
     \/ (ProbeFails \/ Inferred = None) /\ opened' = opened + 1
  /\ built' = "failed"
  /\ UNCHANGED <<inputs, schema, stash, pulls, pc, stream, got, behind, byPulls>>

-----------------------------------------------------------------------------
(* next_batch, on a reader that no frame has been made of.  It holds the   *)
(* lock of the state from its first step to its last; lines it consumed    *)
(* are gone also when it fails.                                            *)

Pull ==
  /\ built = "reader" /\ pulls < MaxPulls
  /\ LET s == IF stash = None THEN Fresh(opened + 1) ELSE stash IN
       \E n \in 0..MaxBatch :
         /\ s.at + n <= Len(text)
         /\ stash' = [s EXCEPT !.at = @ + n]
  /\ opened' = IF stash = None THEN opened + 1 ELSE opened
  /\ byPulls' = IF stash = None THEN byPulls + 1 ELSE byPulls
  /\ pulls' = pulls + 1
  /\ UNCHANGED <<inputs, built, schema, pc, stream, got, behind>>

-----------------------------------------------------------------------------
(* scan().                                                                 *)

Goes(c, from, to) == pc[c] = from /\ pc' = [pc EXCEPT ![c] = to]

(* The stream is taken under the lock.  Mutant: a second collect finds it. *)
TakeLeaves(c) ==
  /\ built # "failed"
  /\ Goes(c, "idle", "taken")
  /\ stream' = [stream EXCEPT ![c] = stash]
  /\ behind' = [behind EXCEPT ![c] = IF stash = None \/ stash.replay # <<>> THEN 0 ELSE stash.at]
  /\ UNCHANGED <<inputs, built, schema, stash, opened, pulls, got, byPulls>>

Take(c) ==
  /\ built # "failed"
  /\ Goes(c, "idle", "taken")
  /\ stream' = [stream EXCEPT ![c] = stash]
  /\ stash' = None
  /\ behind' = [behind EXCEPT ![c] = IF stash = None \/ stash.replay # <<>> THEN 0 ELSE stash.at]
  /\ UNCHANGED <<inputs, built, schema, opened, pulls, got, byPulls>>

(* Mutant: the stream that was taken is not handed to the clone.           *)
CloneOnly(c) ==
  /\ schema # None
  /\ Goes(c, "taken", "cloned")
  /\ stream' = [stream EXCEPT ![c] = None]
  /\ UNCHANGED <<inputs, built, schema, stash, opened, pulls, got, behind, byPulls>>

Clone(c) ==
  /\ schema # None
  /\ Goes(c, "taken", "cloned")
  /\ UNCHANGED <<inputs, built, schema, stash, opened, pulls, stream, got, behind, byPulls>>

(* A reader without a schema: the scan infers one for itself, and its      *)
(* probe stream takes the place of what it had taken.                      *)
InferAndClone(c) ==
  /\ schema = None /\ ProbeWorks /\ Inferred # None
  /\ Goes(c, "taken", "cloned")
  /\ opened' = opened + 1
  /\ stream' = [stream EXCEPT ![c] = Rewound(opened')]
  /\ behind' = [behind EXCEPT ![c] = 0]
  /\ UNCHANGED <<inputs, built, schema, stash, pulls, got, byPulls>>

InferFails(c) ==
  /\ schema = None
  /\ Goes(c, "taken", "failed")
  /\ \/ "open" \in Faults /\ opened' = opened
     \/ (ProbeFails \/ Inferred = None) /\ opened' = opened + 1
  /\ stream' = [stream EXCEPT ![c] = None]
  /\ UNCHANGED <<inputs, built, schema, stash, pulls, got, behind, byPulls>>

(* A handle that cannot be cloned fails the scan.                          *)
CloneFails(c) ==
  /\ source = "handles" /\ "open" \in Faults
  /\ Goes(c, "taken", "failed")
  /\ UNCHANGED <<inputs, built, schema, stash, opened, pulls, stream, got, behind, byPulls>>

(* The first batch of the clone opens a stream if none was handed on.      *)
Open(c) ==
  /\ Goes(c, "cloned", "reading")
  /\ IF stream[c] = None
     THEN /\ opened' = opened + 1
          /\ stream' = [stream EXCEPT ![c] = Fresh(opened')]
     ELSE UNCHANGED <<opened, stream>>
  /\ UNCHANGED <<inputs, built, schema, stash, pulls, got, behind, byPulls>>

OpenFails(c) ==
  /\ stream[c] = None /\ "open" \in Faults
  /\ Goes(c, "cloned", "failed")
  /\ UNCHANGED <<inputs, built, schema, stash, opened, pulls, stream, got, behind, byPulls>>

NextLine(s) == IF s.replay # <<>> THEN Head(s.replay) ELSE s.at + 1
Advanced(s) == IF s.replay # <<>> THEN [s EXCEPT !.replay = Tail(@)]
               ELSE [s EXCEPT !.at = @ + 1]

ReadLine(c) ==
  /\ pc[c] = "reading" /\ NextLine(stream[c]) <= Len(text)
  /\ text[NextLine(stream[c])].kind # "bad"
  /\ got' = [got EXCEPT ![c] = Append(@, NextLine(stream[c]))]
  /\ stream' = [stream EXCEPT ![c] = Advanced(@)]
  /\ UNCHANGED <<inputs, built, schema, stash, opened, pulls, pc, behind, byPulls>>

ReadFails(c) ==
  /\ pc[c] = "reading" /\ NextLine(stream[c]) <= Len(text)
  /\ "read" \in Faults \/ text[NextLine(stream[c])].kind = "bad"
  /\ pc' = [pc EXCEPT ![c] = "failed"]
  /\ UNCHANGED <<inputs, built, schema, stash, opened, pulls, stream, got, behind, byPulls>>

Finish(c) ==
  /\ pc[c] = "reading" /\ NextLine(stream[c]) > Len(text)
  /\ pc' = [pc EXCEPT ![c] = "done"]
  /\ UNCHANGED <<inputs, built, schema, stash, opened, pulls, stream, got, behind, byPulls>>

-----------------------------------------------------------------------------
Init ==
  /\ text \in Texts /\ source \in Sources /\ length \in Lengths
  /\ built = "reader"
  /\ \E g \in Given : schema = IF g THEN NoSchema ELSE None
  /\ stash = None /\ opened = 0 /\ pulls = 0
  /\ pc = [c \in Collects |-> "idle"]
  /\ stream = [c \in Collects |-> None]
  /\ got = [c \in Collects |-> <<>>]
  /\ behind = [c \in Collects |-> 0]
  /\ byPulls = 0

Scan(c) == \/ Take(c) \/ Clone(c) \/ InferAndClone(c) \/ InferFails(c) \/ CloneFails(c)
           \/ Open(c) \/ OpenFails(c) \/ ReadLine(c) \/ ReadFails(c) \/ Finish(c)

Next == Frame \/ InferAndFrame \/ FrameFails \/ Pull \/ \E c \in Collects : Scan(c)

Spec == Init /\ [][Next]_vars

-----------------------------------------------------------------------------
(* What must hold.                                                         *)

TypeOK ==
  /\ Len(text) \in Nat
  /\ built \in {"reader", "frame", "failed"}
  /\ opened \in Nat /\ byPulls \in Nat /\ pulls \in Nat
  /\ pc \in [Collects -> {"idle", "taken", "cloned", "reading", "done", "failed"}]
  /\ got \in [Collects -> Seq(Nat)] /\ behind \in [Collects -> Nat]
  /\ stash \in Stream \cup {None} /\ stream \in [Collects -> Stream \cup {None}]

(* Whoever else collects at the same time, and whatever failed before, a   *)
(* collect reads the whole text once and in order: the probe stream from   *)
(* its first line, or a stream of its own.  Only if the reader was given a *)
(* schema and batches were pulled from it does a collect go on with the    *)
(* stream they left, behind what they took.                                *)
CollectsWhole ==
  \A c \in Collects : pc[c] = "done" =>
    /\ got[c] = [k \in 1..(Len(text) - behind[c]) |-> behind[c] + k]
    /\ behind[c] > 0 => schema = NoSchema /\ pulls > 0

(* No stream has two readers: the probe stream feeds one collect.          *)
OneReader ==
  LET held == {c \in Collects : stream[c] # None}
  IN  /\ \A c, d \in held : c # d => stream[c].id # stream[d].id
      /\ \A c \in held : stash # None => stream[c].id # stash.id

(* A command source is run once for each collect, and no more than once    *)
(* before the first: no probe runs it again for a collect that could have  *)
(* gone on with the probe's connection.                                    *)
OneConnectionEach ==
  source = "ssh" =>
    LET begun == Cardinality({c \in Collects : pc[c] # "idle"})
        kept  == IF stash # None \/ built = "failed" THEN 1 ELSE 0
    IN  opened <= byPulls + begun + kept

(* The schema does not depend on the order of the rows probed: a column    *)
(* for each key among them, of the narrowest type that holds all of its    *)
(* values.                                                                 *)
TypesOf(k) == {text[r].types[k] : r \in {r \in Rows(Probed) : k \in DOMAIN text[r].types}}

SchemaNarrowest ==
  schema \notin {None, NoSchema} =>
    /\ DOMAIN schema = UNION {DOMAIN text[r].types : r \in Rows(Probed)}
    /\ \A k \in DOMAIN schema :
         /\ \A t \in TypesOf(k) : Fits(t, schema[k])
         /\ \A u \in Types : (\A t \in TypesOf(k) : Fits(t, u)) => Fits(schema[k], u)

(* Why: the schema is a given one or what the probe makes of the text.     *)
SchemaKnown == text \in Texts /\ schema \in {None, NoSchema, Inferred}
=============================================================================
