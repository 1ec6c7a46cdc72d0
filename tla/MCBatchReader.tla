---------------------------- MODULE MCBatchReader ---------------------------
(***************************************************************************)
(* Small texts and the options of a scan, for TLC.                         *)
(***************************************************************************)
EXTENDS BatchReader

CONSTANT Cases  \* what is read: names of members of InputsOf

Row(keys, passes, kept) == [kind |-> "row", keys |-> keys, passes |-> passes, kept |-> kept]
NoRow(kind) == [kind |-> kind, keys |-> {}, passes |-> FALSE, kept |-> FALSE]

RaggedLines == {Row({"a"}, TRUE, TRUE), Row({"a"}, FALSE, TRUE), Row({"a"}, TRUE, FALSE),
                Row({"b"}, TRUE, TRUE), Row({"a", "b"}, TRUE, TRUE),
                Row({}, TRUE, TRUE), NoRow("skip")}

BrokenLines == {Row({"a"}, TRUE, TRUE), Row({"a"}, TRUE, FALSE),
                Row({}, TRUE, TRUE), NoRow("bad")}

MCLines == RaggedLines \cup BrokenLines

TextsOf(ls, most) == UNION {[1..n -> ls] : n \in 0..most}

(* A slice takes the place of the batch size, and a probe stream is not    *)
(* seekable.                                                               *)
Possible(all) == {o \in all : /\ o.n_rows # None => o.batch_size = None
                              /\ o.probe => ~ o.parallel}

(* scan(), which knows the schema; a program that pulls, with faults; the  *)
(* texts the divergence needs.                                             *)
InputsOf(c) ==
  CASE c = "scan" ->
         [text : TextsOf(RaggedLines, 3), faults : {{}},
          opts : Possible([caller : {"scan"}, n_rows : {None, 0, 1, 2},
                           batch_size : {None, 0, 1, 2}, predicate : {None, "a"},
                           fill_passes : {FALSE}, columns : {{}, {"b"}},
                           aligned : BOOLEAN, parallel : BOOLEAN, schema : {TRUE},
                           probe : BOOLEAN])]
    [] c = "pull" ->
         [text : TextsOf(BrokenLines, 3), faults : {{"open", "probe", "read"}},
          opts : Possible([caller : {"pull"}, n_rows : {None, 0, 1, 2},
                           batch_size : {None, 1, 2}, predicate : {None, "a"},
                           fill_passes : {TRUE}, columns : {{}},
                           aligned : {TRUE}, parallel : BOOLEAN, schema : BOOLEAN,
                           probe : {FALSE}])]
    [] c = "filled" ->
         [text : TextsOf(RaggedLines, 2), faults : {{}},
          opts : Possible([caller : {"scan"}, n_rows : {None}, batch_size : {None},
                           predicate : {None}, fill_passes : {TRUE}, columns : {{}},
                           aligned : {TRUE}, parallel : {FALSE}, schema : {TRUE},
                           probe : {FALSE}])]

MCInputs == UNION {InputsOf(c) : c \in Cases}
=============================================================================
