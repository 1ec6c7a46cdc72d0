--------------------------- MODULE MCParallelScan ---------------------------
(***************************************************************************)
(* Small texts for TLC.  Keys are "a" and "b"; the texts are all ways of   *)
(* spreading at most so many lines of the chosen kinds over the frames.    *)
(***************************************************************************)
EXTENDS ParallelScan

CONSTANT Cases  \* which scans: names of members of ScansOf

Row(keys, passes) == [kind |-> "row", keys |-> keys, passes |-> passes]
NoRow(kind) == [kind |-> kind, keys |-> <<>>, passes |-> FALSE]

LinesOf(kind) ==
  CASE kind = "uniform"  -> {Row(<<"a", "b">>, TRUE), Row(<<"b", "a">>, FALSE), NoRow("skip")}
    [] kind = "ragged"   -> {Row(<<"a", "b">>, TRUE), Row(<<"a">>, TRUE), Row(<<>>, TRUE)}
    [] kind = "broken"   -> {Row(<<"a">>, TRUE), NoRow("bad")}
    [] kind = "repeated" -> {Row(<<"a", "b">>, TRUE), Row(<<"a", "a">>, TRUE), Row(<<"b", "b">>, TRUE)}

(* The k-th line goes to frame cut[k].                                     *)
Spread(ls, cut, n) ==
  [f \in 1..n |-> LET mine == {k \in DOMAIN ls : cut[k] = f}
                  IN  [i \in 1..Cardinality(mine) |-> ls[Nth(mine, i)]]]

Cuts(k, n) == {c \in [1..k -> 1..n] : \A i, j \in 1..k : i < j => c[i] <= c[j]}

(* Texts of `frames' frames and at most `most' lines of a kind.            *)
TextsOf(kind, frames, most) ==
  UNION {{Spread(ls, cut, n) : ls \in [1..k -> LinesOf(kind)], cut \in Cuts(k, n)} :
           k \in 0..most, n \in frames}

OptionsOf(caps, predicates, columns, aligned) ==
  [n_rows : caps, predicate : predicates, columns : columns, aligned : aligned]

AnyFault == {"probe", "clone", "read"}

(* Chunks of one and of two frames; keys that come and go; what may fail;  *)
(* the two texts the divergences need.                                     *)
ScansOf(c) ==
  CASE c = "uniform" ->
         [text : TextsOf("uniform", {0, 4, 5}, 2), faults : {{}},
          opts : OptionsOf({None, 0, 1}, {None, "a"}, {{}}, {TRUE})]
    [] c = "longer" ->
         [text : TextsOf("uniform", {2, 3}, 3), faults : {{}},
          opts : OptionsOf({None, 2}, {"a"}, {{}, {"b"}}, {TRUE})]
    [] c = "ragged" ->
         [text : TextsOf("ragged", {1, 2, 3}, 3), faults : {{}},
          opts : OptionsOf({None, 2}, {None}, {{}}, {TRUE, FALSE})]
    [] c = "filtered" ->
         [text : TextsOf("ragged", {2}, 4), faults : {{}},
          opts : OptionsOf({None, 2}, {"a"}, {{}}, {TRUE})]
    [] c = "broken" ->
         [text : TextsOf("broken", {2, 3}, 3), faults : {AnyFault},
          opts : OptionsOf({None, 1}, {None}, {{}}, {TRUE})]
    [] c = "zero_column" ->
         [text : TextsOf("ragged", {2}, 2), faults : {{}},
          opts : OptionsOf({None, 2}, {None}, {{}}, {TRUE})]
    [] c = "repeated" ->
         [text : TextsOf("repeated", {1}, 3), faults : {{}},
          opts : OptionsOf({None}, {None}, {{}}, {TRUE})]

MCLines == UNION {LinesOf(k) : k \in {"uniform", "ragged", "broken", "repeated"}}

MCScans == UNION {ScansOf(c) : c \in Cases}
=============================================================================
