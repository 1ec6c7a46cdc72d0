----------------------------- MODULE SchemaTypes ----------------------------
(***************************************************************************)
(* The types a column can have, from the text of a value to the column     *)
(* polars is promised: infer_type, merge_schema_field, the parse with a    *)
(* schema, and the types announced for them.                               *)
(*                                                                         *)
(* The text of a value is known by its class: what the parsers the program *)
(* asks make of it.  Of these only f64 accepts what another accepts too,   *)
(* every "int".  (humantime's bare "0", an "int" here, is left out.)       *)
(***************************************************************************)
EXTENDS Naturals, Sequences, FiniteSets

Classes == {"time", "int", "dur", "float", "bool", "word"}

Types == {"Integer", "Float", "Boolean", "DateTime", "Duration", "String"}

(* What a schema can say of a column; "Unlisted": it does not name it.     *)
Fields == Types \cup {"Auto", "Unlisted"}

Accepted(type) ==
  CASE type = "Integer"  -> {"int"}
    [] type = "Float"    -> {"int", "float"}
    [] type = "Boolean"  -> {"bool"}
    [] type = "DateTime" -> {"time"}
    [] type = "Duration" -> {"dur"}
    [] type = "String"   -> Classes

(* infer_type: the first type that accepts the text.                       *)
Tried == <<"DateTime", "Integer", "Duration", "Float", "Boolean", "String">>

InferType(value) ==
  Tried[CHOOSE i \in DOMAIN Tried :
          /\ value \in Accepted(Tried[i])
          /\ \A j \in 1..(i - 1) : value \notin Accepted(Tried[j])]

(* merge_schema_field.  Mutant: types that disagree leave the type that    *)
(* was there.                                                              *)
MergedFirst(a, b) == IF {a, b} = {"Integer", "Float"} THEN a ELSE "String"

Merged(a, b) == IF a = b THEN a
                ELSE IF {a, b} = {"Integer", "Float"} THEN "Float" ELSE "String"

(* The type b holds every value that a holds.                              *)
Fits(a, b) == a = b \/ <<a, b>> = <<"Integer", "Float">> \/ b = "String"

(* logfmt_schema_to_polars_schema: the column polars is told to expect.    *)
Announced(field) ==
  CASE field = "Integer"  -> "i64"
    [] field = "Duration" -> "i64"
    [] field = "Float"    -> "f64"
    [] field = "Boolean"  -> "bool"
    [] field = "DateTime" -> "datetime"
    [] OTHER              -> "str"

(***************************************************************************)
(* The parse of a value with the field of a schema.  A parsed value is a   *)
(* record: its type, the class of its text, and whether the text was       *)
(* accepted; if not, it is 0, 0.0 or false.  Times and durations that are  *)
(* none stay texts.                                                        *)
(***************************************************************************)
ParsedFreely(value) == [type |-> InferType(value), class |-> value, kept |-> TRUE]

(* Mutant: `auto' leaves it to the value.                                  *)
ParsedAuto(value, field) ==
  IF field \in {"Integer", "Float", "Boolean"}
  THEN [type |-> field, class |-> value, kept |-> value \in Accepted(field)]
  ELSE IF field = "Auto" THEN ParsedFreely(value)
  ELSE [type |-> IF field \in {"DateTime", "Duration"} /\ value \in Accepted(field)
                 THEN field ELSE "String",
        class |-> value, kept |-> TRUE]

Parsed(value, field) ==
  IF field \in {"Integer", "Float", "Boolean"}
  THEN [type |-> field, class |-> value, kept |-> value \in Accepted(field)]
  ELSE [type |-> IF field \in {"DateTime", "Duration"} /\ value \in Accepted(field)
                 THEN field ELSE "String",
        class |-> value, kept |-> TRUE]
=============================================================================
