----------------------------- MODULE LogfmtLine -----------------------------
(***************************************************************************)
(* The pairs of one logfmt line                                            *)
(* (handle_parse_logfmt_line_with_schema_base, which every other parse of  *)
(* a line goes through).  The parser walks the bytes of the line and cuts  *)
(* slices out of it, the values without checking that they are UTF-8.      *)
(*                                                                         *)
(* Of a byte only its class matters: ASCII whitespace, '=', '"', '\',      *)
(* another ASCII byte, or the lead or a continuation byte of a longer      *)
(* character.  Offsets count from 0, a slice is a record [from, to] of its *)
(* first byte and the byte behind its last.                                *)
(***************************************************************************)
EXTENDS Naturals, Sequences

CONSTANT Lines   \* the lines to parse, sequences of Bytes

Bytes == {"ws", "eq", "quote", "bsl", "char", "lead", "cont"}

(* A line is a str.                                                        *)
IsUtf8(s) ==
  \A k \in 1..Len(s) :
    /\ s[k] = "cont" => k > 1 /\ s[k - 1] \in {"lead", "cont"}
    /\ s[k] = "lead" => k < Len(s) /\ s[k + 1] = "cont"

ASSUME LineAssumption == \A s \in Lines : s \in Seq(Bytes) /\ IsUtf8(s)

VARIABLES
  line,
  pc,      \* "token", "key", "eq", "quoted", "close", "bare" or "done"
  i,       \* the offset the parser is at
  key,     \* the slice of the key in work
  value,   \* the slice of the value in work
  pairs    \* the slices handed to the callback: records [key, value]

vars == <<line, pc, i, key, value, pairs>>

n == Len(line)
At(k) == line[k + 1]

Slice == [from : Nat, to : Nat]

-----------------------------------------------------------------------------
(* From `from' on, `to' is the first offset with a byte of the classes     *)
(* `stop', or the end of the line.                                         *)
Reaches(from, to, stop) ==
  /\ to < n => At(to) \in stop
  /\ \A k \in from..(to - 1) : At(k) \notin stop

NoSpace == Bytes \ {"ws"}

Done ==
  /\ pc = "token" /\ i >= n
  /\ pc' = "done"
  /\ UNCHANGED <<line, i, key, value, pairs>>

SkipSpace ==
  /\ pc = "token" /\ i < n
  /\ \E k \in i..n : Reaches(i, k, NoSpace) /\ i' = k
  /\ pc' = IF i' = n THEN "done" ELSE "key"
  /\ UNCHANGED <<line, key, value, pairs>>

(* A key runs to a '=' or to whitespace.  (That it is UTF-8 is checked     *)
(* there, and follows from SlicesSound.)  Mutant: to whitespace only.      *)
TakeKeyToSpace ==
  /\ pc = "key" /\ At(i) # "eq"
  /\ \E k \in i..n : Reaches(i, k, {"ws"}) /\ i' = k
  /\ key' = [from |-> i, to |-> i']
  /\ pc' = "eq"
  /\ UNCHANGED <<line, value, pairs>>

TakeKey ==
  /\ pc = "key" /\ At(i) # "eq"
  /\ \E k \in i..n : Reaches(i, k, {"eq", "ws"}) /\ i' = k
  /\ key' = [from |-> i, to |-> i']
  /\ pc' = "eq"
  /\ UNCHANGED <<line, value, pairs>>

(* A word that starts with '=' has no key, and is skipped.                 *)
SkipKeyless ==
  /\ pc = "key" /\ At(i) = "eq"
  /\ \E k \in i..n : Reaches(i, k, {"ws"}) /\ i' = k
  /\ pc' = "token"
  /\ UNCHANGED <<line, key, value, pairs>>

(* The '=' may be behind whitespace.  If another word is, that word is     *)
(* skipped: the key was none.                                              *)
SkipMalformed ==
  /\ pc = "eq"
  /\ \E k \in i..n : /\ Reaches(i, k, NoSpace)
                     /\ k < n => At(k) # "eq"
                     /\ \E e \in k..n : Reaches(k, e, {"ws"}) /\ i' = e
  /\ pc' = "token"
  /\ UNCHANGED <<line, key, value, pairs>>

(* At the end of the line there is no value, and the pair is dropped.      *)
FindEquals ==
  /\ pc = "eq"
  /\ \E k \in i..(n - 1) :
       /\ Reaches(i, k, NoSpace) /\ At(k) = "eq"
       /\ IF k + 1 = n
          THEN pc' = "token" /\ i' = k + 1 /\ UNCHANGED value
          ELSE IF At(k + 1) = "quote"
          THEN pc' = "quoted" /\ i' = k + 2 /\ value' = [from |-> k + 2, to |-> k + 2]
          ELSE pc' = "bare" /\ i' = k + 1 /\ UNCHANGED value
  /\ UNCHANGED <<line, key, pairs>>

Emit(slice) == pairs' = Append(pairs, [key |-> key, value |-> slice])

BareValue ==
  /\ pc = "bare"
  /\ \E k \in i..n : Reaches(i, k, {"ws"}) /\ i' = k
  /\ Emit([from |-> i, to |-> i'])
  /\ pc' = "token"
  /\ UNCHANGED <<line, key, value>>

-----------------------------------------------------------------------------
(* A quoted value, byte by byte.                                           *)

(* A backslash and the byte behind it stay in the value; i may move one    *)
(* byte over the end of the line, or into a character.  Mutant: the byte   *)
(* behind it is looked at.                                                 *)
EscapeOne ==
  /\ pc = "quoted" /\ i < n /\ At(i) = "bsl"
  /\ i' = i + 1
  /\ UNCHANGED <<line, pc, key, value, pairs>>

Escape ==
  /\ pc = "quoted" /\ i < n /\ At(i) = "bsl"
  /\ i' = i + 2
  /\ UNCHANGED <<line, pc, key, value, pairs>>

QuotedByte ==
  /\ pc = "quoted" /\ i < n /\ At(i) \notin {"bsl", "quote"}
  /\ i' = i + 1
  /\ UNCHANGED <<line, pc, key, value, pairs>>

CloseQuote ==
  /\ pc = "quoted" /\ i < n /\ At(i) = "quote"
  /\ value' = [value EXCEPT !.to = i]
  /\ i' = i + 1
  /\ pc' = "close"
  /\ UNCHANGED <<line, key, pairs>>

(* The end of the line closes the value.  Mutant: only when i is not over. *)
OpenQuoteAtEnd ==
  /\ pc = "quoted" /\ i = n
  /\ pc' = "close"
  /\ UNCHANGED <<line, i, key, value, pairs>>

OpenQuote ==
  /\ pc = "quoted" /\ i >= n
  /\ pc' = "close"
  /\ UNCHANGED <<line, i, key, value, pairs>>

(* No byte between the quotes is taken for a quote that is not closed.     *)
(* Mutant: i is taken for an offset of the line.                           *)
LeastOf(a, b) == IF a <= b THEN a ELSE b

QuotedValueOver ==
  IF value.to = value.from THEN [value EXCEPT !.to = i] ELSE value

QuotedValue ==
  IF value.to = value.from THEN [value EXCEPT !.to = LeastOf(i, n)] ELSE value

TakeQuoted ==
  /\ pc = "close"
  /\ Emit(QuotedValue)
  /\ pc' = "token"
  /\ UNCHANGED <<line, i, key, value>>

-----------------------------------------------------------------------------
Init ==
  /\ line \in Lines
  /\ pc = "token" /\ i = 0
  /\ key = [from |-> 0, to |-> 0] /\ value = [from |-> 0, to |-> 0]
  /\ pairs = <<>>

Next == \/ Done \/ SkipSpace \/ TakeKey \/ SkipKeyless \/ SkipMalformed \/ FindEquals
        \/ BareValue \/ Escape \/ QuotedByte \/ CloseQuote \/ OpenQuote \/ TakeQuoted

Spec == Init /\ [][Next]_vars

(* One thread parses the line.                                             *)
FairSpec == Spec /\ WF_vars(Next)

-----------------------------------------------------------------------------
(* What must hold.                                                         *)

TypeOK ==
  /\ line \in Seq(Bytes) /\ IsUtf8(line)
  /\ pc \in {"token", "key", "eq", "quoted", "close", "bare", "done"}
  /\ i \in Nat
  /\ key \in Slice /\ value \in Slice
  /\ pairs \in Seq([key : Slice, value : Slice])

(* Between characters, not inside one.                                     *)
Boundary(k) == k <= n /\ (k < n => At(k) # "cont")

(* No slice runs over the end of the line or cuts a character, although    *)
(* escapes move over both (a slice out of bounds panics, and the values    *)
(* are taken for UTF-8 unchecked); keys are not empty; and pairs leave in  *)
(* the order of the line and do not overlap.                               *)
Sound(s) == s.from <= s.to /\ Boundary(s.from) /\ Boundary(s.to)

SlicesSound ==
  \A k \in 1..Len(pairs) :
    /\ Sound(pairs[k].key) /\ pairs[k].key.from < pairs[k].key.to
    /\ Sound(pairs[k].value) /\ pairs[k].key.to < pairs[k].value.from
    /\ k > 1 => pairs[k - 1].value.to <= pairs[k].key.from

(* The invariant it rests on: outside of quotes the parser stands between  *)
(* two characters, behind everything it has emitted; a value in work       *)
(* starts between two characters, and ends at a quote once it has an end.  *)
Emitted(k) == pairs # <<>> => pairs[Len(pairs)].value.to <= k

Between ==
  /\ pc = "token" => (i >= n \/ Boundary(i)) /\ Emitted(LeastOf(i, n))
  /\ pc \in {"key", "eq", "bare"} => i <= n
  /\ pc = "key" => i < n /\ Boundary(i) /\ At(i) # "ws" /\ Emitted(i)
  /\ pc = "bare" => Boundary(i) /\ key.to < i
  /\ pc = "eq" => key.to <= i
  /\ pc \in {"eq", "bare", "quoted", "close"} =>
       Sound(key) /\ key.from < key.to /\ Emitted(key.from)
  /\ pc \in {"quoted", "close"} =>
       /\ key.to < value.from /\ value.from <= i /\ i <= n + 1
       /\ Boundary(value.from)
  /\ pc = "quoted" => value.to = value.from
  /\ pc = "close" => \/ i >= n /\ value.to = value.from
                     \/ /\ value.from <= value.to /\ value.to = i - 1
                        /\ i <= n /\ At(value.to) = "quote"

IInv == TypeOK /\ SlicesSound /\ Between

(* A line of words that each have a key, a '=' and no quote or backslash   *)
(* parses to those words, each split at its first '='.                     *)
Words ==
  {w \in [from : 0..n, to : 0..n] :
     /\ w.from < w.to
     /\ \A k \in w.from..(w.to - 1) : At(k) # "ws"
     /\ w.from = 0 \/ At(w.from - 1) = "ws"
     /\ w.to = n \/ At(w.to) = "ws"}

SplitAt(w, e) == /\ w.from < e /\ e < w.to /\ e + 1 < n
                 /\ At(e) = "eq" /\ \A k \in w.from..(e - 1) : At(k) # "eq"

Plain == /\ \A k \in 0..(n - 1) : At(k) \notin {"quote", "bsl"}
         /\ \A w \in Words : \E e \in 0..n : SplitAt(w, e)

PlainLineExact ==
  pc = "done" /\ Plain =>
    {pairs[k] : k \in 1..Len(pairs)} =
      {[key |-> [from |-> s[1].from, to |-> s[2]],
        value |-> [from |-> s[2] + 1, to |-> s[1].to]] :
         s \in {p \in Words \X (0..n) : SplitAt(p[1], p[2])}}

(* A value that begins with a quote ends before the first quote behind it  *)
(* that is not escaped, a quote being escaped by an odd number of          *)
(* backslashes before it; without such a quote it ends with the line.  A   *)
(* value of no bytes is left out: its closing quote is taken for it.       *)
EscapedIn(from, k) ==
  \E b \in from..(k - 1) :
    /\ \A j \in b..(k - 1) : At(j) = "bsl"
    /\ b = from \/ At(b - 1) # "bsl"
    /\ (k - b) % 2 = 1

Closes(from, k) == At(k) = "quote" /\ ~ EscapedIn(from, k)

QuoteCloses ==
  \A p \in 1..Len(pairs) :
    LET v == pairs[p].value
        quoted == At(v.from - 1) = "quote" /\ (v.from < n => ~ Closes(v.from, v.from))
    IN  quoted => /\ v.to = n \/ Closes(v.from, v.to)
                  /\ \A k \in v.from..(v.to - 1) : ~ Closes(v.from, k)

(* The parser comes to the end of every line.                              *)
Terminates == <>(pc = "done")
=============================================================================
