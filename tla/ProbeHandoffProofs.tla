-------------------------- MODULE ProbeHandoffProofs --------------------------
(***************************************************************************)
(* What the hand-off of the probe's stream guarantees for every text and   *)
(* any number of collects, and why the schema does not depend on the order *)
(* of the rows that were probed.                                           *)
(***************************************************************************)
EXTENDS ProbeHandoff, TLAPS, FiniteSetTheorems

-----------------------------------------------------------------------------
(* The inductive invariant.                                                *)

(* What is kept for the first collect: a stream that pulls have left       *)
(* stands behind what they took, a probe's stream has all of it in front.  *)
StashWhole ==
  stash # None =>
    /\ stash.at <= Len(text)
    /\ stash.replay # <<>> =>
         built # "reader" /\ Len(stash.replay) = stash.at
         /\ \A k \in 1..Len(stash.replay) : stash.replay[k] = k
    /\ stash.replay = <<>> /\ stash.at > 0 => pulls > 0 /\ schema \in {None, NoSchema}

(* What a collect has got, and what its stream still puts in front, lie    *)
(* one behind the other.                                                   *)
StreamFits(c) ==
  stream[c] # None =>
    /\ stream[c].at = behind[c] + Len(got[c]) + Len(stream[c].replay)
    /\ stream[c].at <= Len(text)
    /\ \A k \in 1..Len(stream[c].replay) :
         stream[c].replay[k] = behind[c] + Len(got[c]) + k

GotInOrder(c) ==
  /\ \A k \in 1..Len(got[c]) : got[c][k] = behind[c] + k
  /\ pc[c] \in {"idle", "taken", "cloned"} => got[c] = <<>>
  /\ pc[c] \in {"taken", "cloned"} /\ stream[c] = None => behind[c] = 0
  /\ pc[c] = "idle" => behind[c] = 0
  /\ pc[c] = "reading" => stream[c] # None
  /\ pc[c] = "done" => Len(got[c]) = Len(text) - behind[c]

SchemaGiven == built = "reader" => schema \in {None, NoSchema}

(* A collect that starts behind the first line does so behind pulls.       *)
BehindPulls(c) ==
  behind[c] > 0 =>
    /\ pulls > 0
    /\ pc[c] = "taken" => schema \in {None, NoSchema}
    /\ pc[c] \in {"cloned", "reading", "done"} => schema = NoSchema

IdsOpened ==
  /\ stash # None => stash.id <= opened
  /\ \A c \in Collects : stream[c] # None => stream[c].id <= opened

(* The collects that have had a command run for them.                      *)
Charged ==
  {c \in Collects : /\ pc[c] # "idle"
                    /\ ~ (pc[c] = "taken" /\ schema = None)
                    /\ ~ (pc[c] \in {"taken", "cloned"} /\ stream[c] = None)}

Kept == IF built = "failed" \/ (stash # None /\ schema # None) THEN 1 ELSE 0

Connections == source = "ssh" => opened <= byPulls + Cardinality(Charged) + Kept

IInv == /\ TypeOK /\ SchemaGiven /\ StashWhole /\ IdsOpened /\ OneReader
        /\ \A c \in Collects : StreamFits(c) /\ GotInOrder(c) /\ BehindPulls(c)
        /\ Connections

-----------------------------------------------------------------------------
(* The probe reads lines of the text.                                      *)
LEMMA ProbedLines ==
  ASSUME Len(text) \in Nat
  PROVE  Probed \in 0..Len(text)
<1> DEFINE S == {k \in 1..Len(text) : Cardinality(Rows(k - 1)) < length}
<1>1. IsFiniteSet(1..Len(text)) /\ Cardinality(1..Len(text)) = Len(text)
  BY FS_Interval
<1>2. S \in SUBSET (1..Len(text))  OBVIOUS
<1>3. IsFiniteSet(S) /\ Cardinality(S) <= Len(text)  BY <1>1, <1>2, FS_Subset
<1>4. Cardinality(S) \in Nat  BY <1>3, FS_CardinalityType
<1> QED  BY <1>3, <1>4 DEF Probed

LEMMA RewoundStream ==
  ASSUME Len(text) \in Nat, NEW id \in Nat
  PROVE  LET r == Rewound(id) IN
           /\ r \in Stream \cup {None}
           /\ r # None => /\ r.id = id /\ r.at <= Len(text)
                          /\ Len(r.replay) = r.at
                          /\ \A k \in 1..Len(r.replay) : r.replay[k] = k
           /\ source = "ssh" => r # None
<1>1. Probed \in 0..Len(text)  BY ProbedLines
<1> DEFINE f == [k \in 1..Probed |-> k]
<1>2. f \in Seq(Nat) /\ Len(f) = Probed  BY <1>1
<1>3. [id |-> id, replay |-> f, at |-> Probed] \in Stream  BY <1>1, <1>2 DEF Stream
<1> QED  BY <1>1, <1>2, <1>3, ProbeAssumption DEF Rewound

LEMMA FreshStream ==
  ASSUME NEW id \in Nat
  PROVE  /\ Fresh(id) \in Stream /\ Fresh(id) # None
         /\ Fresh(id).id = id /\ Fresh(id).at = 0 /\ Fresh(id).replay = <<>>
<1>1. Fresh(id) \in Stream  BY DEF Fresh, Stream
<1> QED  BY <1>1, ProbeAssumption DEF Fresh

LEMMA ChargedFinite ==
  /\ IsFiniteSet(Charged) /\ Cardinality(Charged) \in Nat
  /\ \A c \in Collects : IsFiniteSet(Charged \cup {c})
       /\ Cardinality(Charged \cup {c}) = IF c \in Charged THEN Cardinality(Charged)
                                          ELSE Cardinality(Charged) + 1
<1>1. Charged \in SUBSET Collects  BY DEF Charged
<1>2. IsFiniteSet(Charged)  BY <1>1, ProbeAssumption, FS_Subset
<1> QED  BY <1>2, FS_CardinalityType, FS_AddElement

LEMMA InitInv == Init => IInv
<1> SUFFICES ASSUME Init PROVE IInv  OBVIOUS
<1>1. TypeOK  BY ProbeAssumption DEF Init, TypeOK
<1>2. SchemaGiven /\ StashWhole /\ IdsOpened /\ OneReader
  BY DEF Init, SchemaGiven, StashWhole, IdsOpened, OneReader
<1>3. \A c \in Collects : StreamFits(c) /\ GotInOrder(c) /\ BehindPulls(c)
  BY DEF Init, StreamFits, GotInOrder, BehindPulls
<1>4. Charged = {} /\ Kept = 0  BY DEF Init, Charged, Kept
<1>5. Connections  BY <1>4, FS_EmptySet DEF Init, Connections
<1> QED  BY <1>1, <1>2, <1>3, <1>5 DEF IInv

-----------------------------------------------------------------------------
(* scan_logfmt and next_batch.                                             *)
LEMMA FrameInv == ASSUME IInv, Frame PROVE IInv'
<1> USE DEF Frame, inputs
<1>1. TypeOK'  BY DEF IInv, TypeOK
<1>2. SchemaGiven' /\ StashWhole' /\ IdsOpened' /\ OneReader'
  BY DEF IInv, TypeOK, SchemaGiven, StashWhole, IdsOpened, OneReader
<1>3. \A c \in Collects : StreamFits(c)' /\ GotInOrder(c)' /\ BehindPulls(c)'
  BY DEF IInv, StreamFits, GotInOrder, BehindPulls
<1>4. Charged' = Charged /\ Kept' = Kept  BY DEF Charged, Kept
<1>5. Connections'  BY <1>4 DEF IInv, Connections
<1> QED  BY <1>1, <1>2, <1>3, <1>5 DEF IInv

LEMMA InferAndFrameInv == ASSUME IInv, InferAndFrame PROVE IInv'
<1> USE DEF InferAndFrame, inputs
<1>1. opened \in Nat /\ opened' \in Nat /\ opened' = opened + 1  BY DEF IInv, TypeOK
<1>2. /\ stash' \in Stream \cup {None}
      /\ stash' # None => /\ stash'.id = opened' /\ stash'.at <= Len(text)
                          /\ Len(stash'.replay) = stash'.at
                          /\ \A k \in 1..Len(stash'.replay) : stash'.replay[k] = k
      /\ source = "ssh" => stash' # None
  BY <1>1, RewoundStream DEF IInv, TypeOK
<1>3. TypeOK'  BY <1>1, <1>2 DEF IInv, TypeOK
<1>4. SchemaGiven' /\ StashWhole'
  <2>1. built' = "frame" /\ Len(text') = Len(text)  OBVIOUS
  <2>2. stash' # None /\ stash'.replay = <<>> => stash'.at = 0
    BY <1>2
  <2> QED  BY <1>2, <2>1, <2>2 DEF SchemaGiven, StashWhole
<1>5. IdsOpened' /\ OneReader'
  BY <1>1, <1>2, <1>3 DEF IInv, IdsOpened, OneReader, TypeOK, Stream
<1>6. \A c \in Collects : pc[c] \in {"idle", "done", "failed"}  BY DEF Alone
<1>7. \A c \in Collects : StreamFits(c)' /\ GotInOrder(c)'
  BY DEF IInv, StreamFits, GotInOrder
<1>8. \A c \in Collects : BehindPulls(c)'
  BY <1>6, ProbeAssumption DEF IInv, BehindPulls, TypeOK, GotInOrder
<1>9. Charged' = Charged  BY <1>6 DEF Charged
<1>10. Connections'
  BY <1>1, <1>2, <1>9, ChargedFinite, ProbeAssumption DEF IInv, TypeOK, Connections, Kept
<1> QED  BY <1>3, <1>4, <1>5, <1>7, <1>8, <1>10 DEF IInv

LEMMA FrameFailsInv == ASSUME IInv, FrameFails PROVE IInv'
<1> USE DEF FrameFails, inputs
<1>1. opened \in Nat /\ opened' \in Nat /\ opened <= opened' /\ opened' <= opened + 1
  BY DEF IInv, TypeOK
<1>2. TypeOK'  BY <1>1 DEF IInv, TypeOK
<1>3. SchemaGiven' /\ StashWhole' /\ IdsOpened' /\ OneReader'
  BY <1>1 DEF IInv, SchemaGiven, TypeOK, Stream, StashWhole, IdsOpened, OneReader
<1>4. \A c \in Collects : StreamFits(c)' /\ GotInOrder(c)' /\ BehindPulls(c)'
  BY DEF IInv, StreamFits, GotInOrder, BehindPulls
<1>5. Charged' = Charged  BY DEF Charged
<1>6. Connections'
  BY <1>1, <1>5, ChargedFinite DEF IInv, TypeOK, Connections, Kept
<1> QED  BY <1>2, <1>3, <1>4, <1>6 DEF IInv

LEMMA PullInv == ASSUME IInv, Pull PROVE IInv'
<1> USE DEF Pull, inputs
<1> DEFINE s == IF stash = None THEN Fresh(opened + 1) ELSE stash
<1>1. opened \in Nat /\ opened' \in Nat /\ opened <= opened'  BY DEF IInv, TypeOK
<1>2. /\ s \in Stream /\ s.id <= opened' /\ s.replay = <<>>
      /\ stash = None => s.id = opened + 1 /\ opened' = opened + 1
      /\ stash # None => s.id = stash.id
  BY <1>1, FreshStream DEF IInv, TypeOK, StashWhole, IdsOpened
<1>3. PICK n \in 0..MaxBatch : s.at + n <= Len(text) /\ stash' = [s EXCEPT !.at = @ + n]
  OBVIOUS
<1>4. /\ stash' \in Stream /\ stash'.id = s.id /\ stash'.replay = <<>>
      /\ stash'.at <= Len(text) /\ stash' # None
  BY <1>2, <1>3, ProbeAssumption DEF Stream
<1>5. pulls' \in Nat /\ pulls' > 0 /\ byPulls' \in Nat  BY DEF IInv, TypeOK
<1>6. TypeOK'  BY <1>1, <1>4, <1>5 DEF IInv, TypeOK
<1>7. SchemaGiven' /\ StashWhole'
  BY <1>4, <1>5 DEF IInv, SchemaGiven, StashWhole
<1>8. IdsOpened'
  BY <1>1, <1>2, <1>4 DEF IInv, IdsOpened, TypeOK, Stream
<1>9. OneReader'
  BY <1>1, <1>2, <1>4 DEF IInv, IdsOpened, OneReader, TypeOK, Stream
<1>10. \A c \in Collects : StreamFits(c)' /\ GotInOrder(c)' /\ BehindPulls(c)'
  BY <1>5 DEF IInv, StreamFits, GotInOrder, BehindPulls
<1>11. Charged' = Charged  BY DEF Charged
<1>12. Connections'
  BY <1>1, <1>4, <1>11, ChargedFinite DEF IInv, TypeOK, Connections, Kept
<1> QED  BY <1>6, <1>7, <1>8, <1>9, <1>10, <1>12 DEF IInv

-----------------------------------------------------------------------------
(* scan().                                                                 *)
LEMMA TakeInv == ASSUME IInv, NEW c \in Collects, Take(c) PROVE IInv'
<1> USE DEF Take, Goes, inputs
<1>1. /\ TypeOK /\ stash \in Stream \cup {None} /\ got[c] = <<>> /\ pc[c] = "idle"
      /\ stash # None => stash.at \in Nat /\ stash.at <= Len(text)
  BY DEF IInv, TypeOK, GotInOrder, StashWhole, Stream
<1>2. TypeOK'  BY <1>1 DEF TypeOK
<1>3. SchemaGiven' /\ StashWhole' /\ IdsOpened'
  BY <1>2 DEF IInv, SchemaGiven, StashWhole, IdsOpened, TypeOK
<1>4. OneReader'  BY <1>1, <1>2 DEF IInv, OneReader, TypeOK
<1>5. stream'[c] = stash /\ pc'[c] = "taken"  BY <1>1 DEF TypeOK
<1>6. behind'[c] = IF stash = None \/ stash.replay # <<>> THEN 0 ELSE stash.at
  BY <1>1 DEF TypeOK
<1>7. \A d \in Collects : d # c =>
        /\ stream'[d] = stream[d] /\ pc'[d] = pc[d] /\ behind'[d] = behind[d]
        /\ got'[d] = got[d]
  BY <1>1 DEF TypeOK
<1>8. StreamFits(c)'
  BY <1>1, <1>5, <1>6 DEF IInv, StashWhole, StreamFits, Stream
<1>9. GotInOrder(c)' /\ BehindPulls(c)'
  BY <1>1, <1>5, <1>6 DEF IInv, StashWhole, GotInOrder, BehindPulls, Stream
<1>10. \A d \in Collects : StreamFits(d)' /\ GotInOrder(d)' /\ BehindPulls(d)'
  BY <1>7, <1>8, <1>9 DEF IInv, StreamFits, GotInOrder, BehindPulls
<1>11. /\ c \notin Charged
       /\ c \in Charged' <=> stash # None /\ schema # None
       /\ \A d \in Collects : d # c => (d \in Charged' <=> d \in Charged)
  BY <1>1, <1>5, <1>7 DEF Charged
<1>12. /\ UNCHANGED <<source, built, schema, opened, byPulls>> /\ stash' = None
       /\ built # "failed"
  OBVIOUS
<1>13. Charged \subseteq Collects /\ Charged' \subseteq Collects  BY DEF Charged
<1> HIDE DEF Take, Goes, inputs
<1>14. Connections'
  <2>1. CASE ~ (stash # None /\ schema # None)
    <3>1. Charged' = Charged  BY <1>11, <1>13, <2>1
    <3>2. Kept' = Kept  BY <1>12, <2>1 DEF Kept
    <3>3. Cardinality(Charged') = Cardinality(Charged)  BY <3>1
    <3> QED  BY <1>12, <3>2, <3>3 DEF IInv, Connections
  <2>2. CASE stash # None /\ schema # None
    <3>1. Charged' = Charged \cup {c}  BY <1>11, <1>13, <2>2
    <3>2. Cardinality(Charged') = Cardinality(Charged) + 1  BY <1>11, <3>1, ChargedFinite
    <3>3. Kept = 1 /\ Kept' = 0  BY <1>12, <2>2 DEF Kept
    <3>4. Cardinality(Charged) \in Nat  BY ChargedFinite
    <3>5. opened \in Nat /\ byPulls \in Nat  BY <1>1 DEF TypeOK
    <3> QED  BY <1>12, <3>2, <3>3, <3>4, <3>5 DEF IInv, Connections
  <2> QED  BY <2>1, <2>2
<1> QED  BY <1>2, <1>3, <1>4, <1>10, <1>14 DEF IInv

(* The collects other than c are as they were.                             *)
Others(c) ==
  \A d \in Collects : d # c =>
    /\ stream'[d] = stream[d] /\ pc'[d] = pc[d] /\ behind'[d] = behind[d]
    /\ got'[d] = got[d]

(* A step of a collect that leaves the reader alone, and opens a stream    *)
(* only for a collect none has been opened for.                            *)
LEMMA ChargeGrows ==
  ASSUME IInv, NEW c \in Collects, Others(c), TypeOK', c \in Charged => c \in Charged',
         UNCHANGED <<source, built, schema, stash, byPulls>>,
         opened' = opened \/ (opened' = opened + 1 /\ c \notin Charged /\ c \in Charged')
  PROVE  Connections'
<1>1. \A d \in Collects : d # c => (d \in Charged' <=> d \in Charged)
  BY DEF Others, Charged
<1>2. Charged \subseteq Collects /\ Charged' \subseteq Collects  BY DEF Charged
<1>3. Charged' = Charged \/ (c \notin Charged /\ Charged' = Charged \cup {c})
  BY <1>1, <1>2
<1>4. Kept' = Kept /\ Kept \in {0, 1}  BY DEF Kept
<1>5. Cardinality(Charged) \in Nat  BY ChargedFinite
<1>6. CASE Charged' = Charged
  <2>1. opened' = opened /\ Cardinality(Charged') = Cardinality(Charged)  BY <1>6
  <2> QED  BY <1>4, <1>5, <2>1 DEF IInv, Connections
<1>7. CASE c \notin Charged /\ Charged' = Charged \cup {c}
  <2>1. Cardinality(Charged') = Cardinality(Charged) + 1  BY <1>7, ChargedFinite
  <2> QED  BY <1>4, <1>5, <2>1 DEF IInv, TypeOK, Connections
<1> QED  BY <1>3, <1>6, <1>7

LEMMA ReaderKept ==
  ASSUME IInv, opened' \in Nat, opened <= opened',
         UNCHANGED <<inputs, built, schema, stash, pulls>>
  PROVE  SchemaGiven' /\ StashWhole' /\ (stash' # None => stash'.id <= opened')
BY DEF IInv, TypeOK, Stream, SchemaGiven, StashWhole, IdsOpened, inputs

(* Steps that give a collect no other stream.                              *)
LEMMA StreamKept ==
  ASSUME IInv, NEW c \in Collects, Others(c), TypeOK', opened <= opened',
         UNCHANGED <<inputs, built, schema, stash, pulls>>,
         stream'[c] = None \/ (stream[c] # None /\ stream'[c].id = stream[c].id)
  PROVE  SchemaGiven' /\ StashWhole' /\ IdsOpened' /\ OneReader'
<1>1. opened \in Nat /\ opened' \in Nat  BY DEF IInv, TypeOK
<1>2. SchemaGiven' /\ StashWhole' /\ (stash' # None => stash'.id <= opened')
  BY <1>1, ReaderKept
<1>3. \A d \in Collects : stream'[d] # None => stream[d] # None /\ stream'[d].id = stream[d].id
  BY DEF Others
<1>4. IdsOpened'  BY <1>1, <1>2, <1>3 DEF IInv, IdsOpened, TypeOK, Stream
<1>5. OneReader'  BY <1>3 DEF IInv, OneReader
<1> QED  BY <1>2, <1>4, <1>5

(* Steps that give a collect the stream that is opened now.                *)
LEMMA StreamOpened ==
  ASSUME IInv, NEW c \in Collects, Others(c), TypeOK', opened' = opened + 1,
         UNCHANGED <<inputs, built, schema, stash, pulls>>,
         stream'[c] # None => stream'[c].id = opened'
  PROVE  SchemaGiven' /\ StashWhole' /\ IdsOpened' /\ OneReader'
<1>1. opened \in Nat /\ opened' \in Nat /\ opened < opened'  BY DEF IInv, TypeOK
<1>2. SchemaGiven' /\ StashWhole' /\ (stash' # None => stash'.id <= opened')
  BY <1>1, ReaderKept
<1>3. \A d \in Collects : d # c /\ stream'[d] # None => stream'[d].id <= opened
  BY DEF Others, IInv, IdsOpened
<1>4. stash' # None => stash'.id <= opened  BY DEF IInv, IdsOpened
<1>5. \A d \in Collects : stream'[d] # None => stream'[d].id \in Nat  BY DEF TypeOK, Stream
<1>6. stash' # None => stash'.id \in Nat  BY DEF TypeOK, Stream
<1>7. IdsOpened'  BY <1>1, <1>2, <1>3, <1>5 DEF IdsOpened
<1>8. OneReader'
  BY <1>1, <1>3, <1>4, <1>5, <1>6 DEF IInv, OneReader, Others
<1> QED  BY <1>2, <1>7, <1>8

LEMMA OthersFit ==
  ASSUME IInv, NEW c \in Collects, Others(c), UNCHANGED <<inputs, schema, pulls>>,
         StreamFits(c)', GotInOrder(c)', BehindPulls(c)'
  PROVE  \A d \in Collects : StreamFits(d)' /\ GotInOrder(d)' /\ BehindPulls(d)'
BY DEF IInv, Others, inputs, StreamFits, GotInOrder, BehindPulls

LEMMA CloneInv == ASSUME IInv, NEW c \in Collects, Clone(c) PROVE IInv'
<1> USE DEF Clone, Goes
<1>1. /\ Others(c) /\ pc[c] = "taken" /\ pc'[c] = "cloned" /\ stream'[c] = stream[c]
      /\ behind'[c] = behind[c] /\ got'[c] = got[c] /\ schema # None
  BY DEF IInv, TypeOK, Others
<1>2. TypeOK'  BY DEF IInv, TypeOK, inputs
<1>3. SchemaGiven' /\ StashWhole' /\ IdsOpened' /\ OneReader'
  <2>1. opened <= opened' /\ UNCHANGED <<inputs, built, schema, stash, pulls>>
    BY DEF IInv, TypeOK
  <2>2. stream'[c] = None \/ (stream[c] # None /\ stream'[c].id = stream[c].id)  BY <1>1
  <2> QED  BY <1>1, <1>2, <2>1, <2>2, StreamKept
<1>4. StreamFits(c)' /\ GotInOrder(c)' /\ BehindPulls(c)'
  BY <1>1 DEF IInv, inputs, StreamFits, GotInOrder, BehindPulls
<1>5. \A d \in Collects : StreamFits(d)' /\ GotInOrder(d)' /\ BehindPulls(d)'
  BY <1>1, <1>4, OthersFit
<1>6. c \in Charged => c \in Charged'  BY <1>1 DEF Charged
<1>7. Connections'  BY <1>1, <1>2, <1>6, ChargeGrows DEF inputs
<1> QED  BY <1>2, <1>3, <1>5, <1>7 DEF IInv

LEMMA InferAndCloneInv == ASSUME IInv, NEW c \in Collects, InferAndClone(c) PROVE IInv'
<1> USE DEF InferAndClone, Goes
<1>1. /\ opened \in Nat /\ opened' \in Nat /\ Len(text) \in Nat
      /\ stream'[c] = Rewound(opened') /\ behind'[c] = 0
      /\ Others(c) /\ pc[c] = "taken" /\ pc'[c] = "cloned" /\ got'[c] = got[c]
      /\ got[c] = <<>>
  BY DEF IInv, TypeOK, GotInOrder, Others
<1>2. /\ stream'[c] \in Stream \cup {None}
      /\ stream'[c] # None =>
           /\ stream'[c].id = opened' /\ stream'[c].at <= Len(text)
           /\ Len(stream'[c].replay) = stream'[c].at
           /\ \A k \in 1..Len(stream'[c].replay) : stream'[c].replay[k] = k
      /\ source = "ssh" => stream'[c] # None
  BY <1>1, RewoundStream
<1>3. TypeOK'  BY <1>1, <1>2 DEF IInv, TypeOK, inputs
<1>4. SchemaGiven' /\ StashWhole' /\ IdsOpened' /\ OneReader'
  BY <1>1, <1>2, <1>3, StreamOpened
<1>5. StreamFits(c)'
  BY <1>1, <1>2 DEF inputs, StreamFits, Stream
<1>6. GotInOrder(c)' /\ BehindPulls(c)'
  BY <1>1, <1>2 DEF inputs, GotInOrder, BehindPulls
<1>7. \A d \in Collects : StreamFits(d)' /\ GotInOrder(d)' /\ BehindPulls(d)'
  BY <1>1, <1>5, <1>6, OthersFit
<1>8. c \notin Charged /\ (source = "ssh" => c \in Charged')  BY <1>1, <1>2 DEF Charged
<1>9. Connections'
  <2>1. CASE source = "ssh"  BY <1>1, <1>3, <1>8, <2>1, ChargeGrows DEF inputs
  <2>2. CASE source # "ssh"  BY <2>2 DEF Connections, inputs
  <2> QED  BY <2>1, <2>2
<1> QED  BY <1>3, <1>4, <1>7, <1>9 DEF IInv

LEMMA InferFailsInv == ASSUME IInv, NEW c \in Collects, InferFails(c) PROVE IInv'
<1> USE DEF InferFails, Goes
<1>1. /\ opened \in Nat /\ (opened' = opened \/ opened' = opened + 1)
      /\ stream'[c] = None /\ behind'[c] = behind[c]
      /\ Others(c) /\ pc[c] = "taken" /\ pc'[c] = "failed" /\ got'[c] = got[c]
  BY DEF IInv, TypeOK, Others
<1>2. TypeOK'  BY <1>1 DEF IInv, TypeOK, inputs
<1>3. SchemaGiven' /\ StashWhole' /\ IdsOpened' /\ OneReader'
  BY <1>1, <1>2, StreamKept
<1>4. StreamFits(c)' /\ GotInOrder(c)' /\ BehindPulls(c)'
  BY <1>1 DEF IInv, inputs, StreamFits, GotInOrder, BehindPulls
<1>5. \A d \in Collects : StreamFits(d)' /\ GotInOrder(d)' /\ BehindPulls(d)'
  BY <1>1, <1>4, OthersFit
<1>6. c \notin Charged /\ c \in Charged'  BY <1>1 DEF Charged
<1>7. Connections'  BY <1>1, <1>2, <1>6, ChargeGrows DEF inputs
<1> QED  BY <1>2, <1>3, <1>5, <1>7 DEF IInv

(* A collect that fails, or that ends, keeps the stream it has.            *)
LEMMA EndInv ==
  ASSUME IInv, NEW c \in Collects, CloneFails(c) \/ OpenFails(c) \/ ReadFails(c) \/ Finish(c)
  PROVE  IInv'
<1> USE DEF CloneFails, OpenFails, ReadFails, Finish, Goes
<1>1. /\ Others(c) /\ stream'[c] = stream[c] /\ behind'[c] = behind[c] /\ got'[c] = got[c]
      /\ opened' = opened /\ UNCHANGED <<inputs, built, schema, stash, pulls, byPulls>>
  BY DEF IInv, TypeOK, Others
<1>2. TypeOK'  BY DEF IInv, TypeOK, inputs
<1>3. SchemaGiven' /\ StashWhole' /\ IdsOpened' /\ OneReader'
  <2>1. opened <= opened' /\ UNCHANGED <<inputs, built, schema, stash, pulls>>
    BY DEF IInv, TypeOK
  <2>2. stream'[c] = None \/ (stream[c] # None /\ stream'[c].id = stream[c].id)  BY <1>1
  <2> QED  BY <1>1, <1>2, <2>1, <2>2, StreamKept
<1>4. pc'[c] = "failed" \/ (Finish(c) /\ pc'[c] = "done")  BY DEF IInv, TypeOK
<1>5. Finish(c) => Len(got[c]) = Len(text) - behind[c]
  <2> SUFFICES ASSUME Finish(c) PROVE Len(got[c]) = Len(text) - behind[c]  OBVIOUS
  <2> DEFINE s == stream[c]
  <2>1. /\ s \in Stream /\ got[c] \in Seq(Nat) /\ behind[c] \in Nat /\ Len(text) \in Nat
        /\ s.at = behind[c] + Len(got[c]) + Len(s.replay) /\ s.at <= Len(text)
        /\ \A k \in 1..Len(s.replay) : s.replay[k] = behind[c] + Len(got[c]) + k
    BY DEF IInv, TypeOK, GotInOrder, StreamFits
  <2>2. NextLine(s) > Len(text)  OBVIOUS
  <2> HIDE DEF s
  <2>3. s.replay \in Seq(Nat) /\ s.at \in Nat  BY <2>1 DEF Stream
  <2>4. s.replay = <<>>
    <3> SUFFICES ASSUME s.replay # <<>> PROVE FALSE  OBVIOUS
    <3>1. Len(s.replay) >= 1 /\ Head(s.replay) = s.replay[1]  BY <2>3
    <3>2. NextLine(s) = behind[c] + Len(got[c]) + 1  BY <2>1, <3>1 DEF NextLine
    <3> QED  BY <2>1, <2>2, <2>3, <3>1, <3>2
  <2>5. NextLine(s) = s.at + 1  BY <2>4 DEF NextLine
  <2> QED  BY <2>1, <2>2, <2>3, <2>4, <2>5
<1>6. StreamFits(c)'  BY <1>1 DEF IInv, inputs, StreamFits
<1>7. GotInOrder(c)'  BY <1>1, <1>4, <1>5 DEF IInv, inputs, GotInOrder
<1>8. BehindPulls(c)'  BY <1>1, <1>4 DEF IInv, inputs, BehindPulls
<1>9. \A d \in Collects : StreamFits(d)' /\ GotInOrder(d)' /\ BehindPulls(d)'
  BY <1>1, <1>6, <1>7, <1>8, OthersFit
<1>10. c \in Charged => c \in Charged'  BY <1>1, <1>4 DEF Charged
<1>11. Connections'  BY <1>1, <1>2, <1>10, ChargeGrows DEF inputs
<1> QED  BY <1>2, <1>3, <1>9, <1>11 DEF IInv

LEMMA OpenInv == ASSUME IInv, NEW c \in Collects, Open(c) PROVE IInv'
<1> USE DEF Open, Goes
<1>1. /\ Others(c) /\ pc[c] = "cloned" /\ pc'[c] = "reading"
      /\ behind'[c] = behind[c] /\ got'[c] = got[c] /\ got[c] = <<>>
      /\ opened \in Nat /\ Len(text) \in Nat
  BY DEF IInv, TypeOK, Others, GotInOrder
<1>2. CASE stream[c] # None
  <2>1. stream'[c] = stream[c] /\ opened' = opened  BY <1>2
  <2>2. TypeOK'  BY <1>2 DEF IInv, TypeOK, inputs
  <2>3. SchemaGiven' /\ StashWhole' /\ IdsOpened' /\ OneReader'
    BY <1>1, <2>1, <2>2, StreamKept
  <2>4. StreamFits(c)' /\ GotInOrder(c)' /\ BehindPulls(c)'
    BY <1>1, <1>2, <2>1 DEF IInv, inputs, StreamFits, GotInOrder, BehindPulls
  <2>5. \A d \in Collects : StreamFits(d)' /\ GotInOrder(d)' /\ BehindPulls(d)'
    BY <1>1, <2>4, OthersFit
  <2>6. c \in Charged => c \in Charged'  BY <1>1 DEF Charged
  <2>7. Connections'  BY <1>1, <2>1, <2>2, <2>6, ChargeGrows DEF inputs
  <2> QED  BY <2>2, <2>3, <2>5, <2>7 DEF IInv
<1>3. CASE stream[c] = None
  <2>1. /\ opened' = opened + 1 /\ stream'[c] = Fresh(opened') /\ opened' \in Nat
        /\ behind[c] = 0
    BY <1>1, <1>3 DEF IInv, TypeOK, GotInOrder
  <2>2. /\ stream'[c] \in Stream /\ stream'[c] # None /\ stream'[c].id = opened'
        /\ stream'[c].at = 0 /\ stream'[c].replay = <<>>
    BY <2>1, FreshStream
  <2>3. TypeOK'  BY <1>3, <2>1, <2>2 DEF IInv, TypeOK, inputs
  <2>4. SchemaGiven' /\ StashWhole' /\ IdsOpened' /\ OneReader'
    BY <1>1, <2>1, <2>2, <2>3, StreamOpened
  <2>5. StreamFits(c)'  BY <1>1, <2>1, <2>2 DEF StreamFits, inputs
  <2>6. GotInOrder(c)' /\ BehindPulls(c)'
    BY <1>1, <2>1, <2>2 DEF GotInOrder, BehindPulls, inputs
  <2>7. \A d \in Collects : StreamFits(d)' /\ GotInOrder(d)' /\ BehindPulls(d)'
    BY <1>1, <2>5, <2>6, OthersFit
  <2>8. c \notin Charged /\ c \in Charged'  BY <1>1, <1>3 DEF Charged
  <2>9. Connections'  BY <1>1, <2>1, <2>3, <2>8, ChargeGrows DEF inputs
  <2> QED  BY <2>3, <2>4, <2>7, <2>9 DEF IInv
<1> QED  BY <1>2, <1>3

(* A line read moves the stream on: what was put back comes first.         *)
LEMMA AdvancedStream ==
  ASSUME NEW s \in Stream
  PROVE  /\ Advanced(s) \in Stream /\ Advanced(s).id = s.id
         /\ s.replay = <<>> => Advanced(s).at = s.at + 1 /\ Advanced(s).replay = <<>>
         /\ s.replay # <<>> => Advanced(s).at = s.at /\ Advanced(s).replay = Tail(s.replay)
<1>1. CASE s.replay = <<>>
  <2>1. Advanced(s) = [s EXCEPT !.at = @ + 1]  BY <1>1 DEF Advanced
  <2> QED  BY <1>1, <2>1 DEF Stream
<1>2. CASE s.replay # <<>>
  <2>1. Advanced(s) = [s EXCEPT !.replay = Tail(@)]  BY <1>2 DEF Advanced
  <2>2. s.replay \in Seq(Nat)  BY DEF Stream
  <2>3. Tail(s.replay) \in Seq(Nat)  BY <1>2, <2>2
  <2> QED  BY <1>2, <2>1, <2>3 DEF Stream
<1> QED  BY <1>1, <1>2

LEMMA ReadLineInv == ASSUME IInv, NEW c \in Collects, ReadLine(c) PROVE IInv'
<1> USE DEF ReadLine
<1> DEFINE s == stream[c]
<1>1. /\ s \in Stream /\ s # None
      /\ got[c] \in Seq(Nat) /\ behind[c] \in Nat /\ Len(text) \in Nat
      /\ s.at = behind[c] + Len(got[c]) + Len(s.replay) /\ s.at <= Len(text)
      /\ \A k \in 1..Len(s.replay) : s.replay[k] = behind[c] + Len(got[c]) + k
  BY DEF IInv, TypeOK, GotInOrder, StreamFits
<1>2. /\ Others(c) /\ pc[c] = "reading" /\ pc'[c] = "reading"
      /\ stream'[c] = Advanced(s) /\ got'[c] = Append(got[c], NextLine(s))
      /\ behind'[c] = behind[c] /\ NextLine(s) <= Len(text) /\ opened' = opened
      /\ UNCHANGED <<inputs, built, schema, stash, pulls, byPulls>>
  BY DEF IInv, TypeOK, Others
<1> HIDE DEF s
<1>3. s.replay \in Seq(Nat) /\ s.at \in Nat /\ s.id \in Nat  BY <1>1 DEF Stream
<1>4. NextLine(s) = behind[c] + Len(got[c]) + 1
  <2>1. CASE s.replay = <<>>
    <3>1. NextLine(s) = s.at + 1 /\ Len(s.replay) = 0  BY <2>1 DEF NextLine
    <3>2. s.at = behind[c] + Len(got[c])  BY <1>1, <3>1
    <3> QED  BY <3>1, <3>2
  <2>2. CASE s.replay # <<>>
    <3>1. NextLine(s) = s.replay[1]  BY <1>3, <2>2 DEF NextLine
    <3>2. 1 \in 1..Len(s.replay)  BY <1>3, <2>2
    <3>3. s.replay[1] = behind[c] + Len(got[c]) + 1  BY <1>1, <3>2
    <3> QED  BY <3>1, <3>3
  <2> QED  BY <2>1, <2>2
<1>5. /\ got'[c] \in Seq(Nat) /\ Len(got'[c]) = Len(got[c]) + 1
      /\ \A k \in 1..Len(got[c]) : got'[c][k] = got[c][k]
      /\ got'[c][Len(got[c]) + 1] = behind[c] + Len(got[c]) + 1
  <2>1. NextLine(s) \in Nat  BY <1>1, <1>4
  <2> QED  BY <1>1, <1>2, <1>4, <2>1
<1>6. /\ Advanced(s) \in Stream /\ Advanced(s).id = s.id
      /\ Advanced(s).at = behind[c] + Len(got[c]) + 1 + Len(Advanced(s).replay)
      /\ Advanced(s).at <= Len(text)
      /\ \A k \in 1..Len(Advanced(s).replay) :
           Advanced(s).replay[k] = behind[c] + Len(got[c]) + 1 + k
  <2>1. CASE s.replay = <<>>
    <3>2. s.at + 1 <= Len(text)  BY <1>2, <2>1 DEF NextLine
    <3>3. Len(s.replay) = 0  BY <2>1
    <3>5. /\ Advanced(s) \in Stream /\ Advanced(s).id = s.id
          /\ Advanced(s).at = s.at + 1 /\ Advanced(s).replay = s.replay
      BY <1>1, <2>1, AdvancedStream
    <3>6. s.at = behind[c] + Len(got[c])  BY <1>1, <1>3, <3>3
    <3>7. Len(Advanced(s).replay) = 0  BY <3>3, <3>5
    <3>8. Advanced(s).at = behind[c] + Len(got[c]) + 1 + Len(Advanced(s).replay)
      BY <1>1, <3>5, <3>6, <3>7
    <3>9. Advanced(s).at <= Len(text)  BY <3>2, <3>5
    <3> QED  BY <3>5, <3>7, <3>8, <3>9
  <2>2. CASE s.replay # <<>>
    <3>2. /\ Tail(s.replay) \in Seq(Nat) /\ Len(Tail(s.replay)) = Len(s.replay) - 1
          /\ \A k \in 1..Len(Tail(s.replay)) : Tail(s.replay)[k] = s.replay[k + 1]
      BY <1>3, <2>2
    <3>3. /\ Advanced(s) \in Stream /\ Advanced(s).id = s.id
          /\ Advanced(s).at = s.at /\ Advanced(s).replay = Tail(s.replay)
      BY <1>1, <2>2, AdvancedStream
    <3>4. \A k \in 1..Len(Tail(s.replay)) :
            Advanced(s).replay[k] = behind[c] + Len(got[c]) + 1 + k
      <4>0. \A i, j, k \in Nat : i + j + (k + 1) = i + j + 1 + k  OBVIOUS
      <4> TAKE k \in 1..Len(Tail(s.replay))
      <4>1. k + 1 \in 1..Len(s.replay)  BY <1>3, <3>2
      <4>2. s.replay[k + 1] = behind[c] + Len(got[c]) + (k + 1)  BY <1>1, <4>1
      <4>3. Advanced(s).replay[k] = s.replay[k + 1]  BY <3>2, <3>3
      <4>4. k \in Nat /\ Len(got[c]) \in Nat  BY <1>1, <1>3, <3>2
      <4>5. behind[c] \in Nat  BY <1>1
      <4>6. behind[c] + Len(got[c]) + (k + 1) = behind[c] + Len(got[c]) + 1 + k
        BY ONLY <4>0, <4>4, <4>5
      <4> QED  BY <4>2, <4>3, <4>6
    <3>5. Len(Advanced(s).replay) = Len(s.replay) - 1  BY <3>2, <3>3
    <3>6. Advanced(s).at = behind[c] + Len(got[c]) + 1 + Len(Advanced(s).replay)
      BY <1>1, <1>3, <3>3, <3>5
    <3>7. Advanced(s).at <= Len(text)  BY <1>1, <3>3
    <3> QED  BY <3>2, <3>3, <3>4, <3>6, <3>7
  <2> QED  BY <2>1, <2>2
<1>7. TypeOK'
  <2>1. got' \in [Collects -> Seq(Nat)]  BY <1>2, <1>5 DEF IInv, TypeOK
  <2>2. stream' \in [Collects -> Stream \cup {None}]  BY <1>2, <1>6 DEF IInv, TypeOK
  <2> QED  BY <2>1, <2>2 DEF IInv, TypeOK, inputs
<1>8. SchemaGiven' /\ StashWhole' /\ IdsOpened' /\ OneReader'
  <2>1. stream'[c].id = stream[c].id /\ stream[c] # None  BY <1>1, <1>2, <1>6 DEF s
  <2>2. opened <= opened' /\ UNCHANGED <<inputs, built, schema, stash, pulls>>
    BY <1>2 DEF IInv, TypeOK
  <2> QED  BY <1>2, <1>7, <2>1, <2>2, StreamKept
<1>9. StreamFits(c)'
  <2>1. Len(got[c]) \in Nat /\ Len(Advanced(s).replay) \in Nat  BY <1>1, <1>6 DEF Stream
  <2>2. behind'[c] + Len(got'[c]) = behind[c] + Len(got[c]) + 1
    <3>1. behind[c] \in Nat  BY <1>1
    <3>2. behind'[c] = behind[c]  BY <1>2
    <3>3. Len(got'[c]) = Len(got[c]) + 1  BY <1>5
    <3> QED  BY <2>1, <3>1, <3>2, <3>3
  <2>3. stream'[c] = Advanced(s) /\ text' = text  BY <1>2 DEF inputs
  <2>4. /\ stream'[c].at = behind'[c] + Len(got'[c]) + Len(stream'[c].replay)
        /\ stream'[c].at <= Len(text')
        /\ \A k \in 1..Len(stream'[c].replay) :
             stream'[c].replay[k] = behind'[c] + Len(got'[c]) + k
    BY <1>6, <2>2, <2>3
  <2> QED  BY <2>4 DEF StreamFits
<1>10. GotInOrder(c)' /\ BehindPulls(c)'
  <2>1. stream'[c] # None  BY <1>2, <1>6, ProbeAssumption
  <2>2. \A k \in 1..Len(got'[c]) : got'[c][k] = behind'[c] + k
    <3>0. got'[c][Len(got[c]) + 1] = behind'[c] + (Len(got[c]) + 1)
      <4>1. behind'[c] = behind[c] /\ behind[c] \in Nat  BY <1>1, <1>2
      <4>2. Len(got[c]) \in Nat  BY <1>1
      <4>3. got'[c][Len(got[c]) + 1] = behind[c] + Len(got[c]) + 1  BY <1>5
      <4> QED  BY <4>1, <4>2, <4>3
    <3> TAKE k \in 1..Len(got'[c])
    <3>1. CASE k \in 1..Len(got[c])
      <4>1. got[c][k] = behind[c] + k  BY <3>1 DEF IInv, GotInOrder
      <4> QED  BY <1>2, <1>5, <3>1, <4>1
    <3>2. CASE k = Len(got[c]) + 1  BY <3>0, <3>2
    <3> QED  BY <1>1, <1>5, <3>1, <3>2
  <2>3. GotInOrder(c)'  BY <1>2, <2>1, <2>2 DEF GotInOrder
  <2>4. BehindPulls(c)'  BY <1>2 DEF IInv, BehindPulls
  <2> QED  BY <2>3, <2>4
<1>11. \A d \in Collects : StreamFits(d)' /\ GotInOrder(d)' /\ BehindPulls(d)'
  BY <1>2, <1>9, <1>10, OthersFit
<1>12. c \in Charged => c \in Charged'  BY <1>2 DEF Charged
<1>13. Connections'  BY <1>2, <1>7, <1>12, ChargeGrows DEF inputs
<1> QED  BY <1>7, <1>8, <1>11, <1>13 DEF IInv

LEMMA StutterInv == ASSUME IInv, UNCHANGED vars PROVE IInv'
<1> USE DEF vars, inputs
<1>1. TypeOK' /\ SchemaGiven' /\ StashWhole' /\ IdsOpened' /\ OneReader'
  BY DEF IInv, TypeOK, SchemaGiven, StashWhole, IdsOpened, OneReader
<1>2. \A c \in Collects : StreamFits(c)' /\ GotInOrder(c)' /\ BehindPulls(c)'
  BY DEF IInv, StreamFits, GotInOrder, BehindPulls
<1>3. Connections'
  <2>1. Charged' = Charged /\ Kept' = Kept  BY DEF Charged, Kept
  <2> QED  BY <2>1 DEF IInv, Connections
<1> QED  BY <1>1, <1>2, <1>3 DEF IInv

LEMMA ScanInv == ASSUME IInv, NEW c \in Collects, Scan(c) PROVE IInv'
BY TakeInv, CloneInv, InferAndCloneInv, InferFailsInv, EndInv, OpenInv, ReadLineInv DEF Scan

(* The invariant holds throughout, for every text and any number of        *)
(* collects.                                                               *)
THEOREM Inductive == Spec => []IInv
<1>1. IInv /\ [Next]_vars => IInv'
  BY FrameInv, InferAndFrameInv, FrameFailsInv, PullInv, ScanInv, StutterInv DEF Next
<1> QED  BY <1>1, InitInv, PTL DEF Spec

(* Streams are what the program keeps, whatever the interleaving of the    *)
(* collects.                                                               *)
THEOREM TypeCorrect == Spec => []TypeOK
<1>1. IInv => TypeOK  BY DEF IInv
<1> QED  BY <1>1, Inductive, PTL

(* The stream the probe left feeds one collect, however many start.        *)
THEOREM OneReaderEach == Spec => []OneReader
<1>1. IInv => OneReader  BY DEF IInv
<1> QED  BY <1>1, Inductive, PTL

(* A collect that ends has read the whole text once and in order; what a   *)
(* pull took before it is missing only under a schema that was given.      *)
THEOREM WholeCollects == Spec => []CollectsWhole
<1>1. IInv => CollectsWhole
  <2> SUFFICES ASSUME IInv, NEW c \in Collects, pc[c] = "done"
               PROVE /\ got[c] = [k \in 1..(Len(text) - behind[c]) |-> behind[c] + k]
                     /\ behind[c] > 0 => schema = NoSchema /\ pulls > 0
    BY DEF CollectsWhole
  <2>1. got[c] \in Seq(Nat)  BY DEF IInv, TypeOK
  <2>2. /\ Len(got[c]) = Len(text) - behind[c]
        /\ \A k \in 1..Len(got[c]) : got[c][k] = behind[c] + k
    BY DEF IInv, GotInOrder
  <2>3. behind[c] > 0 => schema = NoSchema /\ pulls > 0  BY DEF IInv, BehindPulls
  <2>4. got[c] = [k \in 1..Len(got[c]) |-> got[c][k]]  BY <2>1
  <2> QED  BY <2>2, <2>3, <2>4
<1> QED  BY <1>1, Inductive, PTL

(* A command is run once for each collect, and once more at most for a     *)
(* probe that nobody has taken over yet.                                   *)
THEOREM ConnectionEach == Spec => []OneConnectionEach
<1>1. IInv => OneConnectionEach
  <2> DEFINE begun == {c \in Collects : pc[c] # "idle"}
             kept  == IF stash # None \/ built = "failed" THEN 1 ELSE 0
  <2> SUFFICES ASSUME IInv, source = "ssh"
               PROVE opened <= byPulls + Cardinality(begun) + kept
    BY DEF OneConnectionEach
  <2>1. Charged \subseteq begun /\ IsFiniteSet(begun)
    BY ProbeAssumption, FS_Subset DEF Charged
  <2>2. Cardinality(Charged) <= Cardinality(begun)  BY <2>1, FS_Subset
  <2>3. Cardinality(Charged) \in Nat /\ Cardinality(begun) \in Nat
    BY <2>1, ChargedFinite, FS_CardinalityType
  <2>4. Kept \in {0, 1} /\ Kept <= kept  BY DEF Kept
  <2>5. opened \in Nat /\ byPulls \in Nat  BY DEF IInv, TypeOK
  <2>6. opened <= byPulls + Cardinality(Charged) + Kept  BY DEF IInv, Connections
  <2>7. kept \in {0, 1}  OBVIOUS
  <2> HIDE DEF begun, kept
  <2> QED  BY <2>2, <2>3, <2>4, <2>5, <2>6, <2>7
<1> QED  BY <1>1, Inductive, PTL

-----------------------------------------------------------------------------
(* The types of a column: merge_schema_field makes them a semilattice.     *)

(* Types that rows disagree on merge to one of the types.                  *)
THEOREM MergedTypes == \A a, b \in Types : Merged(a, b) \in Types
BY DEF Types, Merged

(* The order in which rows are merged does not matter, and neither does a  *)
(* row that is there twice.                                                *)
THEOREM MergeOrder ==
  \A a, b, c \in Types : /\ Merged(a, b) = Merged(b, a)
                         /\ Merged(a, Merged(b, c)) = Merged(Merged(a, b), c)
                         /\ Merged(a, a) = a
BY DEF Types, Merged

(* A merged type holds what both hold, and is the narrowest that does.     *)
THEOREM MergeNarrowest ==
  \A a, b \in Types :
    /\ Fits(a, Merged(a, b)) /\ Fits(b, Merged(a, b))
    /\ \A u \in Types : Fits(a, u) /\ Fits(b, u) => Fits(Merged(a, b), u)
BY DEF Types, Merged, Fits

-----------------------------------------------------------------------------
(* The schema of a probe: the merge of all its rows.                       *)

LEMMA LeastIn ==
  ASSUME NEW S \in SUBSET Nat, S # {}
  PROVE  \E n \in S : \A m \in S : n <= m
<1>1. PICK n \in S : \A m \in S : ~ (<<m, n>> \in OpToRel(<, Nat))
  BY NatLessThanWellFounded, WFMin
<1>2. \A m \in S : ~ (m < n)  BY <1>1 DEF OpToRel
<1> QED  BY <1>2

(* The recursion over the lines has a solution: one for the first k of     *)
(* them can be continued by a line.                                        *)
LEMMA AfterSolved ==
  ASSUME NEW lines, Len(lines) \in Nat
  PROVE  \A n \in 0..Len(lines) :
           SchemaAfter(lines)[n] =
             IF n = 0 THEN NoSchema
             ELSE IF lines[n].kind = "row"
                  THEN MergedRow(SchemaAfter(lines)[n - 1], lines[n].types)
             ELSE SchemaAfter(lines)[n - 1]
<1> DEFINE L == Len(lines)
           Made(s, n) == IF lines[n].kind = "row" THEN MergedRow(s, lines[n].types) ELSE s
           Step(g, n) == IF n = 0 THEN NoSchema
                         ELSE IF lines[n].kind = "row" THEN MergedRow(g[n - 1], lines[n].types)
                         ELSE g[n - 1]
           Solved(k) == \E g : g = [n \in 0..k |-> Step(g, n)]
           Bad == {k \in 0..L : ~ Solved(k)}
<1>1. \A g, n : Step(g, n) = IF n = 0 THEN NoSchema ELSE Made(g[n - 1], n)  OBVIOUS
<1> HIDE DEF Step, Made
<1>2. Solved(0)
  <2> DEFINE g == [n \in 0..0 |-> NoSchema]
  <2>1. \A n \in 0..0 : Step(g, n) = NoSchema  BY <1>1
  <2>2. g = [n \in 0..0 |-> Step(g, n)]  BY <2>1
  <2> QED  BY <2>2
<1>3. ASSUME NEW k \in Nat, Solved(k) PROVE Solved(k + 1)
  <2>1. PICK g : g = [n \in 0..k |-> Step(g, n)]  BY <1>3
  <2> DEFINE h == [n \in 0..(k + 1) |-> Step(g, n)]
  <2>2. \A n \in 0..k : n \in 0..(k + 1)  OBVIOUS
  <2>3. \A n \in 0..k : h[n] = g[n]  BY <2>1, <2>2
  <2>4. \A n \in 0..(k + 1) : n # 0 => n - 1 \in 0..k  OBVIOUS
  <2>5. \A n \in 0..(k + 1) : Step(g, n) = Step(h, n)  BY <1>1, <2>3, <2>4
  <2>6. h = [n \in 0..(k + 1) |-> Step(h, n)]  BY <2>5
  <2> QED  BY <2>6
<1> HIDE DEF Solved
<1>4. Bad = {}
  <2> SUFFICES ASSUME Bad # {} PROVE FALSE  OBVIOUS
  <2>1. Bad \in SUBSET Nat  OBVIOUS
  <2>2. PICK n \in Bad : \A m \in Bad : n <= m  BY <2>1, LeastIn
  <2>3. n \in Nat /\ n <= L /\ ~ Solved(n)  BY <2>2
  <2>4. n # 0  BY <1>2, <2>3
  <2>5. n - 1 \in Nat /\ (n - 1) + 1 = n /\ n - 1 \in 0..L /\ ~ (n <= n - 1)  BY <2>3, <2>4
  <2>6. Solved(n - 1)  BY <2>2, <2>5
  <2> QED  BY <1>3, <2>3, <2>5, <2>6
<1>5. \E g : g = [n \in 0..L |-> Step(g, n)]  BY <1>4 DEF Solved
<1>6. SchemaAfter(lines) = CHOOSE g : g = [n \in 0..L |-> Step(g, n)]  BY DEF SchemaAfter, Step
<1>7. SchemaAfter(lines) = [n \in 0..L |-> Step(SchemaAfter(lines), n)]  BY <1>5, <1>6
<1>8. \A n \in 0..L : SchemaAfter(lines)[n] = Step(SchemaAfter(lines), n)  BY <1>7, Zenon
<1> QED  BY <1>8 DEF Step

(* A schema that has a column for each key of some rows, of the narrowest  *)
(* type that holds all of its values.                                      *)
TypesAt(lines, rows, k) == {lines[r].types[k] : r \in {r \in rows : k \in DOMAIN lines[r].types}}

Narrow(s, lines, rows) ==
  /\ s \in [DOMAIN s -> Types]
  /\ DOMAIN s = UNION {DOMAIN lines[r].types : r \in rows}
  /\ \A k \in DOMAIN s :
       /\ \A t \in TypesAt(lines, rows, k) : Fits(t, s[k])
       /\ \A u \in Types : (\A t \in TypesAt(lines, rows, k) : Fits(t, u)) => Fits(s[k], u)

LEMMA FitsOrder ==
  \A a, b, c \in Types : Fits(a, a) /\ (Fits(a, b) /\ Fits(b, c) => Fits(a, c))
BY DEF Types, Fits

LEMMA NarrowGrows ==
  ASSUME NEW lines, NEW rows, NEW s, Narrow(s, lines, rows),
         NEW n, lines[n].types \in [DOMAIN lines[n].types -> Types],
         \A r \in rows : lines[r].types \in [DOMAIN lines[r].types -> Types]
  PROVE  Narrow(MergedRow(s, lines[n].types), lines, rows \cup {n})
<1> DEFINE row == lines[n].types
           m == MergedRow(s, row)
           all == rows \cup {n}
           Old(k) == TypesAt(lines, rows, k)
           New(k) == TypesAt(lines, all, k)
<1>1. /\ s \in [DOMAIN s -> Types]
      /\ DOMAIN s = UNION {DOMAIN lines[r].types : r \in rows}
      /\ \A k \in DOMAIN s : \A t \in Old(k) : Fits(t, s[k])
      /\ \A k \in DOMAIN s : \A u \in Types : (\A t \in Old(k) : Fits(t, u)) => Fits(s[k], u)
  BY DEF Narrow
<1>2. row \in [DOMAIN row -> Types]  OBVIOUS
<1>3. /\ DOMAIN m = DOMAIN s \cup DOMAIN row
      /\ \A k \in DOMAIN m : m[k] = IF k \notin DOMAIN s THEN row[k]
                                    ELSE IF k \notin DOMAIN row THEN s[k] ELSE Merged(s[k], row[k])
  BY DEF MergedRow
<1>4. m = [k \in DOMAIN m |-> m[k]]  BY DEF MergedRow
<1>5. \A k \in DOMAIN m : m[k] \in Types  BY <1>1, <1>2, <1>3, MergedTypes
<1>6. DOMAIN m = UNION {DOMAIN lines[r].types : r \in all}
  <2>1. UNION {DOMAIN lines[r].types : r \in all} =
          (UNION {DOMAIN lines[r].types : r \in rows}) \cup DOMAIN row
    <3> DEFINE D(r) == DOMAIN lines[r].types
    <3> HIDE DEF D
    <3>1. {D(r) : r \in all} = {D(r) : r \in rows} \cup {D(n)}  OBVIOUS
    <3>2. \A S, d : UNION (S \cup {d}) = (UNION S) \cup d  OBVIOUS
    <3>3. UNION {D(r) : r \in all} = (UNION {D(r) : r \in rows}) \cup D(n)  BY <3>1, <3>2
    <3> QED  BY <3>3 DEF D
  <2> QED  BY <1>1, <1>3, <2>1
<1>7. \A k : New(k) = Old(k) \cup (IF k \in DOMAIN row THEN {row[k]} ELSE {})
  BY DEF TypesAt
<1>8. \A k : \A t \in Old(k) : t \in Types  BY DEF TypesAt
<1>9. \A k : k \notin DOMAIN s => Old(k) = {}  BY <1>1 DEF TypesAt
<1> HIDE DEF m, row, Old, New, all
<1>10. ASSUME NEW k \in DOMAIN m, NEW t \in New(k) PROVE Fits(t, m[k])
  <2>1. CASE k \notin DOMAIN s
    <3>1. k \in DOMAIN row /\ t = row[k] /\ m[k] = row[k]  BY <1>3, <1>7, <1>9, <1>10, <2>1
    <3> QED  BY <1>2, <3>1, FitsOrder
  <2>2. CASE k \in DOMAIN s /\ k \notin DOMAIN row  BY <1>1, <1>3, <1>7, <1>10, <2>2
  <2>3. CASE k \in DOMAIN s /\ k \in DOMAIN row
    <3>1. m[k] = Merged(s[k], row[k]) /\ s[k] \in Types /\ row[k] \in Types
      BY <1>1, <1>2, <1>3, <2>3
    <3>2. Fits(s[k], m[k]) /\ Fits(row[k], m[k])  BY <3>1, MergeNarrowest
    <3>3. m[k] \in Types  BY <1>5
    <3>4. CASE t \in Old(k)
      <4>1. t \in Types /\ Fits(t, s[k])  BY <1>1, <1>8, <2>3, <3>4
      <4> QED  BY <3>1, <3>2, <3>3, <4>1, FitsOrder
    <3>5. CASE t = row[k]  BY <3>2, <3>5
    <3> QED  BY <1>7, <1>10, <2>3, <3>4, <3>5
  <2> QED  BY <2>1, <2>2, <2>3
<1>11. ASSUME NEW k \in DOMAIN m, NEW u \in Types, \A t \in New(k) : Fits(t, u)
       PROVE  Fits(m[k], u)
  <2>1. CASE k \notin DOMAIN s  BY <1>3, <1>7, <1>11, <2>1
  <2>2. CASE k \in DOMAIN s /\ k \notin DOMAIN row
    <3>1. \A t \in Old(k) : Fits(t, u)  BY <1>7, <1>11
    <3> QED  BY <1>1, <1>3, <2>2, <3>1
  <2>3. CASE k \in DOMAIN s /\ k \in DOMAIN row
    <3>1. m[k] = Merged(s[k], row[k]) /\ s[k] \in Types /\ row[k] \in Types
      BY <1>1, <1>2, <1>3, <2>3
    <3>2. Fits(row[k], u) /\ \A t \in Old(k) : Fits(t, u)  BY <1>7, <1>11, <2>3
    <3>3. Fits(s[k], u)  BY <1>1, <2>3, <3>2
    <3> QED  BY <3>1, <3>2, <3>3, MergeNarrowest
  <2> QED  BY <2>1, <2>2, <2>3
<1> QED  BY <1>4, <1>5, <1>6, <1>10, <1>11 DEF Narrow, New, all, m, row

RowsIn(lines, n) == {k \in 1..n : lines[k].kind = "row"}

LEMMA SchemaAfterNarrow ==
  ASSUME NEW lines, Len(lines) \in Nat,
         \A k \in 1..Len(lines) : lines[k].types \in [DOMAIN lines[k].types -> Types]
  PROVE  \A n \in 0..Len(lines) : Narrow(SchemaAfter(lines)[n], lines, RowsIn(lines, n))
<1> DEFINE L == Len(lines)
           A == SchemaAfter(lines)
           Bad == {n \in 0..L : ~ Narrow(A[n], lines, RowsIn(lines, n))}
<1>1. \A n \in 0..L : n # 0 =>
        A[n] = IF lines[n].kind = "row" THEN MergedRow(A[n - 1], lines[n].types) ELSE A[n - 1]
  BY AfterSolved
<1>2. A[0] = NoSchema
  <2>1. 0 \in 0..L  OBVIOUS
  <2> QED  BY <2>1, AfterSolved
<1>3. Narrow(NoSchema, lines, RowsIn(lines, 0))
  <2>1. RowsIn(lines, 0) = {}  BY DEF RowsIn
  <2>2. DOMAIN NoSchema = {} /\ NoSchema \in [DOMAIN NoSchema -> Types]  BY DEF NoSchema
  <2>3. UNION {DOMAIN lines[r].types : r \in {}} = {}  OBVIOUS
  <2> QED  BY <2>1, <2>2, <2>3 DEF Narrow
<1> HIDE DEF A
<1>4. ASSUME NEW n \in 1..L, Narrow(A[n - 1], lines, RowsIn(lines, n - 1))
      PROVE  Narrow(A[n], lines, RowsIn(lines, n))
  <2>1. CASE lines[n].kind = "row"
    <3>1. RowsIn(lines, n) = RowsIn(lines, n - 1) \cup {n}  BY <2>1 DEF RowsIn
    <3>2. A[n] = MergedRow(A[n - 1], lines[n].types)  BY <1>1, <2>1
    <3>3. \A r \in RowsIn(lines, n - 1) : lines[r].types \in [DOMAIN lines[r].types -> Types]
      BY DEF RowsIn
    <3>4. lines[n].types \in [DOMAIN lines[n].types -> Types]  OBVIOUS
    <3>5. Narrow(MergedRow(A[n - 1], lines[n].types), lines, RowsIn(lines, n - 1) \cup {n})
      BY <1>4, <3>3, <3>4, NarrowGrows
    <3> QED  BY <3>1, <3>2, <3>5
  <2>2. CASE lines[n].kind # "row"
    <3>1. RowsIn(lines, n) = RowsIn(lines, n - 1)  BY <2>2 DEF RowsIn
    <3>2. A[n] = A[n - 1]  BY <1>1, <2>2
    <3> QED  BY <1>4, <3>1, <3>2
  <2> QED  BY <2>1, <2>2
<1>5. Bad = {}
  <2> SUFFICES ASSUME Bad # {} PROVE FALSE  OBVIOUS
  <2>1. Bad \in SUBSET Nat  OBVIOUS
  <2>2. PICK n \in Bad : \A m \in Bad : n <= m  BY <2>1, LeastIn
  <2>3. n \in Nat /\ n <= L /\ ~ Narrow(A[n], lines, RowsIn(lines, n))  BY <2>2
  <2>4. n # 0  BY <1>2, <1>3, <2>3
  <2>5. n \in 1..L /\ n - 1 \in 0..L /\ ~ (n <= n - 1)  BY <2>3, <2>4
  <2>6. Narrow(A[n - 1], lines, RowsIn(lines, n - 1))  BY <2>2, <2>5
  <2> QED  BY <1>4, <2>3, <2>5, <2>6
<1> QED  BY <1>5 DEF A

(* The schema of the reader is a given one or the probe's.                 *)
LEMMA InputsFixed ==
  ASSUME [Next]_vars
  PROVE  text' = text /\ length' = length /\ (schema' = schema \/ schema' = Inferred)
BY DEF Next, vars, inputs, Frame, InferAndFrame, FrameFails, Pull, Scan, Take, Clone,
       InferAndClone, InferFails, CloneFails, Open, OpenFails, ReadLine, ReadFails, Finish

THEOREM SchemaStaysKnown == Spec => []SchemaKnown
<1>1. Init => SchemaKnown  BY DEF Init, SchemaKnown
<1>2. SchemaKnown /\ [Next]_vars => SchemaKnown'
  <2> SUFFICES ASSUME SchemaKnown, [Next]_vars PROVE SchemaKnown'  OBVIOUS
  <2>1. text' = text /\ length' = length  BY InputsFixed
  <2>2. Inferred' = Inferred  BY <2>1 DEF Inferred, Rows, Probed
  <2> QED  BY <2>1, <2>2, InputsFixed DEF SchemaKnown
<1> QED  BY <1>1, <1>2, PTL DEF Spec

(* The schema a probe leaves has a column for each key of the rows probed, *)
(* of the narrowest type that holds all of its values: the order of the    *)
(* rows has no part in it.                                                 *)
THEOREM ProbedSchemaNarrowest == Spec => []SchemaNarrowest
<1>1. SchemaKnown => SchemaNarrowest
  <2> SUFFICES ASSUME SchemaKnown, schema \notin {None, NoSchema} PROVE SchemaNarrowest
    BY DEF SchemaNarrowest
  <2>1. /\ Len(text) \in Nat
        /\ \A k \in 1..Len(text) : text[k].types \in [DOMAIN text[k].types -> Types]
    BY ProbeAssumption DEF SchemaKnown
  <2>2. Probed \in 0..Len(text)  BY <2>1, ProbedLines
  <2>3. schema = SchemaAfter(text)[Probed]  BY DEF SchemaKnown, Inferred
  <2>4. RowsIn(text, Probed) = Rows(Probed)  BY DEF RowsIn, Rows
  <2>5. Narrow(schema, text, Rows(Probed))  BY <2>1, <2>2, <2>3, <2>4, SchemaAfterNarrow
  <2>6. \A k : TypesOf(k) = TypesAt(text, Rows(Probed), k)  BY DEF TypesOf, TypesAt
  <2> QED  BY <2>5, <2>6 DEF SchemaNarrowest, Narrow
<1> QED  BY <1>1, SchemaStaysKnown, PTL
====
