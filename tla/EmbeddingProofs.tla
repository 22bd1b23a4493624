-------------------------- MODULE EmbeddingProofs --------------------------
(***************************************************************************)
(* Proofs about Embedding: type correctness, that the schema is whole where*)
(* its version says so (SchemaWhole), that a vector fits its message       *)
(* (VectorsFit) and that an undisturbed run leaves none without            *)
(* (FullyEmbedded).                                                        *)
(***************************************************************************)
EXTENDS Embedding, FiniteSetTheorems, WellFoundedInduction, TLAPS

USE DEF Ids, SchemaVersion

\* A set of ids has a largest one, so that the next row id is a new one.
LEMMA LargestId ==
  ASSUME NEW S, S \subseteq Ids, S # {}
  PROVE  \E i \in S : \A j \in S : j <= i
  <1> DEFINE R == OpToRel(<, Nat)
             T == {MaxId - i : i \in S}
  <1>1. IsWellFoundedOn(R, Nat)
    BY NatLessThanWellFounded
  <1>2. T \subseteq Nat /\ T # {}
    <2>1. \A i \in S : MaxId - i \in Nat
      BY EmbeddingAssumption
    <2>q. QED BY <2>1
  <1>3. \A x, y \in Nat : <<y, x>> \in R <=> y < x
    BY DEF OpToRel
  <1> HIDE DEF R
  <1>4. PICK x \in T : \A y \in T : ~ (<<y, x>> \in R)
    BY <1>1, <1>2, WFMin
  <1>5. PICK i \in S : x = MaxId - i
    BY <1>4
  <1>6. ASSUME NEW j \in S
        PROVE  j <= i
    <2>1. MaxId - j \in T /\ MaxId - j \in Nat /\ x \in Nat
      BY <1>2, <1>4
    <2>2. ~ (MaxId - j < x)
      BY <1>3, <1>4, <2>1
    <2>q. QED BY <1>5, <2>2, EmbeddingAssumption
  <1>q. QED BY <1>6

LEMMA NextIdIsNew == NextId \notin Rows
  <1>1. CASE Rows = {}
    BY <1>1
  <1>2. CASE Rows # {}
    <2>1. \E i \in Rows : \A j \in Rows : j <= i
      BY <1>2, LargestId DEF Rows
    <2>2. PICK m \in Rows : (\A j \in Rows : j <= m) /\ NextId = 1 + m
      BY <1>2, <2>1 DEF NextId
    <2>3. \A j \in Rows : j # 1 + m
      BY <2>2 DEF Rows
    <2>q. QED BY <2>2, <2>3
  <1>q. QED BY <1>1, <1>2

-----------------------------------------------------------------------------
(***************************************************************************)
(* Opening the database.                                                   *)
(***************************************************************************)
\* A process executes the statements in their order, and finds no more of
\* them carried out by others than it has itself.
SchemaInv ==
  /\ SchemaWhole
  /\ pc = [p \in Procs |-> pc[p]]
  /\ \A p \in Procs : pc[p] = "schema" => next[p] <= created + 1

\* The steps that leave the file and the processes' place in the schema alone.
LEMMA SchemaKept ==
  ASSUME OpenTypeOK, SchemaInv, UNCHANGED <<file, next>>,
         pc' = [p \in Procs |-> pc'[p]],
         \A p \in Procs : pc'[p] = "schema" => pc[p] = "schema"
  PROVE  OpenTypeOK' /\ SchemaInv'
  BY DEF OpenTypeOK, SchemaInv, SchemaWhole, file

LEMMA GoOnly ==
  ASSUME NEW p \in Procs, NEW where, pc = [q \in Procs |-> pc[q]], Go(p, where)
  PROVE  /\ pc' = [q \in Procs |-> pc'[q]]
         /\ pc'[p] = where
         /\ \A q \in Procs : q # p => pc'[q] = pc[q]
  BY DEF Go

LEMMA OpenSchema ==
  ASSUME OpenTypeOK, SchemaInv, NEW p \in Procs, Open(p, Resting)
  PROVE  OpenTypeOK' /\ SchemaInv'
  <1>1. UNCHANGED file /\ next' = [next EXCEPT ![p] = 1]
    BY DEF Open
  <1>2. /\ pc' = [q \in Procs |-> pc'[q]]
        /\ \A q \in Procs : q # p => pc'[q] = pc[q]
    BY GoOnly DEF Open, SchemaInv
  <1>3. /\ created \in Nat /\ 1 \in 1 .. Statements + 1 /\ next \in [Procs -> 1 .. Statements + 1]
    BY OpenAssumption DEF OpenTypeOK
  <1>q. QED BY <1>1, <1>2, <1>3 DEF OpenTypeOK, SchemaInv, SchemaWhole, file

LEMMA CreateSchema ==
  ASSUME OpenTypeOK, SchemaInv, NEW p \in Procs, Create(p)
  PROVE  OpenTypeOK' /\ SchemaInv'
  <1>1. /\ pc[p] = "schema" /\ next[p] <= Statements /\ version' = version
        /\ next[p] \in 1 .. Statements + 1 /\ next[p] <= created + 1
        /\ created \in 0 .. Statements /\ Statements \in Nat
    BY OpenAssumption DEF Create, OpenTypeOK, SchemaInv
  <1>2. CASE created >= next[p]
    <2>1. Go(p, "refused") /\ UNCHANGED <<created, next>>
      BY <1>2 DEF Create
    <2>2. /\ pc' = [q \in Procs |-> pc'[q]] /\ pc'[p] = "refused"
          /\ \A q \in Procs : q # p => pc'[q] = pc[q]
      BY <2>1, GoOnly DEF SchemaInv
    <2>q. QED BY <1>1, <2>1, <2>2, SchemaKept DEF file
  <1>3. CASE ~(created >= next[p])
    <2>1. created' = next[p] /\ next' = [next EXCEPT ![p] = @ + 1] /\ pc' = pc
      BY <1>3 DEF Create
    <2>2. created' = created + 1 /\ created' \in 0 .. Statements /\ created < Statements
      BY <1>1, <1>3, <2>1
    <2>3. next' \in [Procs -> 1 .. Statements + 1]
      BY <1>1, <2>1 DEF OpenTypeOK
    <2>4. \A q \in Procs : pc'[q] = "schema" => next'[q] <= created' + 1
      BY <1>1, <2>1, <2>2 DEF OpenTypeOK, SchemaInv
    <2>q. QED BY <1>1, <2>1, <2>2, <2>3, <2>4 DEF OpenTypeOK, SchemaInv, SchemaWhole
  <1>q. QED BY <1>2, <1>3

LEMMA VersionSchema ==
  ASSUME OpenTypeOK, SchemaInv, NEW p \in Procs, SetVersion(p)
  PROVE  OpenTypeOK' /\ SchemaInv'
  <1>1. /\ pc[p] = "schema" /\ next[p] > Statements /\ version' = 1
        /\ UNCHANGED <<created, next>> /\ Go(p, "open")
    BY DEF SetVersion
  <1>2. /\ pc' = [q \in Procs |-> pc'[q]] /\ pc'[p] = "open"
        /\ \A q \in Procs : q # p => pc'[q] = pc[q]
    BY <1>1, GoOnly DEF SchemaInv
  <1>3. created = Statements
    BY <1>1, OpenAssumption DEF OpenTypeOK, SchemaInv
  <1>q. QED BY <1>1, <1>2, <1>3 DEF OpenTypeOK, SchemaInv, SchemaWhole

-----------------------------------------------------------------------------
(***************************************************************************)
(* Type correctness, and that vectors fit.                                 *)
(***************************************************************************)
Entry  == [key : Keys, text : Texts]
Vector == [model : Models, text : Texts]

\* What p holds of a message is still so, unless a sync has written to it.
BatchInv ==
  /\ batch = [p \in Procs |-> batch[p]]
  /\ \A p \in Procs : \A i \in DOMAIN batch[p] \ hit :
       i \in Rows /\ row[i].text = batch[p][i]

\* All of it together: TypeOK and the invariants of the properties.
EmbedInv ==
  /\ TypeOK /\ SchemaInv /\ BatchInv /\ VectorsFit /\ FullyEmbedded

LEMMA NoBatchOK ==
  /\ DOMAIN NoBatch = {}
  /\ Cardinality(DOMAIN NoBatch) <= Batch
  BY FS_EmptySet, EmbeddingAssumption DEF NoBatch

\* Writing one batch.
LEMMA BatchOf ==
  ASSUME NEW p \in Procs, NEW b, batch = [q \in Procs |-> batch[q]], SetBatch(p, b)
  PROVE  /\ batch' = [q \in Procs |-> batch'[q]]
         /\ batch'[p] = b
         /\ \A q \in Procs : q # p => batch'[q] = batch[q]
  BY DEF SetBatch

LEMMA RowTypes ==
  ASSUME TypeOK
  PROVE  /\ \A i \in Rows : i \in Ids /\ row[i] \in Entry
                            /\ row[i].key \in Keys /\ row[i].text \in Texts
         /\ \A i \in Ids : vec[i] # NoVec =>
              vec[i] \in Vector /\ vec[i].model \in Models /\ vec[i].text \in Texts
  <1>1. \A i \in Ids : row[i] \in Entry \cup {NoRow} /\ vec[i] \in Vector \cup {NoVec}
    BY DEF TypeOK, Entry, Vector
  <1>q. QED BY <1>1 DEF Rows, Entry, Vector

\* A write of a sync: what it says of rows and vectors keeps everything.
LEMMA WrittenKeeps ==
  ASSUME EmbedInv, NEW ids \in SUBSET Ids, NEW clear \in BOOLEAN, Written(ids, clear),
         row' \in [Ids -> Entry \cup {NoRow}],
         \A i \in Ids \ ids : row'[i] = row[i],
         \A i, j \in Ids : row'[i] # NoRow /\ row'[j] # NoRow /\ row'[i].key = row'[j].key => i = j,
         ~clear => ids \cap Rows = {}
  PROVE  EmbedInv'
  <1>1. /\ version = version' /\ created' = created /\ UNCHANGED <<pc, next, model, batch>>
        /\ writes' \in 0 .. MaxWrites
        /\ vec' = [i \in Ids |-> IF i \in ids /\ clear THEN NoVec ELSE vec[i]]
        /\ hit' = (IF clear THEN hit \ ids ELSE hit)
                  \cup {i \in ids : \E p \in Procs : i \in DOMAIN batch[p]}
        /\ alone' = {}
    BY EmbeddingAssumption DEF Written, EmbedInv, TypeOK, file, procs
  <1>2. TypeOK'
    <2>1. vec' \in [Ids -> Vector \cup {NoVec}] /\ hit' \subseteq Ids
      BY <1>1 DEF EmbedInv, TypeOK, Vector
    <2>2. \A i, j \in Rows' : row'[i].key = row'[j].key => i = j
      BY DEF Rows
    <2>q. QED BY <1>1, <2>1, <2>2 DEF EmbedInv, TypeOK, OpenTypeOK, Entry, Vector
  <1>3. SchemaInv'
    BY <1>1 DEF EmbedInv, SchemaInv, SchemaWhole
  <1>4. BatchInv'
    <2>1. ASSUME NEW p \in Procs, NEW i \in DOMAIN batch[p], i \notin hit'
          PROVE  i \in Rows' /\ row'[i].text = batch[p][i]
      <3>1. i \in Ids /\ i \notin ids /\ i \notin hit
        BY <1>1, <2>1 DEF EmbedInv, TypeOK
      <3>2. i \in Rows /\ row[i].text = batch[p][i]
        BY <2>1, <3>1 DEF EmbedInv, BatchInv
      <3>q. QED BY <3>1, <3>2 DEF Rows
    <2>q. QED BY <1>1, <2>1 DEF EmbedInv, BatchInv
  <1>5. VectorsFit'
    <2>1. ASSUME NEW i \in Ids, i \notin hit', vec'[i] # NoVec
          PROVE  i \in Rows' /\ vec'[i].text = row'[i].text
      <3>1. vec'[i] = vec[i] /\ ~(i \in ids /\ clear) /\ i \notin hit
        BY <1>1, <2>1
      <3>2. i \in Rows /\ vec[i].text = row[i].text
        BY <2>1, <3>1 DEF EmbedInv, VectorsFit
      <3>3. i \notin ids
        BY <3>1, <3>2
      <3>q. QED BY <3>1, <3>2, <3>3 DEF Rows
    <2>q. QED BY <2>1 DEF VectorsFit
  <1>6. FullyEmbedded'
    BY <1>1 DEF FullyEmbedded
  <1>q. QED BY <1>2, <1>3, <1>4, <1>5, <1>6 DEF EmbedInv

LEMMA SyncKeeps ==
  ASSUME EmbedInv, SyncWrite
  PROVE  EmbedInv'
  <1>1. row \in [Ids -> Entry \cup {NoRow}]
        /\ \A i, j \in Rows : row[i].key = row[j].key => i = j
    BY DEF EmbedInv, TypeOK, Entry
  <1>2. ASSUME NEW k \in Keys, NEW t \in Texts, Insert(k, t)
        PROVE  EmbedInv'
    <2> DEFINE e == [key |-> k, text |-> t]
               n == NextId
    <2>1. n \in Ids /\ row' = [row EXCEPT ![n] = e] /\ Written({n}, FALSE)
          /\ \A i \in Rows : row[i].key # k
      BY <1>2 DEF Insert
    <2>2. e \in Entry /\ e.key = k /\ e # NoRow
      BY EmbeddingAssumption DEF Entry
    <2>3. n \notin Rows
      BY NextIdIsNew
    <2> HIDE DEF e, n
    <2>4. /\ row' \in [Ids -> Entry \cup {NoRow}]
          /\ \A i \in Ids \ {n} : row'[i] = row[i]
          /\ row'[n] = e
      BY <1>1, <2>1, <2>2
    <2>5. \A i, j \in Ids : row'[i] # NoRow /\ row'[j] # NoRow /\ row'[i].key = row'[j].key => i = j
      BY <1>1, <2>1, <2>2, <2>4 DEF Rows
    <2>6. {n} \in SUBSET Ids /\ {n} \cap Rows = {}
      BY <2>1, <2>3
    <2>q. QED BY <2>1, <2>4, <2>5, <2>6, WrittenKeeps
  <1>3. ASSUME NEW k \in Keys, NEW t \in Texts, Update(k, t)
        PROVE  EmbedInv'
    <2>1. PICK n \in Rows : row' = [row EXCEPT ![n].text = t] /\ Written({n}, TRUE)
      BY <1>3 DEF Update
    <2>2. n \in Ids /\ row[n] \in Entry /\ row[n] # NoRow
      BY RowTypes DEF EmbedInv, Rows
    <2>3. /\ row' \in [Ids -> Entry \cup {NoRow}]
          /\ \A i \in Ids \ {n} : row'[i] = row[i]
          /\ row'[n].key = row[n].key
      BY <1>1, <2>1, <2>2 DEF Entry
    <2>4. \A i, j \in Ids : row'[i] # NoRow /\ row'[j] # NoRow /\ row'[i].key = row'[j].key => i = j
      BY <1>1, <2>2, <2>3 DEF Rows
    <2>q. QED BY <2>1, <2>2, <2>3, <2>4, WrittenKeeps
  <1>4. ASSUME NEW keys \in SUBSET Keys, Remove(keys)
        PROVE  EmbedInv'
    <2> DEFINE ids == {i \in Rows : row[i].key \in keys}
    <2>1. row' = [i \in Ids |-> IF i \in ids THEN NoRow ELSE row[i]] /\ Written(ids, TRUE)
      BY <1>4 DEF Remove
    <2>2. ids \in SUBSET Ids
      BY DEF Rows
    <2> HIDE DEF ids
    <2>3. /\ row' \in [Ids -> Entry \cup {NoRow}]
          /\ \A i \in Ids \ ids : row'[i] = row[i]
          /\ \A i \in Ids : row'[i] # NoRow => row'[i] = row[i]
      BY <1>1, <2>1
    <2>4. \A i, j \in Ids : row'[i] # NoRow /\ row'[j] # NoRow /\ row'[i].key = row'[j].key => i = j
      BY <1>1, <2>3 DEF Rows
    <2>q. QED BY <2>1, <2>2, <2>3, <2>4, WrittenKeeps
  <1>q. QED BY <1>2, <1>3, <1>4 DEF SyncWrite, Put

\* A process that changes nothing but its place, and does not finish.
LEMMA IdleKeeps ==
  ASSUME EmbedInv, NEW p \in Procs, UNCHANGED <<tables, model, writes, hit>>,
         alone' = alone \ {p}, \A q \in Procs : q # p => pc'[q] = pc[q],
         pc' \in [Procs -> Resting \cup Working], OpenTypeOK', SchemaInv',
         \/ UNCHANGED batch
         \/ SetBatch(p, NoBatch)
  PROVE  EmbedInv'
  <1>1. row' = row /\ vec' = vec /\ model' = model /\ writes' = writes /\ hit' = hit
    BY DEF tables
  <1>2. /\ batch' = [q \in Procs |-> batch'[q]]
        /\ \A q \in Procs : \/ batch'[q] = batch[q]
                            \/ DOMAIN batch'[q] = {} /\ Cardinality(DOMAIN batch'[q]) <= Batch
    BY BatchOf, NoBatchOK DEF EmbedInv, BatchInv
  <1>3. TypeOK'
    BY <1>1, <1>2 DEF EmbedInv, TypeOK, Rows
  <1>4. BatchInv'
    BY <1>1, <1>2 DEF EmbedInv, BatchInv, Rows
  <1>5. VectorsFit'
    BY <1>1 DEF EmbedInv, VectorsFit, Rows
  <1>6. FullyEmbedded'
    BY <1>1 DEF EmbedInv, FullyEmbedded, Rows
  <1>q. QED BY <1>3, <1>4, <1>5, <1>6 DEF EmbedInv

LEMMA OpenKeeps ==
  ASSUME EmbedInv, NEW p \in Procs, OpenStep(p)
  PROVE  EmbedInv'
  <1>1. /\ UNCHANGED <<tables, model, batch, writes, hit>> /\ alone' = alone \ {p}
        /\ Open(p, Resting) \/ Create(p) \/ SetVersion(p)
    BY DEF OpenStep, migrate
  <1>2. OpenTypeOK' /\ SchemaInv'
    BY <1>1, OpenSchema, CreateSchema, VersionSchema DEF EmbedInv, TypeOK
  <1>3. \/ UNCHANGED pc
        \/ \E where \in {"open", "schema", "refused"} : Go(p, where)
    BY <1>1 DEF Open, Create, SetVersion
  <1>4. /\ pc' \in [Procs -> Resting \cup Working]
        /\ \A q \in Procs : q # p => pc'[q] = pc[q]
    BY <1>3 DEF Go, EmbedInv, TypeOK, Resting, Working
  <1>q. QED BY <1>1, <1>2, <1>4, IdleKeeps

LEMMA StopKeeps ==
  ASSUME EmbedInv, NEW p \in Procs, Stop(p)
  PROVE  EmbedInv'
  <1>1. /\ UNCHANGED <<file, tables, next, model, writes, hit>> /\ alone' = alone \ {p}
        /\ Go(p, "idle") /\ SetBatch(p, NoBatch)
    BY DEF Stop
  <1>2. /\ pc' = [q \in Procs |-> pc'[q]] /\ pc'[p] = "idle"
        /\ \A q \in Procs : q # p => pc'[q] = pc[q]
    BY <1>1, GoOnly DEF EmbedInv, SchemaInv
  <1>3. OpenTypeOK' /\ SchemaInv'
    BY <1>1, <1>2, SchemaKept DEF EmbedInv, TypeOK
  <1>4. pc' \in [Procs -> Resting \cup Working]
    BY <1>1 DEF Go, EmbedInv, TypeOK, Resting
  <1>q. QED BY <1>1, <1>2, <1>3, <1>4, IdleKeeps

\* EmbedPending leaves the file alone, and the schema with it.
LEMMA PlaceKeeps ==
  ASSUME EmbedInv, NEW p \in Procs, NEW where \in {"read", "store", "done"},
         Go(p, where), UNCHANGED <<file, next>>
  PROVE  /\ OpenTypeOK' /\ SchemaInv'
         /\ pc' \in [Procs -> Resting \cup Working] /\ pc'[p] = where
         /\ \A q \in Procs : q # p => pc'[q] = pc[q]
  <1>1. /\ pc' = [q \in Procs |-> pc'[q]] /\ pc'[p] = where
        /\ \A q \in Procs : q # p => pc'[q] = pc[q]
    BY GoOnly DEF EmbedInv, SchemaInv
  <1>2. OpenTypeOK' /\ SchemaInv'
    BY <1>1, SchemaKept DEF EmbedInv, TypeOK
  <1>3. pc' \in [Procs -> Resting \cup Working]
    BY DEF Go, EmbedInv, TypeOK, Resting, Working
  <1>q. QED BY <1>1, <1>2, <1>3

LEMMA BeginKeeps ==
  ASSUME EmbedInv, NEW p \in Procs, NEW m \in Models, Begin(p, m), UNCHANGED file
  PROVE  EmbedInv'
  <1>1. /\ Go(p, "read") /\ model' = [model EXCEPT ![p] = m] /\ alone' = {p}
        /\ vec' = [i \in Ids |-> IF vec[i] # NoVec /\ vec[i].model = m THEN vec[i] ELSE NoVec]
        /\ UNCHANGED <<row, next, batch, writes, hit>>
    BY DEF Begin
  <1>2. /\ OpenTypeOK' /\ SchemaInv' /\ pc' \in [Procs -> Resting \cup Working] /\ pc'[p] = "read"
    BY <1>1, PlaceKeeps
  <1>3. TypeOK'
    <2>1. vec' \in [Ids -> Vector \cup {NoVec}] /\ model' \in [Procs -> Models]
      BY <1>1 DEF EmbedInv, TypeOK, Vector
    <2>q. QED BY <1>1, <1>2, <2>1 DEF EmbedInv, TypeOK, Vector, Rows
  <1>4. BatchInv'
    BY <1>1 DEF EmbedInv, BatchInv, Rows
  <1>5. VectorsFit'
    BY <1>1 DEF EmbedInv, VectorsFit, Rows
  <1>6. FullyEmbedded'
    BY <1>1, <1>2 DEF FullyEmbedded
  <1>q. QED BY <1>2, <1>3, <1>4, <1>5, <1>6 DEF EmbedInv

LEMMA ReadKeeps ==
  ASSUME EmbedInv, NEW p \in Procs, ReadBatch(p), UNCHANGED file
  PROVE  EmbedInv'
  <1>1. row' = row /\ vec' = vec /\ UNCHANGED <<next, model, writes, hit, alone>>
    BY DEF ReadBatch, tables, aux
  <1>2. CASE Pending(p) = {} /\ Go(p, "done") /\ UNCHANGED batch
    <2>1. /\ OpenTypeOK' /\ SchemaInv' /\ pc' \in [Procs -> Resting \cup Working]
          /\ \A q \in Procs : q # p => pc'[q] = pc[q]
      BY <1>1, <1>2, PlaceKeeps
    <2>2. TypeOK'
      BY <1>1, <1>2, <2>1 DEF EmbedInv, TypeOK, Rows
    <2>3. BatchInv' /\ VectorsFit'
      BY <1>1, <1>2 DEF EmbedInv, BatchInv, VectorsFit, Rows
    <2>4. \A i \in Rows \ hit : vec[i] = [model |-> model[p], text |-> row[i].text]
      <3> SUFFICES ASSUME NEW i \in Rows, i \notin hit
                   PROVE  vec[i] = [model |-> model[p], text |-> row[i].text]
        OBVIOUS
      <3>1. vec[i] # NoVec /\ vec[i].model = model[p] /\ i \in Ids
        BY <1>2 DEF Pending, Rows
      <3>2. vec[i] \in Vector /\ vec[i].text = row[i].text
        BY <3>1, RowTypes DEF EmbedInv, VectorsFit
      <3>q. QED BY <3>1, <3>2 DEF Vector
    <2>5. FullyEmbedded'
      BY <1>1, <2>1, <2>4 DEF EmbedInv, FullyEmbedded, Rows
    <2>q. QED BY <2>1, <2>2, <2>3, <2>5 DEF EmbedInv
  <1>3. ASSUME NEW ids \in SUBSET Pending(p), Cardinality(ids) <= Batch,
               SetBatch(p, [i \in ids |-> row[i].text]), Go(p, "store")
        PROVE  EmbedInv'
    <2>1. /\ OpenTypeOK' /\ SchemaInv' /\ pc' \in [Procs -> Resting \cup Working]
          /\ pc'[p] = "store" /\ \A q \in Procs : q # p => pc'[q] = pc[q]
      BY <1>1, <1>3, PlaceKeeps
    <2>2. ids \subseteq Rows
      BY DEF Pending
    <2>3. /\ batch' = [q \in Procs |-> batch'[q]]
          /\ batch'[p] = [i \in ids |-> row[i].text]
          /\ \A q \in Procs : q # p => batch'[q] = batch[q]
      BY <1>3, BatchOf DEF EmbedInv, BatchInv
    <2>4. /\ DOMAIN batch'[p] = ids
          /\ \A i \in ids : batch'[p][i] = row[i].text /\ row[i].text \in Texts /\ i \in Ids
      BY <2>2, <2>3, RowTypes DEF EmbedInv
    <2>5. TypeOK'
      BY <1>1, <1>3, <2>1, <2>3, <2>4 DEF EmbedInv, TypeOK, Rows
    <2>6. BatchInv'
      <3>1. \A i \in DOMAIN batch'[p] : i \in Rows /\ row[i].text = batch'[p][i]
        BY <2>2, <2>4
      <3>2. \A q \in Procs : q # p =>
              \A i \in DOMAIN batch'[q] \ hit : i \in Rows /\ row[i].text = batch'[q][i]
        BY <2>3 DEF EmbedInv, BatchInv
      <3>q. QED BY <1>1, <2>3, <3>1, <3>2 DEF BatchInv, Rows
    <2>7. VectorsFit'
      BY <1>1 DEF EmbedInv, VectorsFit, Rows
    <2>8. FullyEmbedded'
      BY <1>1, <2>1 DEF EmbedInv, FullyEmbedded, Rows
    <2>q. QED BY <2>1, <2>5, <2>6, <2>7, <2>8 DEF EmbedInv
  <1>q. QED BY <1>2, <1>3 DEF ReadBatch

LEMMA StoreKeeps ==
  ASSUME EmbedInv, NEW p \in Procs, StoreBatch(p), UNCHANGED file
  PROVE  EmbedInv'
  <1>1. /\ vec' = [i \in Ids |-> IF i \in DOMAIN batch[p]
                                 THEN [model |-> model[p], text |-> batch[p][i]]
                                 ELSE vec[i]]
        /\ SetBatch(p, NoBatch) /\ Go(p, "read") /\ alone' = alone \cap {p}
        /\ UNCHANGED <<row, next, model, writes, hit>>
    BY DEF StoreBatch
  <1>2. /\ OpenTypeOK' /\ SchemaInv' /\ pc' \in [Procs -> Resting \cup Working]
        /\ pc'[p] = "read"
    BY <1>1, PlaceKeeps
  <1>3. /\ batch' = [q \in Procs |-> batch'[q]]
        /\ \A q \in Procs : \/ batch'[q] = batch[q]
                            \/ DOMAIN batch'[q] = {} /\ Cardinality(DOMAIN batch'[q]) <= Batch
    BY <1>1, BatchOf, NoBatchOK DEF EmbedInv, BatchInv
  <1>4. TypeOK'
    <2>1. vec' \in [Ids -> Vector \cup {NoVec}]
      BY <1>1 DEF EmbedInv, TypeOK, Vector
    <2>q. QED BY <1>1, <1>2, <1>3, <2>1 DEF EmbedInv, TypeOK, Vector, Rows
  <1>5. BatchInv'
    BY <1>1, <1>3 DEF EmbedInv, BatchInv, Rows
  <1>6. VectorsFit'
    <2>1. ASSUME NEW i \in Ids, i \notin hit, vec'[i] # NoVec
          PROVE  i \in Rows /\ vec'[i].text = row[i].text
      <3>1. CASE i \in DOMAIN batch[p]
        BY <1>1, <2>1, <3>1 DEF EmbedInv, BatchInv
      <3>2. CASE i \notin DOMAIN batch[p]
        BY <1>1, <2>1, <3>2 DEF EmbedInv, VectorsFit
      <3>q. QED BY <3>1, <3>2
    <2>q. QED BY <1>1, <2>1 DEF VectorsFit, Rows
  <1>7. FullyEmbedded'
    BY <1>1, <1>2 DEF FullyEmbedded
  <1>q. QED BY <1>2, <1>4, <1>5, <1>6, <1>7 DEF EmbedInv

LEMMA EmbedInit == Init => EmbedInv
  <1> SUFFICES ASSUME Init PROVE EmbedInv
    OBVIOUS
  <1>1. OpenTypeOK /\ SchemaInv
    BY OpenAssumption DEF Init, OpenInit, OpenTypeOK, SchemaInv, SchemaWhole
  <1>2. Rows = {} /\ \A p \in Procs : batch[p] = NoBatch
    BY DEF Init, Rows
  <1>3. TypeOK
    BY <1>1, <1>2, NoBatchOK, EmbeddingAssumption DEF Init, OpenInit, TypeOK, Resting
  <1>4. BatchInv
    BY <1>2, NoBatchOK DEF Init, BatchInv
  <1>q. QED BY <1>1, <1>3, <1>4 DEF Init, EmbedInv, VectorsFit, FullyEmbedded

LEMMA EmbedStep == EmbedInv /\ [Next]_vars => EmbedInv'
  <1> SUFFICES ASSUME EmbedInv, [Next]_vars PROVE EmbedInv'
    OBVIOUS
  <1>1. CASE UNCHANGED vars
    BY <1>1 DEF vars, file, tables, procs, aux, EmbedInv, TypeOK, OpenTypeOK, SchemaInv,
                SchemaWhole, BatchInv, VectorsFit, FullyEmbedded, Rows
  <1>2. ASSUME NEW p \in Procs, EmbedPending(p)
        PROVE  EmbedInv'
    BY <1>2, BeginKeeps, ReadKeeps, StoreKeeps DEF EmbedPending
  <1>q. QED BY <1>1, <1>2, OpenKeeps, StopKeeps, SyncKeeps DEF Next

LEMMA EmbedAlways == Spec => []EmbedInv
  BY EmbedInit, EmbedStep, PTL DEF Spec

\* Every state syncs and embeddings can bring the database to is well typed.
THEOREM TypeCorrect == Spec => []TypeOK
  BY EmbedAlways, PTL DEF EmbedInv

\* A database whose version says so has the whole schema.
THEOREM SchemaIsWhole == Spec => []SchemaWhole
  BY EmbedAlways, PTL DEF EmbedInv, SchemaInv

\* A vector is that of the text its message has, unless a sync wrote to the
\* message while a batch with it was at the model.
THEOREM VectorsAreRight == Spec => []VectorsFit
  BY EmbedAlways, PTL DEF EmbedInv

\* A run that ends undisturbed leaves no message without its vector, except for
\* those a sync wrote to while a batch with them was at the model.
THEOREM RunsEmbedAll == Spec => []FullyEmbedded
  BY EmbedAlways, PTL DEF EmbedInv
=============================================================================
