----------------------------- MODULE Embedding -----------------------------
(***************************************************************************)
(* EmbedPending (internal/index/embed.go): the last part of "mailotron     *)
(* index sync" asks a model for a vector of every message that has none,   *)
(* batch by batch, while other processes sync the same database or embed   *)
(* with another model.  A process may be killed, the model may fail, and a *)
(* write may find the database locked too long, between any two steps.     *)
(*                                                                         *)
(* What Sync does is its writes to table "messages" (see IndexSync): Put   *)
(* of one message, and the deletion of some.  They are taken one by one,   *)
(* in any order and at any time.  Row ids are modelled as SQLite hands     *)
(* them out: one more than the largest in use, so that the id of a deleted *)
(* message comes back.  The triggers of the schema are part of the writes. *)
(***************************************************************************)
EXTENDS IndexOpen

CONSTANTS
  Keys,       \* the <<folder, UID>> a message is indexed under
  Texts,      \* what docText gives for a message
  Models,     \* Embedder.Key(): model and dimensions
  Batch,      \* index.embedding.batch
  MaxId,      \* bound: row ids
  MaxWrites,  \* bound: writes of syncs
  NoRow,      \* no message under an id
  NoVec       \* no vector for an id

Ids == 1 .. MaxId

ASSUME EmbeddingAssumption ==
  /\ Batch \in Nat \ {0}
  /\ MaxId \in Nat /\ MaxWrites \in Nat
  /\ NoRow \notin [key : Keys, text : Texts]
  /\ NoVec \notin [model : Models, text : Texts]

VARIABLES
  row,        \* row[i]: table messages
  vec,        \* vec[i]: table embeddings; a vector is the text it was made of
  model,      \* model[p]: e.Key() of p's command
  batch,      \* batch[p]: the texts p has read, by id
  \* auxiliary
  writes,     \* writes made
  hit,        \* ids written to while a batch held them
  alone       \* processes whose EmbedPending nobody has disturbed so far

tables == <<row, vec>>
procs  == <<pc, next, model, batch>>
aux    == <<writes, hit, alone>>
vars   == <<file, tables, procs, aux>>

-----------------------------------------------------------------------------
Rows == {i \in Ids : row[i] # NoRow}

Resting == {"idle", "done", "refused"}
Working == {"schema", "open", "read", "store"}

NoBatch == [i \in {} |-> NoVec]

TypeOK ==
  /\ OpenTypeOK
  /\ pc \in [Procs -> Resting \cup Working]
  /\ row \in [Ids -> [key : Keys, text : Texts] \cup {NoRow}]
  /\ vec \in [Ids -> [model : Models, text : Texts] \cup {NoVec}]
  /\ \A i, j \in Rows : row[i].key = row[j].key => i = j
  /\ model \in [Procs -> Models]
  /\ \A p \in Procs : /\ DOMAIN batch[p] \subseteq Ids
                      /\ \A i \in DOMAIN batch[p] : batch[p][i] \in Texts
                      /\ Cardinality(DOMAIN batch[p]) <= Batch
  /\ writes \in 0 .. MaxWrites
  /\ hit \subseteq Ids
  /\ alone \subseteq Procs

Init ==
  /\ OpenInit
  /\ row = [i \in Ids |-> NoRow]
  /\ vec = [i \in Ids |-> NoVec]
  /\ \E m \in Models : model = [p \in Procs |-> m]
  /\ batch = [p \in Procs |-> NoBatch]
  /\ writes = 0 /\ hit = {} /\ alone = {}

-----------------------------------------------------------------------------
(***************************************************************************)
(* The writes of a sync, by a process not modelled further.                *)
(***************************************************************************)
\* The rows of ids are written, and lose their vectors if "clear" says so.
Written(ids, clear) ==
  /\ version = SchemaVersion
  /\ writes < MaxWrites
  /\ writes' = writes + 1
  /\ vec' = [i \in Ids |-> IF i \in ids /\ clear THEN NoVec ELSE vec[i]]
  /\ hit' = (IF clear THEN hit \ ids ELSE hit)
             \cup {i \in ids : \E p \in Procs : i \in DOMAIN batch[p]}
  /\ alone' = {}
  /\ UNCHANGED <<file, procs>>

\* SQLite's next row id.
NextId == IF Rows = {} THEN 1 ELSE 1 + CHOOSE i \in Rows : \A j \in Rows : j <= i

\* Seeded fault: the conflict with an indexed message is not noticed.
InsertAnyway(k, t) ==
  /\ NextId \in Ids
  /\ row' = [row EXCEPT ![NextId] = [key |-> k, text |-> t]]
  /\ Written({NextId}, FALSE)

\* INSERT: no trigger concerns the vectors.
Insert(k, t) ==
  /\ \A i \in Rows : row[i].key # k
  /\ NextId \in Ids
  /\ row' = [row EXCEPT ![NextId] = [key |-> k, text |-> t]]
  /\ Written({NextId}, FALSE)

\* Seeded fault: no trigger on UPDATE removes the vector.
UpdateKeepsVector(k, t) ==
  \E i \in Rows :
    /\ row[i].key = k
    /\ row' = [row EXCEPT ![i].text = t]
    /\ Written({i}, FALSE)

\* ON CONFLICT DO UPDATE: the row keeps its id, messages_au fires.
Update(k, t) ==
  \E i \in Rows :
    /\ row[i].key = k
    /\ row' = [row EXCEPT ![i].text = t]
    /\ Written({i}, TRUE)

Put(k, t) == Insert(k, t) \/ Update(k, t)

\* Delete, ResetFolder and PruneFolders: messages_ad_embedding fires for each.
Remove(keys) ==
  LET ids == {i \in Rows : row[i].key \in keys}
  IN  /\ ids # {}
      /\ row' = [i \in Ids |-> IF i \in ids THEN NoRow ELSE row[i]]
      /\ Written(ids, TRUE)

SyncWrite ==
  \/ \E k \in Keys, t \in Texts : Put(k, t)
  \/ \E keys \in SUBSET Keys : Remove(keys)

-----------------------------------------------------------------------------
(***************************************************************************)
(* EmbedPending.                                                           *)
(***************************************************************************)
SetBatch(p, b) == batch' = [batch EXCEPT ![p] = b]

\* The vectors of other models go.
Begin(p, m) ==
  /\ pc[p] = "open"
  /\ Go(p, "read")
  /\ model' = [model EXCEPT ![p] = m]
  /\ vec' = [i \in Ids |-> IF vec[i] # NoVec /\ vec[i].model = m THEN vec[i] ELSE NoVec]
  /\ alone' = {p}
  /\ UNCHANGED <<row, next, batch, writes, hit>>

\* Seeded fault: the join forgets which messages have their vector.
PendingAll(p) == Rows

\* The messages without a vector of p's model.
Pending(p) == {i \in Rows : vec[i] = NoVec \/ vec[i].model # model[p]}

\* The next batch (by date, which is not modelled), or the end.
ReadBatch(p) ==
  /\ pc[p] = "read"
  /\ IF Pending(p) = {}
     THEN Go(p, "done") /\ UNCHANGED batch
     ELSE \E ids \in SUBSET Pending(p) :
            /\ ids # {} /\ Cardinality(ids) <= Batch
            /\ Cardinality(ids) < Batch => ids = Pending(p)
            /\ SetBatch(p, [i \in ids |-> row[i].text])
            /\ Go(p, "store")
  /\ UNCHANGED <<tables, next, model, aux>>

\* Seeded fault: one batch, and the run is over.
StoreOnce(p) ==
  /\ pc[p] = "store"
  /\ vec' = [i \in Ids |-> IF i \in DOMAIN batch[p]
                           THEN [model |-> model[p], text |-> batch[p][i]]
                           ELSE vec[i]]
  /\ SetBatch(p, NoBatch)
  /\ Go(p, "done")
  /\ alone' = alone \cap {p}
  /\ UNCHANGED <<row, next, model, writes, hit>>

\* The model has answered: INSERT OR REPLACE in one transaction, whatever has
\* become of the messages.
StoreBatch(p) ==
  /\ pc[p] = "store"
  /\ vec' = [i \in Ids |-> IF i \in DOMAIN batch[p]
                           THEN [model |-> model[p], text |-> batch[p][i]]
                           ELSE vec[i]]
  /\ SetBatch(p, NoBatch)
  /\ Go(p, "read")
  /\ alone' = alone \cap {p}
  /\ UNCHANGED <<row, next, model, writes, hit>>

EmbedPending(p) ==
  /\ (\E m \in Models : Begin(p, m)) \/ ReadBatch(p) \/ StoreBatch(p)
  /\ UNCHANGED file

OpenStep(p) ==
  /\ Open(p, Resting) \/ migrate(p)
  /\ alone' = alone \ {p}
  /\ UNCHANGED <<tables, model, batch, writes, hit>>

\* The process is killed, the model fails, or the database is locked too long.
Stop(p) ==
  /\ pc[p] \in Working
  /\ Go(p, "idle")
  /\ SetBatch(p, NoBatch)
  /\ alone' = alone \ {p}
  /\ UNCHANGED <<file, tables, next, model, writes, hit>>

Next ==
  \/ \E p \in Procs : OpenStep(p) \/ EmbedPending(p) \/ Stop(p)
  \/ SyncWrite

Spec == Init /\ [][Next]_vars

\* A command that has begun goes on: the client gives up on the model after
\* five minutes (embed.go:44), and nothing else can keep it waiting for long.
FairSpec == Spec /\ \A p \in Procs : WF_vars(EmbedPending(p)) /\ WF_vars(migrate(p) /\ OpenStep(p))

-----------------------------------------------------------------------------
(***************************************************************************)
(* Properties.                                                             *)
(***************************************************************************)
\* Semantic search ranks a message by a vector of the text it shows, and no
\* vector is left without its message, through any interleaving of syncs and
\* embeddings, crashes and re-used row ids; except for the messages a sync
\* wrote to while a batch with them was at the model.
VectorsFit ==
  \A i \in Ids \ hit : vec[i] # NoVec => i \in Rows /\ vec[i].text = row[i].text

\* When index sync ends and nobody disturbed its EmbedPending, every message
\* has a vector of the configured model, of its own text: also after crashes,
\* a change of the model, and texts that sync replaced.
FullyEmbedded ==
  \A p \in Procs : pc[p] = "done" /\ p \in alone =>
    \A i \in Rows \ hit : vec[i] = [model |-> model[p], text |-> row[i].text]

\* Every index sync comes to its end, as long as no two embed with different
\* models at a time: those would undo each other's work for ever.
OneModel ==
  \A p, q \in Procs : {pc[p], pc[q]} \subseteq {"read", "store"} => model[p] = model[q]
EmbedEnds ==
  []OneModel => \A p \in Procs : pc[p] \in Working ~> pc[p] \in Resting
=============================================================================
