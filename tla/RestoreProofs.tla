---------------------------- MODULE RestoreProofs ----------------------------
(***************************************************************************)
(* Proofs about restore: type correctness, that no run makes a second copy *)
(* of a message (NoDuplicates), that a finished one has left none out      *)
(* (Complete), and that a dry run announces no less than a real one would  *)
(* append, and no more either where the backup is intact (DryRunHonest).   *)
(***************************************************************************)
EXTENDS Restore, FiniteSetTheorems, TLAPS

LEMMA ArchiveType ==
  ASSUME NEW a \in Archives
  PROVE  /\ a.refs \subseteq Folders
         /\ a.entries \in [Folders -> Seq(Entry)]
BY RestoreAssumption DEF ArchiveDirs

\* What TypeOK says of the folder being restored and of its next entry.
LEMMA CurrentEntry ==
  ASSUME TypeOK
  PROVE  /\ Chosen \subseteq Folders
         /\ pc \in InFolder => cur \in Folders /\ cur # NoFolder
         /\ \A f \in Folders : Entries(f) \in Seq(Entry)
         /\ AtEntry => /\ pos \in DOMAIN Entries(cur) /\ Mid \in Ids
                       /\ Mid \in ArrivesAs /\ ArrivesAs \subseteq {Mid, NoMid}
<1>1. Chosen \subseteq Folders
  BY ArchiveType DEF TypeOK, Chosen
<1>2. \A f \in Folders : Entries(f) \in Seq(Entry)
  BY ArchiveType DEF TypeOK, Entries
<1>3. pc \in InFolder => cur \in Folders /\ cur # NoFolder
  BY <1>1, RestoreAssumption DEF TypeOK, RunOK
<1>4. ASSUME AtEntry
      PROVE  /\ pos \in DOMAIN Entries(cur) /\ Mid \in Ids
             /\ Mid \in ArrivesAs /\ ArrivesAs \subseteq {Mid, NoMid}
  <2>1. cur \in Folders
    BY <1>3, <1>4 DEF AtEntry, InFolder
  <2>2. pos \in 1 .. Len(Entries(cur))
    BY <1>2, <1>4, <2>1 DEF AtEntry, TypeOK, RunOK
  <2>3. Entries(cur)[pos] \in Entry
    BY <1>2, <2>1, <2>2
  <2> QED BY <1>2, <2>1, <2>2, <2>3 DEF Mid, Entry, ArrivesAs
<1> QED BY <1>1, <1>2, <1>3, <1>4

LEMMA HaltType ==
  ASSUME TypeOK, Halt, pc' \in {"failed", "stopped"}
  PROVE  archive' \in Archives /\ RunOK'
BY DEF TypeOK, RunOK, Halt, ForgetFolder, Resting, Working, InFolder, Chosen,
       Entries, history

\* A stored copy keeps the mailbox well formed.
LEMMA StoreType ==
  ASSUME MailboxOK, NEW f \in exists, NEW m \in Ids, Store(f, m),
         UNCHANGED exists
  PROVE  MailboxOK'
BY DEF MailboxOK, Store, More, Copies, Empty

\* What the target holds of an appended entry.
LEMMA AppendStores ==
  ASSUME TypeOK, Appended
  PROVE  \E id \in ArrivesAs : id \in Ids /\ id \in {Mid, NoMid} /\ Store(cur, id)
BY CurrentEntry DEF Appended, Ids

\* Every step keeps the types.
LEMMA TypeStep ==
  ASSUME TypeOK, [Next]_vars
  PROVE  TypeOK'
<1> USE CurrentEntry DEF TypeOK
<1>m. UNCHANGED mailbox => MailboxOK'
  BY DEF mailbox, MailboxOK
<1>1. ASSUME NEW d \in BOOLEAN, NEW w \in Scopes, Start(d, w)
      PROVE  TypeOK'
  BY <1>1, <1>m, RestoreAssumption
     DEF Start, RunOK, Resting, Working, InFolder, Chosen
<1>2. CASE ReadManifest
  BY <1>2, <1>m DEF ReadManifest, RunOK, Resting, Working, InFolder, Chosen,
                    history
<1>3. ASSUME NEW f \in Folders, OpenFolder(f)
      PROVE  TypeOK'
  BY <1>3, <1>m, RestoreAssumption
     DEF OpenFolder, Rest, RunOK, Resting, Working, InFolder, Chosen, history
<1>4. CASE EnsureFolder
  BY <1>4, <1>m DEF EnsureFolder, RunOK, Resting, Working, InFolder, Chosen,
                    history
<1>5. CASE CreateFolder
  <2>1. MailboxOK'
    BY <1>5 DEF CreateFolder, MailboxOK, InFolder
  <2> QED BY <1>5, <2>1 DEF CreateFolder, RunOK, Resting, Working, InFolder,
                            Chosen, history
<1>6. CASE MessageIDIndex \/ MessageIDIndexBlind
  <2>1. UNCHANGED <<mailbox, archive, cur, pos>> /\ existing' \subseteq Mids
    BY <1>6 DEF MessageIDIndex, MessageIDIndexBlind, MessageIDs, Present
  <2>2. Len(Entries(cur)) \in Nat
    BY <1>6 DEF MessageIDIndex, MessageIDIndexBlind, InFolder
  <2> QED BY <1>6, <1>m, <2>1, <2>2
          DEF MessageIDIndex, MessageIDIndexBlind, RunOK, Resting, Working,
              InFolder, Chosen, Entries
<1>7. CASE Skip \/ CountOnly \/ AppendEntry
  <2>1. cur \in Folders /\ cur # NoFolder /\ pos \in 1 .. Len(Entries(cur))
    BY <1>7 DEF Skip, CountOnly, AppendEntry, Appended, AtEntry, InFolder
  <2>2. MailboxOK'
    <3>1. CASE UNCHANGED mailbox
      BY <3>1, <1>m
    <3>2. CASE AppendEntry
      BY <3>2, StoreType, AppendStores DEF AppendEntry, Appended
    <3> QED BY <1>7, <3>1, <3>2 DEF Skip, CountOnly
  <2>3. existing' \subseteq Mids
    BY <1>7 DEF Skip, CountOnly, AppendEntry, Appended, Noted, RunOK, Ids
  <2>4. report' \in [Folders -> Nat]
    BY <1>7, <2>1 DEF Skip, CountOnly, AppendEntry, RunOK
  <2>5. /\ UNCHANGED <<archive, pc, dry, want, queue, cur, history>>
        /\ pc = "entries" /\ pos <= Len(Entries(cur)) /\ pos' = pos + 1
    BY <1>7 DEF Skip, CountOnly, AppendEntry, Appended, AtEntry
  <2> QED BY <2>1, <2>2, <2>3, <2>4, <2>5
          DEF RunOK, Resting, Working, InFolder, Chosen, Entries, history
<1>8. CASE FolderDone
  BY <1>8, <1>m DEF FolderDone, ForgetFolder, RunOK, Resting, Working,
                    InFolder, Chosen, Entries, history
<1>9. CASE Finish
  BY <1>9, <1>m DEF Finish, RunOK, Resting, Working, InFolder, Chosen, Entries,
                    history
<1>10. CASE Fail \/ Stop
  BY <1>10, <1>m, HaltType DEF Fail, Stop
<1>11. CASE AppendUnanswered
  BY <1>11, HaltType, StoreType, AppendStores DEF AppendUnanswered, Appended
<1>12. ASSUME NEW f \in Folders, Other(f)
       PROVE  TypeOK'
  <2>1. MailboxOK'
    <3>1. ASSUME NEW m \in Ids, PutMessage(f, m)
          PROVE  MailboxOK'
      BY <3>1, StoreType DEF PutMessage
    <3>2. ASSUME NEW m \in Ids, RemoveMessage(f, m)
          PROVE  MailboxOK'
      <4>1. f \in exists
        BY <3>2 DEF RemoveMessage, MailboxOK, Empty
      <4> QED BY <3>2, <4>1 DEF RemoveMessage, MailboxOK, Copies
    <3>3. CASE MakeFolder(f)
      BY <3>3 DEF MakeFolder, MailboxOK
    <3>4. CASE DropFolder(f)
      <4>1. box' = [box EXCEPT ![f] = Empty] /\ exists' = exists \ {f}
        BY <3>4 DEF DropFolder
      <4>2. Empty \in [Ids -> Copies]
        BY DEF Empty, Copies
      <4> QED BY <4>1, <4>2 DEF MailboxOK
    <3> QED BY <1>12, <3>1, <3>2, <3>3, <3>4 DEF Other
  <2> QED BY <1>12, <2>1 DEF Other, ofRun, RunOK, Chosen, Entries
<1>13. CASE UNCHANGED vars
  BY <1>13, <1>m DEF vars, ofRun, history, RunOK, Chosen, Entries
<1> QED BY <1>1, <1>2, <1>3, <1>4, <1>5, <1>6, <1>7, <1>8, <1>9, <1>10, <1>11,
           <1>12, <1>13 DEF Next, RunStep

LEMMA InitType ==
  ASSUME Init
  PROVE  TypeOK
<1>1. MailboxOK
  BY DEF Init, MailboxOK, Copies, Empty
<1>2. pos \in Nat \ {0} /\ report \in [Folders -> Nat]
  BY DEF Init
<1>3. dry \in BOOLEAN /\ cur = NoFolder /\ pc = "idle"
  BY DEF Init
<1>4. RunOK
  BY <1>2, <1>3, Zenon DEF Init, RunOK, Resting, InFolder
<1> QED BY <1>1, <1>4 DEF Init, TypeOK

\* Every reachable state is well typed, for any backup directories, folders
\* and Message-IDs.
THEOREM TypeCorrect == Spec => []TypeOK
<1>1. Init => TypeOK
  BY InitType
<1>2. TypeOK /\ [Next]_vars => TypeOK'
  BY TypeStep
<1> QED BY <1>1, <1>2, PTL DEF Spec

-----------------------------------------------------------------------------
(***************************************************************************)
(* NoDuplicates.  What MessageIDIndex read, together with what the run has *)
(* appended since, contains every Message-ID of the target that nobody else*)
(* may put there: others only take such messages away.                     *)
(***************************************************************************)
Ours(f, m) == m \in Mids /\ <<f, m>> \notin Foreign

Known ==
  pc = "entries" /\ cur \notin blind =>
    \A m \in Mids : Ours(cur, m) /\ box[cur][m] > 0 => m \in existing

DupInv == TypeOK /\ NoDuplicates /\ Known

\* Others do not add a copy of a message that is ours.
LEMMA OthersTake ==
  ASSUME TypeOK, NEW g \in Folders, Other(g), NEW f \in Folders, NEW m \in Mids,
         Ours(f, m)
  PROVE  box'[f][m] <= box[f][m]
<1> USE DEF TypeOK, MailboxOK, Copies, Ids
<1>1. ASSUME NEW k \in Ids, PutMessage(g, k)
      PROVE  box'[f][m] <= box[f][m]
  <2>1. <<g, k>> # <<f, m>>
    BY <1>1 DEF PutMessage, Ours
  <2> QED BY <1>1, <2>1 DEF PutMessage, Store
<1>2. ASSUME NEW k \in Ids, RemoveMessage(g, k)
      PROVE  box'[f][m] <= box[f][m]
  BY <1>2 DEF RemoveMessage
<1>3. CASE MakeFolder(g) \/ DropFolder(g)
  BY <1>3 DEF MakeFolder, DropFolder, Empty
<1> QED BY <1>1, <1>2, <1>3 DEF Other

\* An APPEND makes the first copy.
LEMMA AppendFirst ==
  ASSUME DupInv, Appended, blind' = blind
  PROVE  NoDuplicates'
<1> USE CurrentEntry DEF DupInv
<1>1. cur \in Folders /\ Mid \in Ids /\ pc = "entries"
  BY DEF Appended, AtEntry, InFolder
<1> SUFFICES ASSUME NEW f \in Folders \ blind, NEW m \in Mids,
                    <<f, m>> \notin Foreign
             PROVE  box'[f][m] <= 1
  BY DEF NoDuplicates
<1>2. m \in Ids /\ box \in [Folders -> [Ids -> Copies]]
  BY DEF Ids, TypeOK, MailboxOK
<1>s. PICK id \in {Mid, NoMid} : Store(cur, id)
  BY AppendStores
<1>3. CASE f = cur /\ m = Mid
  <2>1. m \notin existing
    BY <1>3, RestoreAssumption DEF Appended, Skippable
  <2>2. ~(box[cur][m] > 0)
    BY <1>1, <1>3, <2>1 DEF Known, Ours
  <2>3. box[cur][m] = 0
    BY <1>1, <1>2, <1>3, <2>2 DEF Copies
  <2> QED BY <1>1, <1>2, <1>3, <1>s, <2>3 DEF Store, More
<1>4. CASE ~(f = cur /\ m = Mid)
  <2>1. ~(f = cur /\ m = id)
    BY <1>4, <1>s, RestoreAssumption
  <2>2. box'[f][m] = box[f][m]
    BY <1>1, <1>2, <1>s, <2>1 DEF Store
  <2> QED BY <2>2 DEF NoDuplicates
<1> QED BY <1>3, <1>4

LEMMA DupStep ==
  ASSUME DupInv, [Next]_vars
  PROVE  DupInv'
<1> USE DEF DupInv
<1>t. TypeOK'
  BY TypeStep
<1>c. pc \in InFolder => cur \in Folders
  BY CurrentEntry
<1>2. ASSUME CreateFolder \/ FolderDone \/ Finish \/ Fail \/ Stop \/ ReadManifest
               \/ EnsureFolder \/ (\E f \in Folders : OpenFolder(f))
               \/ (\E d \in BOOLEAN, w \in Scopes : Start(d, w))
      PROVE  DupInv'
  BY <1>2, <1>t
     DEF CreateFolder, FolderDone, Finish, Fail, Stop, Halt, ReadManifest,
         EnsureFolder, OpenFolder, Start, mailbox, history, NoDuplicates, Known
<1>3. CASE MessageIDIndex
  <2> USE <1>3, <1>c DEF MessageIDIndex
  <2>1. cur \notin exists => box[cur] = Empty
    BY DEF TypeOK, MailboxOK, InFolder
  <2>2. Known'
    BY <2>1 DEF mailbox, Known, MessageIDs, Present, Empty, Ids
  <2> QED BY <1>t, <2>2 DEF mailbox, NoDuplicates
<1>4. CASE MessageIDIndexBlind
  BY <1>4, <1>t DEF MessageIDIndexBlind, mailbox, NoDuplicates, Known
<1>5. CASE Skip \/ CountOnly
  BY <1>5, <1>t DEF Skip, CountOnly, mailbox, history, NoDuplicates, Known,
                    Ours
<1>6. CASE AppendEntry
  <2>1. NoDuplicates'
    BY <1>6, AppendFirst DEF AppendEntry, history
  <2>2. Known'
    <3> SUFFICES ASSUME cur \notin blind, NEW m \in Mids, Ours(cur, m),
                        box'[cur][m] > 0
                 PROVE  m \in existing'
      BY <1>6 DEF Known, AppendEntry, history, Ours
    <3>1. CASE m = Mid
      BY <1>6, <3>1, RestoreAssumption DEF AppendEntry, Noted
    <3>2. CASE m # Mid
      <4>1. cur \in Folders /\ m \in Ids /\ pc = "entries"
        BY <1>6, <1>c DEF AppendEntry, Appended, AtEntry, InFolder, Ids
      <4>2. box'[cur][m] = box[cur][m]
        <5>1. PICK id \in {Mid, NoMid} : Store(cur, id)
          BY <1>6, AppendStores DEF AppendEntry
        <5> QED BY <3>2, <4>1, <5>1, RestoreAssumption DEF Store, TypeOK, MailboxOK
      <4>3. m \in existing
        BY <4>1, <4>2 DEF Known
      <4> QED BY <1>6, <4>3 DEF AppendEntry, Noted
    <3> QED BY <3>1, <3>2
  <2> QED BY <1>t, <2>1, <2>2
<1>7. CASE AppendUnanswered
  <2>1. NoDuplicates'
    BY <1>7, AppendFirst DEF AppendUnanswered, Halt, history
  <2> QED BY <1>7, <1>t, <2>1 DEF AppendUnanswered, Known
<1>8. ASSUME NEW g \in Folders, Other(g)
      PROVE  DupInv'
  <2>1. UNCHANGED <<pc, cur, existing, blind>>
    BY <1>8 DEF Other, ofRun
  <2>2. box \in [Folders -> [Ids -> Copies]] /\ box' \in [Folders -> [Ids -> Copies]]
    BY <1>t DEF TypeOK, MailboxOK
  <2>3. NoDuplicates'
    <3> SUFFICES ASSUME NEW f \in Folders \ blind, NEW m \in Mids,
                        <<f, m>> \notin Foreign
                 PROVE  box'[f][m] <= 1
      BY <2>1 DEF NoDuplicates
    <3>1. box[f][m] <= 1 /\ box'[f][m] <= box[f][m]
      BY <1>8, OthersTake DEF Ours, NoDuplicates
    <3> QED BY <2>2, <3>1 DEF Ids, Copies
  <2>4. Known'
    <3> SUFFICES ASSUME pc = "entries", cur \notin blind, NEW m \in Mids,
                        Ours(cur, m), box'[cur][m] > 0
                 PROVE  m \in existing
      BY <2>1 DEF Known, Ours
    <3>1. cur \in Folders
      BY <1>c DEF InFolder
    <3>2. box'[cur][m] <= box[cur][m]
      BY <1>8, <3>1, OthersTake
    <3> QED BY <2>2, <3>1, <3>2 DEF Known, Ids, Copies
  <2> QED BY <1>t, <2>3, <2>4
<1>9. CASE UNCHANGED vars
  BY <1>9, <1>t DEF vars, mailbox, ofRun, history, NoDuplicates, Known, Ours
<1> QED BY <1>2, <1>3, <1>4, <1>5, <1>6, <1>7, <1>8, <1>9 DEF Next, RunStep

\* However many runs there were and wherever they were cut off, restore never
\* makes a second copy of a message with a Message-ID, in a folder it could
\* read and to which nobody else adds that message.
THEOREM NoSecondCopy == Spec => []NoDuplicates
<1>1. Init => DupInv
  <2>1. ASSUME Init
        PROVE  TypeOK
    BY <2>1, InitType
  <2>2. Init => NoDuplicates /\ Known
    BY DEF Init, NoDuplicates, Known, Empty, Ids
  <2> QED BY <2>1, <2>2 DEF DupInv
<1>2. DupInv /\ [Next]_vars => DupInv'
  BY DupStep
<1>3. DupInv => NoDuplicates
  BY DEF DupInv
<1> QED BY <1>1, <1>2, <1>3, PTL DEF Spec

-----------------------------------------------------------------------------
(***************************************************************************)
(* Complete.  The entries a run has passed have their copies in the target *)
(* as long as nobody else changed it since the run read it: HeldTo says so *)
(* of the first k entries of f.                                            *)
(***************************************************************************)
HeldTo(f, k) ==
  /\ \A i \in 1 .. k : There(f, Entries(f)[i].mid)
  /\ \A i, j \in 1 .. k :
       i # j /\ Entries(f)[i].mid = NoMid /\ Entries(f)[j].mid = NoMid
         => box[f][NoMid] = 2

Passed == {"next", "ensure", "create", "read", "entries", "done"}

\* The folders behind the run.
FoldersHeld ==
  pc \in Passed /\ ~dry =>
    \A f \in (Chosen \cap calm) \ queue :
      f # cur => HeldTo(f, Len(Entries(f)))

\* The entries behind it in the folder it is in.
EntriesHeld ==
  pc = "entries" /\ ~dry /\ cur \in calm =>
    HeldTo(cur, pos - 1) /\ \A m \in existing : There(cur, m)

DoneInv == TypeOK /\ FoldersHeld /\ EntriesHeld

LEMMA HeldSame ==
  ASSUME NEW f, NEW k, box'[f] = box[f], archive' = archive, HeldTo(f, k)
  PROVE  HeldTo(f, k)'
BY DEF HeldTo, There, Damaged, Entries

\* What was held stays held where the step changes neither the target folder
\* nor what the run has to do there.
LEMMA FoldersStay ==
  ASSUME FoldersHeld, NEW S, UNCHANGED <<archive, want, dry>>,
         calm' \subseteq calm \cup S, pc \in Passed \/ queue' = Chosen,
         \A f \in (Chosen \cap calm') \ queue' :
           f # cur' => f \notin queue /\ f # cur /\ f \notin S /\ box'[f] = box[f]
  PROVE  FoldersHeld'
<1>1. Chosen' = Chosen
  BY DEF Chosen
<1> SUFFICES ASSUME pc' \in Passed, ~dry, NEW f \in (Chosen \cap calm') \ queue',
                    f # cur'
             PROVE  HeldTo(f, Len(Entries(f)))'
  BY <1>1 DEF FoldersHeld
<1>2. HeldTo(f, Len(Entries(f)))
  BY DEF FoldersHeld
<1>3. Entries(f)' = Entries(f)
  BY DEF Entries
<1> QED BY <1>2, <1>3, HeldSame

\* A further copy in f's target leaves there what was.
LEMMA StoreKeeps ==
  ASSUME TypeOK, NEW f \in Folders, NEW id \in Ids, Store(f, id)
  PROVE  /\ \A m \in Ids : There(f, m) =>
              box'[f][m] > 0 \/ (m \in Damaged(f) /\ box'[f][NoMid] > 0)
         /\ box'[f][id] > 0
         /\ id = NoMid /\ box[f][NoMid] > 0 => box'[f][NoMid] = 2
         /\ box[f][NoMid] = 2 => box'[f][NoMid] = 2
<1>1. box \in [Folders -> [Ids -> Copies]] /\ NoMid \in Ids
  BY DEF TypeOK, MailboxOK, Ids
<1>2. \A m \in Ids : /\ box[f][m] \in Copies
                     /\ box'[f][m] = IF m = id THEN More(box[f][m]) ELSE box[f][m]
  BY <1>1 DEF Store
<1>3. \A m \in Ids : box[f][m] > 0 => box'[f][m] > 0
  BY <1>2 DEF Copies, More
<1>4. \A m \in Ids : There(f, m) =>
        box'[f][m] > 0 \/ (m \in Damaged(f) /\ box'[f][NoMid] > 0)
  BY <1>1, <1>3 DEF There
<1>5. box'[f][id] > 0
  BY <1>2 DEF Copies, More
<1>6. box[f][NoMid] > 0 /\ id = NoMid => box'[f][NoMid] = 2
  BY <1>1, <1>2 DEF Copies, More
<1>7. box[f][NoMid] = 2 => box'[f][NoMid] = 2
  BY <1>1, <1>2 DEF Copies, More
<1> QED BY <1>4, <1>5, <1>6, <1>7

\* One entry further, in the folder the run is in.
LEMMA EntryStep ==
  ASSUME DoneInv, Skip \/ AppendEntry, cur \in calm, ~dry
  PROVE  HeldTo(cur, pos - 1)' /\ \A m \in existing' : There(cur, m)'
<1> USE CurrentEntry DEF DoneInv
<1> DEFINE mid(i)  == Entries(cur)[i].mid
           left(m) == box'[cur][m] > 0 \/ (m \in Damaged(cur) /\ box'[cur][NoMid] > 0)
<1>1. /\ cur \in Folders /\ pc = "entries" /\ Mid \in Ids /\ pos \in Nat \ {0}
      /\ pos' = pos + 1 /\ cur' = cur /\ archive' = archive
      /\ pos \in DOMAIN Entries(cur)
  BY DEF Skip, AppendEntry, Appended, AtEntry, InFolder, TypeOK, RunOK
<1>2. /\ \A i \in 1 .. pos - 1 : There(cur, mid(i))
      /\ \A i, j \in 1 .. pos - 1 :
           i # j /\ mid(i) = NoMid /\ mid(j) = NoMid => box[cur][NoMid] = 2
      /\ \A m \in existing : There(cur, m)
  BY <1>1 DEF EntriesHeld, HeldTo
<1>3. existing \subseteq Ids
  BY DEF TypeOK, RunOK, Ids
<1>i. \A i \in 1 .. pos : i = pos \/ i \in 1 .. pos - 1
  BY <1>1
<1>p. mid(pos) = Mid
  BY DEF Mid
<1>e. Entries(cur)' = Entries(cur)
  BY <1>1 DEF Entries
<1>a. \A i \in 1 .. pos : mid(i) \in Ids
  <2>1. pos <= Len(Entries(cur))
    BY <1>1
  <2>2. \A i \in 1 .. pos : Entries(cur)[i] \in Entry
    BY <1>1, <2>1
  <2> QED BY <2>2 DEF Entry
<1> HIDE DEF mid, left
<1>4. ASSUME Skip
      PROVE  /\ \A i \in 1 .. pos : left(mid(i))
             /\ \A i, j \in 1 .. pos :
                  i # j /\ mid(i) = NoMid /\ mid(j) = NoMid => box'[cur][NoMid] = 2
             /\ \A m \in existing' : left(m)
  <2>1. box' = box /\ existing' = existing /\ Mid # NoMid /\ Mid \in existing
    BY <1>4 DEF Skip, Skippable, mailbox
  <2>2. \A m : There(cur, m) => left(m)
    BY <2>1 DEF There, left
  <2>3. \A i \in 1 .. pos : There(cur, mid(i))
    BY <1>2, <1>i, <1>p, <2>1
  <2>4. \A i, j \in 1 .. pos :
          i # j /\ mid(i) = NoMid /\ mid(j) = NoMid => box'[cur][NoMid] = 2
    BY <1>2, <1>i, <1>p, <2>1
  <2> QED BY <1>2, <2>1, <2>2, <2>3, <2>4
<1>5. ASSUME AppendEntry
      PROVE  /\ \A i \in 1 .. pos : left(mid(i))
             /\ \A i, j \in 1 .. pos :
                  i # j /\ mid(i) = NoMid /\ mid(j) = NoMid => box'[cur][NoMid] = 2
             /\ \A m \in existing' : left(m)
  <2>1. PICK id \in ArrivesAs : id \in Ids /\ id \in {Mid, NoMid} /\ Store(cur, id)
    BY <1>5, AppendStores DEF AppendEntry
  <2>2. /\ \A m \in Ids : There(cur, m) => left(m)
        /\ box'[cur][id] > 0
        /\ id = NoMid /\ box[cur][NoMid] > 0 => box'[cur][NoMid] = 2
        /\ box[cur][NoMid] = 2 => box'[cur][NoMid] = 2
    BY <1>1, <2>1, StoreKeeps DEF left
\* A torn entry that arrived without its Message-ID is damaged.
  <2>3. left(Mid)
    <3>1. CASE id = Mid
      BY <2>2, <3>1 DEF left
    <3>2. CASE id # Mid
      <4>1. Entries(cur)[pos].file = "torn" /\ id = NoMid
        BY <2>1, <3>2 DEF ArrivesAs
      <4>2. Mid \in Damaged(cur)
        BY <1>1, <4>1 DEF Damaged, Mid
      <4> QED BY <2>2, <4>1, <4>2 DEF left
    <3> QED BY <3>1, <3>2
  <2>4. \A i \in 1 .. pos : left(mid(i))
    <3>1. ASSUME NEW i \in 1 .. pos PROVE left(mid(i))
      BY <1>2, <1>i, <1>p, <1>a, <2>2, <2>3
    <3> QED BY <3>1
  <2>5. ASSUME NEW i \in 1 .. pos, NEW j \in 1 .. pos, i # j,
               mid(i) = NoMid, mid(j) = NoMid
        PROVE  box'[cur][NoMid] = 2
    <3>1. CASE i \in 1 .. pos - 1 /\ j \in 1 .. pos - 1
      BY <1>2, <2>2, <2>5, <3>1
    <3>2. CASE i = pos \/ j = pos
      <4>1. Mid = NoMid /\ There(cur, NoMid)
        BY <1>2, <1>i, <1>p, <2>5, <3>2
      <4>2. id = NoMid /\ box[cur][NoMid] > 0
        BY <2>1, <4>1 DEF There
      <4> QED BY <2>2, <4>2
    <3> QED BY <1>i, <3>1, <3>2
  <2>6. ASSUME NEW m \in existing' PROVE left(m)
    <3>1. m \in existing \/ m = Mid
      BY <1>5, <2>6 DEF AppendEntry, Noted
    <3> QED BY <1>2, <1>3, <2>2, <2>3, <3>1
  <2> QED BY <2>4, <2>5, <2>6
<1>6. /\ \A i \in 1 .. pos : left(mid(i))
      /\ \A i, j \in 1 .. pos :
           i # j /\ mid(i) = NoMid /\ mid(j) = NoMid => box'[cur][NoMid] = 2
      /\ \A m \in existing' : left(m)
  BY <1>4, <1>5
<1>7. pos' - 1 = pos /\ Damaged(cur)' = Damaged(cur)
  BY <1>1, <1>e DEF Damaged
<1> QED BY <1>1, <1>e, <1>6, <1>7 DEF mid, left, HeldTo, There

LEMMA DoneStep ==
  ASSUME DoneInv, [Next]_vars
  PROVE  DoneInv'
<1> USE CurrentEntry DEF DoneInv
<1>t. TypeOK'
  BY TypeStep
<1>c. pc \in InFolder => cur \in Folders
  OBVIOUS
<1>n. pc \notin InFolder => cur = NoFolder
  BY DEF TypeOK, RunOK
<1>q. queue \subseteq Folders /\ Chosen \subseteq Folders /\ NoFolder \notin Folders
  BY RestoreAssumption DEF TypeOK, RunOK
<1>1. ASSUME NEW d \in BOOLEAN, NEW w \in Scopes, Start(d, w)
      PROVE  DoneInv'
  BY <1>1, <1>t DEF Start, FoldersHeld, EntriesHeld, Passed
<1>2. CASE ReadManifest
  <2>1. FoldersHeld'
    BY <1>2, FoldersStay DEF ReadManifest, mailbox, history
  <2> QED BY <1>2, <1>t, <2>1 DEF ReadManifest, EntriesHeld
<1>3. ASSUME NEW g \in Folders, OpenFolder(g)
      PROVE  DoneInv'
  <2>1. FoldersHeld'
    BY <1>3, <1>n, <1>q, FoldersStay
       DEF OpenFolder, Rest, mailbox, history, Passed, InFolder
  <2> QED BY <1>3, <1>t, <2>1 DEF OpenFolder, EntriesHeld
<1>4. CASE EnsureFolder \/ CreateFolder
  <2>1. FoldersHeld'
    BY <1>4, FoldersStay DEF EnsureFolder, CreateFolder, mailbox, history, Passed
  <2> QED BY <1>4, <1>t, <2>1 DEF EnsureFolder, CreateFolder, EntriesHeld
<1>5. CASE MessageIDIndex \/ MessageIDIndexBlind
  <2>1. FoldersHeld'
    BY <1>5, FoldersStay DEF MessageIDIndex, MessageIDIndexBlind, mailbox, Passed
  <2>2. pos' = 1 /\ cur' = cur /\ box' = box
    BY <1>5 DEF MessageIDIndex, MessageIDIndexBlind, mailbox, TypeOK, RunOK
  <2>3. HeldTo(cur, pos - 1)'
    BY <2>2 DEF HeldTo
  <2>4. \A m \in existing' : There(cur, m)'
    BY <1>5, <2>2 DEF MessageIDIndex, MessageIDIndexBlind, MessageIDs, Present, There
  <2> QED BY <1>t, <2>1, <2>3, <2>4 DEF EntriesHeld
<1>6. CASE Skip \/ CountOnly \/ AppendEntry
  <2>1. /\ pc = "entries" /\ pc' = pc /\ cur' = cur /\ calm' = calm
        /\ dry' = dry /\ want' = want /\ archive' = archive /\ queue' = queue
    BY <1>6 DEF Skip, CountOnly, AppendEntry, Appended, AtEntry, history
  <2>2. \A f \in Folders : f # cur => box'[f] = box[f]
    BY <1>6, <1>c, <2>1 DEF Skip, CountOnly, AppendEntry, Appended, Store, mailbox,
                       InFolder, TypeOK, MailboxOK
  <2>3. FoldersHeld'
    BY <1>q, <2>1, <2>2, FoldersStay DEF Passed
  <2>4. EntriesHeld'
    BY <1>6, <2>1, EntryStep DEF EntriesHeld, CountOnly
  <2> QED BY <1>t, <2>3, <2>4
<1>7. CASE FolderDone
  <2>1. cur' = NoFolder /\ UNCHANGED <<box, archive, dry, want, queue, calm>>
    BY <1>7 DEF FolderDone, ForgetFolder, mailbox, history
  <2>2. pc = "entries" /\ cur \in Folders /\ pos - 1 = Len(Entries(cur))
    <3>1. pc = "entries" /\ cur \in Folders /\ Len(Entries(cur)) \in Nat
      BY <1>7, <1>c DEF FolderDone, InFolder
    <3> QED BY <1>7, <3>1 DEF FolderDone, TypeOK, RunOK
  <2>3. FoldersHeld'
    <3>1. Chosen' = Chosen
      BY <2>1 DEF Chosen
    <3> SUFFICES ASSUME ~dry, NEW f \in (Chosen \cap calm) \ queue
                 PROVE  HeldTo(f, Len(Entries(f)))'
      BY <2>1, <3>1 DEF FoldersHeld
    <3>2. HeldTo(f, Len(Entries(f)))
      BY <2>2 DEF FoldersHeld, EntriesHeld, Passed
    <3>3. Entries(f)' = Entries(f)
      BY <2>1 DEF Entries
    <3> QED BY <2>1, <3>2, <3>3, HeldSame
  <2> QED BY <1>7, <1>t, <2>3 DEF FolderDone, EntriesHeld
<1>8. CASE Finish
  <2>1. FoldersHeld'
    BY <1>8, FoldersStay DEF Finish, mailbox, history, Passed
  <2> QED BY <1>8, <1>t, <2>1 DEF Finish, EntriesHeld
<1>9. CASE Fail \/ Stop \/ AppendUnanswered
  BY <1>9, <1>t DEF Fail, Stop, AppendUnanswered, FoldersHeld, EntriesHeld, Passed
<1>10. ASSUME NEW g \in Folders, Other(g)
       PROVE  DoneInv'
  <2>1. calm' = calm \ {g} /\ UNCHANGED <<archive, pc, dry, want, queue, cur, existing, pos>>
    BY <1>10 DEF Other, ofRun
  <2>2. \A f \in Folders : f # g => box'[f] = box[f]
    BY <1>10 DEF Other, PutMessage, RemoveMessage, MakeFolder, DropFolder, Store,
                 TypeOK, MailboxOK
  <2>3. FoldersHeld'
    <3>1. CASE pc \in Passed
      BY <1>q, <2>1, <2>2, <3>1, FoldersStay
    <3>2. CASE pc \notin Passed
      BY <2>1, <3>2 DEF FoldersHeld
    <3> QED BY <3>1, <3>2
  <2>4. EntriesHeld'
    <3> SUFFICES ASSUME pc = "entries", ~dry, cur \in calm, cur # g
                 PROVE  HeldTo(cur, pos - 1)' /\ \A m \in existing' : There(cur, m)'
      BY <2>1 DEF EntriesHeld
    <3>1. box'[cur] = box[cur] /\ Entries(cur)' = Entries(cur)
      BY <1>c, <2>1, <2>2 DEF InFolder, Entries
    <3>2. Damaged(cur)' = Damaged(cur)
      BY <3>1 DEF Damaged
    <3> QED BY <2>1, <3>1, <3>2 DEF EntriesHeld, HeldTo, There
  <2> QED BY <1>t, <2>3, <2>4
<1>11. CASE UNCHANGED vars
  <2>1. FoldersHeld'
    <3>1. UNCHANGED <<box, archive, pc, dry, want, queue, cur, calm>>
      BY <1>11 DEF vars, mailbox, ofRun, history
    <3>2. CASE pc \in Passed
      BY <3>1, <3>2, FoldersStay
    <3>3. CASE pc \notin Passed
      BY <3>1, <3>3 DEF FoldersHeld
    <3> QED BY <3>2, <3>3
  <2>2. EntriesHeld'
    BY <1>11 DEF vars, mailbox, ofRun, history, EntriesHeld, HeldTo, There, Damaged,
                 Entries
  <2> QED BY <1>t, <2>1, <2>2
<1> QED BY <1>1, <1>2, <1>3, <1>4, <1>5, <1>6, <1>7, <1>8, <1>9, <1>10, <1>11
        DEF Next, RunStep

\* A finished run leaves every backed-up message of its folders in the mailbox,
\* unless somebody else changed the folder while it worked on it: at least what
\* a crash of the backup left of one whose file it cut short.
THEOREM RestoredIsComplete == Spec => []Complete
<1>1. Init => DoneInv
  <2>1. Init => TypeOK
    BY InitType
  <2>2. Init => FoldersHeld /\ EntriesHeld
    BY DEF Init, FoldersHeld, EntriesHeld, Passed
  <2> QED BY <2>1, <2>2 DEF DoneInv
<1>2. DoneInv /\ [Next]_vars => DoneInv'
  BY DoneStep
<1>3. DoneInv => Complete
  <2> SUFFICES ASSUME DoneInv, pc = "done", ~dry, NEW f \in Chosen \cap calm
               PROVE  /\ \A i \in DOMAIN Entries(f) : There(f, Entries(f)[i].mid)
                      /\ \A i, j \in Anonymous(f) : i # j => box[f][NoMid] = 2
    BY DEF Complete
  <2>1. queue = {} /\ f # cur
    BY CurrentEntry, RestoreAssumption DEF DoneInv, TypeOK, RunOK, InFolder, Resting
  <2>2. HeldTo(f, Len(Entries(f)))
    BY <2>1 DEF DoneInv, FoldersHeld, Passed
  <2>3. Entries(f) \in Seq(Entry)
    BY CurrentEntry DEF DoneInv
  <2>4. DOMAIN Entries(f) = 1 .. Len(Entries(f))
    BY <2>3
  <2> QED BY <2>2, <2>4 DEF HeldTo, Anonymous
<1> QED BY <1>1, <1>2, <1>3, PTL DEF Spec

-----------------------------------------------------------------------------
(***************************************************************************)
(* DryRunHonest.  A dry run counts, of each folder nobody changes since it *)
(* was read, the entries whose Message-ID is not in the target; NoMid never*)
(* is.                                                                     *)
(***************************************************************************)
Missing(f, k) == {i \in 1 .. k : Entries(f)[i].mid \notin Present(f)}

\* The folders behind the run, those before it, and the one it is in.
FoldersCounted ==
  pc \in Passed /\ dry =>
    \A f \in (Chosen \cap calm) \ (queue \cup blind) :
      f # cur => report[f] = Cardinality(Missing(f, Len(Entries(f))))

Uncounted ==
  /\ pc = "manifest" => \A f \in Folders : report[f] = 0
  /\ \A f \in queue : report[f] = 0
  /\ pc \in {"ensure", "create", "read"} => report[cur] = 0
  /\ pc \in InFolder => cur \notin queue

EntriesCounted ==
  pc = "entries" /\ dry /\ cur \in calm \ blind =>
    /\ report[cur] = Cardinality(Missing(cur, pos - 1))
    /\ existing = Present(cur)

CountInv == TypeOK /\ FoldersCounted /\ Uncounted /\ EntriesCounted

\* One entry more or less to look at.
LEMMA MissingOneMore ==
  ASSUME NEW f, NEW k \in Nat
  PROVE  /\ Missing(f, 0) = {} /\ Cardinality(Missing(f, 0)) = 0
         /\ IsFiniteSet(Missing(f, k)) /\ Cardinality(Missing(f, k)) \in Nat
         /\ Cardinality(Missing(f, k + 1)) =
              IF Entries(f)[k + 1].mid \in Present(f)
              THEN Cardinality(Missing(f, k)) ELSE Cardinality(Missing(f, k)) + 1
<1>1. IsFiniteSet(1 .. k) /\ Missing(f, k) \in SUBSET (1 .. k)
  BY FS_Interval DEF Missing
<1>2. IsFiniteSet(Missing(f, k))
  BY <1>1, FS_Subset
<1>3. Missing(f, 0) = {}
  BY DEF Missing
<1>4. /\ k + 1 \notin Missing(f, k)
      /\ Missing(f, k + 1) = IF Entries(f)[k + 1].mid \in Present(f)
                             THEN Missing(f, k) ELSE Missing(f, k) \cup {k + 1}
  BY DEF Missing
<1>5. Cardinality(Missing(f, k) \cup {k + 1}) = Cardinality(Missing(f, k)) + 1
  BY <1>2, <1>4, FS_AddElement
<1> QED BY <1>2, <1>3, <1>4, <1>5, FS_CardinalityType, FS_EmptySet

\* What a real run appends is missing; where each Message-ID is backed up once
\* and no file is missing, it appends all that is.
LEMMA MissingIsDue ==
  ASSUME NEW f, Entries(f) \in Seq(Entry)
  PROVE  /\ Cardinality(Missing(f, Len(Entries(f)))) >= Cardinality(Due(f))
         /\ Distinct(f) /\ Intact(f) =>
              Cardinality(Missing(f, Len(Entries(f)))) = Cardinality(Due(f))
<1> DEFINE n == Len(Entries(f))
<1>1. n \in Nat /\ DOMAIN Entries(f) = 1 .. n
  OBVIOUS
<1>2. IsFiniteSet(Missing(f, n)) /\ Cardinality(Missing(f, n)) \in Nat
  BY <1>1, MissingOneMore
<1>3. Due(f) \subseteq Missing(f, n)
  BY <1>1 DEF Due, Needed, Missing
<1>4. IsFiniteSet(Due(f)) /\ Cardinality(Due(f)) <= Cardinality(Missing(f, n))
  BY <1>2, <1>3, FS_Subset
<1>5. ASSUME Distinct(f), Intact(f)
      PROVE  Missing(f, n) = Due(f)
  <2>1. ASSUME NEW i \in Missing(f, n)
        PROVE  i \in Needed(f)
    <3>1. i \in 1 .. n /\ Entries(f)[i].mid \notin Present(f)
      BY DEF Missing
    <3>2. ASSUME Entries(f)[i].mid # NoMid, NEW j \in 1 .. i - 1
          PROVE  Entries(f)[j].mid # Entries(f)[i].mid
      <4>1. j \in 1 .. n /\ j # i
        BY <1>1, <3>1
      <4> QED BY <1>1, <1>5, <3>1, <3>2, <4>1 DEF Distinct, Anonymous
    <3> QED BY <1>1, <3>1, <3>2 DEF Needed
  <2>2. Missing(f, n) \subseteq Due(f)
    BY <1>5, <2>1 DEF Due, Intact
  <2> QED BY <1>3, <2>2
<1> QED
  <2>1. Cardinality(Due(f)) \in Nat
    BY <1>4, FS_CardinalityType
  <2> QED BY <1>2, <1>4, <1>5, <2>1

\* What was counted stays so where the step changes neither the target folder
\* nor the report about it.
LEMMA CountedStay ==
  ASSUME FoldersCounted, NEW S, UNCHANGED <<archive, want, dry>>,
         calm' \subseteq calm \cup S, blind \subseteq blind',
         pc \in Passed \/ queue' = Chosen,
         \A f \in (Chosen \cap calm') \ queue' :
           f # cur' => /\ f \notin queue /\ f # cur /\ f \notin S
                       /\ box'[f] = box[f] /\ report'[f] = report[f]
  PROVE  FoldersCounted'
<1>1. Chosen' = Chosen
  BY DEF Chosen
<1> SUFFICES ASSUME pc' \in Passed, dry, NEW f \in (Chosen \cap calm') \ (queue' \cup blind'),
                    f # cur'
             PROVE  report'[f] = Cardinality(Missing(f, Len(Entries(f))))'
  BY <1>1 DEF FoldersCounted
<1>2. report[f] = Cardinality(Missing(f, Len(Entries(f))))
  BY DEF FoldersCounted
<1>3. Entries(f)' = Entries(f) /\ Present(f)' = Present(f)
  BY DEF Entries, Present
<1>4. Missing(f, Len(Entries(f)))' = Missing(f, Len(Entries(f)))
  BY <1>3 DEF Missing
<1> QED BY <1>2, <1>4

\* One entry further, in the folder the run is in.
LEMMA EntryCounted ==
  ASSUME CountInv, Skip \/ CountOnly, cur \in calm \ blind, dry
  PROVE  /\ report'[cur] = Cardinality(Missing(cur, pos - 1))'
         /\ existing' = Present(cur)'
<1> USE CurrentEntry DEF CountInv
<1>1. /\ pc = "entries" /\ cur \in Folders /\ pos \in Nat \ {0} /\ Mid \in Ids
      /\ pos' = pos + 1 /\ UNCHANGED <<box, archive, cur, existing>>
  BY DEF Skip, CountOnly, AtEntry, InFolder, TypeOK, RunOK, mailbox
<1>2. /\ report[cur] = Cardinality(Missing(cur, pos - 1)) /\ existing = Present(cur)
      /\ report \in [Folders -> Nat]
  BY <1>1 DEF EntriesCounted, TypeOK, RunOK
<1>3. Mid \in Present(cur) <=> Skippable
  BY <1>2, RestoreAssumption DEF Skippable, Present
<1>4. Cardinality(Missing(cur, pos)) =
        IF Mid \in Present(cur) THEN report[cur] ELSE report[cur] + 1
  <2>1. pos - 1 \in Nat /\ pos - 1 + 1 = pos
    BY <1>1
  <2>2. Cardinality(Missing(cur, pos - 1 + 1)) =
          IF Entries(cur)[pos - 1 + 1].mid \in Present(cur)
          THEN Cardinality(Missing(cur, pos - 1))
          ELSE Cardinality(Missing(cur, pos - 1)) + 1
    BY <2>1, MissingOneMore
  <2> QED BY <2>1, <2>2, <1>2 DEF Mid
<1>5. report'[cur] = Cardinality(Missing(cur, pos))
  <2>1. CASE Skip
    BY <2>1, <1>3, <1>4 DEF Skip
  <2>2. CASE CountOnly
    BY <2>2, <1>1, <1>2, <1>3, <1>4 DEF CountOnly
  <2> QED BY <2>1, <2>2
<1>6. Entries(cur)' = Entries(cur) /\ Present(cur)' = Present(cur) /\ pos' - 1 = pos
  BY <1>1 DEF Entries, Present
<1>7. Missing(cur, pos - 1)' = Missing(cur, pos)
  <2> HIDE DEF CountInv
  <2>1. Missing(cur, pos - 1)' = {i \in 1 .. pos : Entries(cur)'[i].mid \notin Present(cur)'}
    BY <1>1, <1>6 DEF Missing
  <2> QED BY <2>1, <1>6 DEF Missing
<1>8. existing' = Present(cur)'
  BY <1>1, <1>2, <1>6
<1> HIDE DEF CountInv
<1>9. Cardinality(Missing(cur, pos - 1))' = Cardinality(Missing(cur, pos))
  BY <1>7
<1> QED BY <1>5, <1>8, <1>9

LEMMA CountStep ==
  ASSUME CountInv, [Next]_vars
  PROVE  CountInv'
<1> USE CurrentEntry DEF CountInv
<1>t. TypeOK'
  BY TypeStep
<1>c. pc \in InFolder => cur \in Folders
  OBVIOUS
<1>n. pc \notin InFolder => cur = NoFolder
  BY DEF TypeOK, RunOK
<1>q. /\ queue \subseteq Folders /\ Chosen \subseteq Folders /\ NoFolder \notin Folders
      /\ report \in [Folders -> Nat]
  BY RestoreAssumption DEF TypeOK, RunOK
<1>1. ASSUME NEW d \in BOOLEAN, NEW w \in Scopes, Start(d, w)
      PROVE  CountInv'
  BY <1>1, <1>t DEF Start, FoldersCounted, Uncounted, EntriesCounted, Passed, InFolder
<1>2. CASE ReadManifest
  <2>1. FoldersCounted'
    BY <1>2, CountedStay DEF ReadManifest, mailbox, history
  <2>2. Uncounted'
    BY <1>2, <1>q DEF ReadManifest, Uncounted, InFolder
  <2> QED BY <1>2, <1>t, <2>1, <2>2 DEF ReadManifest, EntriesCounted
<1>3. ASSUME NEW g \in Folders, OpenFolder(g)
      PROVE  CountInv'
  <2>1. FoldersCounted'
    BY <1>3, <1>n, <1>q, CountedStay
       DEF OpenFolder, Rest, mailbox, history, Passed, InFolder
  <2>2. Uncounted'
    BY <1>3, <1>q DEF OpenFolder, Rest, Uncounted
  <2> QED BY <1>3, <1>t, <2>1, <2>2 DEF OpenFolder, EntriesCounted
<1>4. CASE EnsureFolder \/ CreateFolder
  <2>1. FoldersCounted'
    BY <1>4, CountedStay DEF EnsureFolder, CreateFolder, mailbox, history, Passed
  <2>2. Uncounted'
    BY <1>4 DEF EnsureFolder, CreateFolder, Uncounted, InFolder
  <2> QED BY <1>4, <1>t, <2>1, <2>2 DEF EnsureFolder, CreateFolder, EntriesCounted
<1>5. CASE MessageIDIndex \/ MessageIDIndexBlind
  <2>1. FoldersCounted'
    BY <1>5, CountedStay DEF MessageIDIndex, MessageIDIndexBlind, mailbox, Passed
  <2>2. /\ pc = "read" /\ pos' = 1 /\ pos = 1 /\ pc' = "entries"
        /\ UNCHANGED <<cur, box, archive, report, queue>>
    BY <1>5 DEF MessageIDIndex, MessageIDIndexBlind, mailbox, TypeOK, RunOK
  <2>3. Uncounted'
    BY <2>2 DEF Uncounted, InFolder
  <2>4. EntriesCounted'
    <3> SUFFICES ASSUME cur \notin blind'
                 PROVE  /\ report[cur] = Cardinality(Missing(cur, 0))'
                        /\ existing' = Present(cur)'
      BY <2>2 DEF EntriesCounted
    <3>1. Missing(cur, 0)' = {} /\ Cardinality({}) = 0
      BY FS_EmptySet DEF Missing
    <3>2. report[cur] = 0
      BY <2>2 DEF Uncounted
    <3>3. MessageIDIndex
      BY <1>5 DEF MessageIDIndexBlind
    <3>4. cur \notin exists => Present(cur) = {}
      BY <2>2, <1>c DEF InFolder, TypeOK, MailboxOK, Empty, Present, Ids
    <3> QED BY <2>2, <3>1, <3>2, <3>3, <3>4 DEF MessageIDIndex, MessageIDs, Present
  <2> QED BY <1>t, <2>1, <2>3, <2>4
<1>6. CASE Skip \/ CountOnly
  <2>1. /\ pc = "entries" /\ pc' = pc
        /\ UNCHANGED <<box, cur, calm, blind, dry, want, archive, queue>>
        /\ \A f \in Folders : f # cur => report'[f] = report[f]
    BY <1>6, <1>q DEF Skip, CountOnly, AtEntry, history, mailbox
  <2>2. FoldersCounted'
    BY <1>q, <2>1, CountedStay DEF Passed
  <2>3. Uncounted'
    BY <1>c, <1>q, <2>1 DEF Uncounted, InFolder
  <2>4. EntriesCounted'
    <3> SUFFICES ASSUME cur \in calm \ blind, dry
                 PROVE  /\ report'[cur] = Cardinality(Missing(cur, pos - 1))'
                        /\ existing' = Present(cur)'
      BY <2>1 DEF EntriesCounted
    <3> QED BY <1>6, EntryCounted
  <2> QED BY <1>t, <2>2, <2>3, <2>4
<1>7. CASE AppendEntry
  <2>1. /\ pc = "entries" /\ pc' = pc /\ ~dry /\ dry' = dry
        /\ UNCHANGED <<cur, queue>>
        /\ \A f \in Folders : f # cur => report'[f] = report[f]
    BY <1>7, <1>q DEF AppendEntry, Appended, AtEntry
  <2>2. Uncounted'
    BY <1>c, <1>q, <2>1 DEF Uncounted, InFolder
  <2> QED BY <1>t, <2>1, <2>2 DEF FoldersCounted, EntriesCounted
<1>8. CASE FolderDone
  <2>1. /\ cur' = NoFolder /\ pc' = "next"
        /\ UNCHANGED <<box, archive, dry, want, queue, calm, blind, report>>
    BY <1>8 DEF FolderDone, ForgetFolder, mailbox, history
  <2>2. pc = "entries" /\ cur \in Folders /\ pos - 1 = Len(Entries(cur))
    <3>1. pc = "entries" /\ cur \in Folders /\ Len(Entries(cur)) \in Nat
      BY <1>8, <1>c DEF FolderDone, InFolder
    <3> QED BY <1>8, <3>1 DEF FolderDone, TypeOK, RunOK
  <2>3. FoldersCounted'
    <3>1. Chosen' = Chosen
      BY <2>1 DEF Chosen
    <3> SUFFICES ASSUME dry, NEW f \in (Chosen \cap calm) \ (queue \cup blind)
                 PROVE  report[f] = Cardinality(Missing(f, Len(Entries(f))))'
      BY <2>1, <3>1 DEF FoldersCounted
    <3>2. report[f] = Cardinality(Missing(f, Len(Entries(f))))
      BY <2>2 DEF FoldersCounted, EntriesCounted, Passed
    <3>3. Missing(f, Len(Entries(f)))' = Missing(f, Len(Entries(f)))
      BY <2>1 DEF Missing, Entries, Present
    <3> QED BY <3>2, <3>3
  <2>4. Uncounted'
    BY <2>1, <2>2 DEF Uncounted, InFolder
  <2> QED BY <2>1, <1>t, <2>3, <2>4 DEF EntriesCounted
<1>9. CASE Finish
  <2>1. FoldersCounted'
    BY <1>9, CountedStay DEF Finish, mailbox, history, Passed
  <2> QED BY <1>9, <1>t, <2>1 DEF Finish, EntriesCounted, Uncounted, InFolder
<1>10. CASE Fail \/ Stop \/ AppendUnanswered
  <2>1. pc' \in {"failed", "stopped"} /\ queue' = {}
    BY <1>10 DEF Fail, Stop, AppendUnanswered, Halt
  <2> QED BY <2>1, <1>t DEF FoldersCounted, EntriesCounted, Uncounted, Passed, InFolder
<1>11. ASSUME NEW g \in Folders, Other(g)
       PROVE  CountInv'
  <2>1. /\ calm' = calm \ {g}
        /\ UNCHANGED <<archive, pc, dry, want, queue, cur, existing, pos, report, blind>>
    BY <1>11 DEF Other, ofRun
  <2>2. \A f \in Folders : f # g => box'[f] = box[f]
    BY <1>11 DEF Other, PutMessage, RemoveMessage, MakeFolder, DropFolder, Store,
                 TypeOK, MailboxOK
  <2>3. FoldersCounted'
    <3>1. CASE pc \in Passed
      BY <1>q, <2>1, <2>2, <3>1, CountedStay
    <3>2. CASE pc \notin Passed
      BY <2>1, <3>2 DEF FoldersCounted
    <3> QED BY <3>1, <3>2
  <2>4. EntriesCounted'
    <3> SUFFICES ASSUME pc = "entries", dry, cur \in calm \ blind, cur # g
                 PROVE  /\ report[cur] = Cardinality(Missing(cur, pos - 1))'
                        /\ existing = Present(cur)'
      BY <2>1 DEF EntriesCounted
    <3>1. Present(cur)' = Present(cur) /\ Entries(cur)' = Entries(cur)
      BY <1>c, <2>1, <2>2 DEF InFolder, Entries, Present
    <3>2. Missing(cur, pos - 1)' = Missing(cur, pos - 1)
      BY <2>1, <3>1 DEF Missing
    <3> QED BY <3>1, <3>2 DEF EntriesCounted
  <2>5. Uncounted'
    BY <2>1 DEF Uncounted
  <2> QED BY <1>t, <2>3, <2>4, <2>5
<1>12. CASE UNCHANGED vars
  <2>1. UNCHANGED <<mailbox, archive, ofRun, history>>
    BY <1>12 DEF vars
  <2>2. FoldersCounted' /\ EntriesCounted'
    BY <2>1 DEF mailbox, ofRun, history, FoldersCounted, EntriesCounted, Missing,
                Entries, Chosen, Present
  <2>3. Uncounted'
    BY <2>1 DEF ofRun, Uncounted
  <2> QED BY <1>t, <2>2, <2>3
<1> QED BY <1>1, <1>2, <1>3, <1>4, <1>5, <1>6, <1>7, <1>8, <1>9, <1>10, <1>11, <1>12
        DEF Next, RunStep

\* Of every folder it could read, and that nobody changed meanwhile, a dry run
\* announces no fewer messages than a real run would append, and just as many
\* where no Message-ID is named twice and no file is missing (DryRunHonest).
THEOREM DryRunsAreHonest == Spec => []DryRunHonest
<1>1. Init => CountInv
  <2>1. Init => TypeOK
    BY InitType
  <2>2. Init => FoldersCounted /\ Uncounted /\ EntriesCounted
    BY DEF Init, FoldersCounted, Uncounted, EntriesCounted, Passed, InFolder
  <2> QED BY <2>1, <2>2 DEF CountInv
<1>2. CountInv /\ [Next]_vars => CountInv'
  BY CountStep
<1>3. CountInv => DryRunHonest
  <2> SUFFICES ASSUME CountInv, pc = "done", dry, NEW f \in (Chosen \cap calm) \ blind
               PROVE  /\ report[f] >= Cardinality(Due(f))
                      /\ Distinct(f) /\ Intact(f) => report[f] = Cardinality(Due(f))
    BY DEF DryRunHonest
  <2>1. queue = {} /\ f # cur
    BY CurrentEntry, RestoreAssumption DEF CountInv, TypeOK, RunOK, InFolder, Resting
  <2>2. report[f] = Cardinality(Missing(f, Len(Entries(f))))
    BY <2>1 DEF CountInv, FoldersCounted, Passed
  <2>3. Entries(f) \in Seq(Entry)
    BY CurrentEntry DEF CountInv
  <2> QED BY <2>2, <2>3, MissingIsDue
<1> QED BY <1>1, <1>2, <1>3, PTL DEF Spec
=============================================================================
