----------------------------- MODULE IndexProofs -----------------------------
(***************************************************************************)
(* Proofs about one "index sync" process: type correctness, that the       *)
(* UIDVALIDITY recorded for a folder can be trusted (LabelTrusted), that no*)
(* message is left without its folder (NoOrphans), that the index is a     *)
(* copy of the mailbox in the sense of MailCopy (IndexIsCopy), and that a  *)
(* sync brings the folders nobody changes in line (InLine, OnlyWanted);    *)
(* about two processes, that a sync which overlaps no other repairs what   *)
(* overlapping ones left (HealedAlone).                                    *)
(***************************************************************************)
EXTENDS TwoSyncs, ImapProofs

USE DEF NoSession, NoRow

LEMMA IndexConstants ==
  /\ NoFolder \notin Folders
  /\ NoRow \in 0 .. MaxEpoch
  /\ NoRows \in [Uids -> 0 .. MaxEpoch]
BY ServerConstants, IndexAssumption DEF NoRows

\* A run that ends early leaves its own state well formed.
LEMMA HaltType ==
  ASSUME TypeOK, Halt
  PROVE  TypeOK'
<1> USE ServerConstants, IndexConstants DEF TypeOK, Halt, ForgetFolder
<1>1. ServerTypeOK' /\ DbOK'
  BY DEF server, db, ServerTypeOK, DbOK, Rows
<1>2. RunOK'
  BY DEF RunOK, Resting, InFolder
<1>3. FetchOK'
  BY DEF FetchOK
<1> QED BY <1>1, <1>2, <1>3

\* Every step keeps the types.
LEMMA TypeStep ==
  ASSUME TypeOK, [Next]_vars
  PROVE  TypeOK'
<1> USE ServerConstants, IndexConstants DEF TypeOK, Resting, Working, InFolder
<1>s. UNCHANGED server => ServerTypeOK'
  BY DEF server, ServerTypeOK
<1>d. UNCHANGED db => DbOK'
  BY DEF db, DbOK, Rows
<1>f. UNCHANGED <<fetch, pc>> => FetchOK'
  BY DEF fetch, FetchOK
<1>r. UNCHANGED <<ofRun, gone, calm>> => RunOK'
  BY DEF ofRun, RunOK
<1>c. pc \in InFolder => cur \in Folders
  BY DEF RunOK
<1>1. ASSUME NEW x \in Excludes, Start(x)
      PROVE  TypeOK'
  <2>1. RunOK' /\ FetchOK'
    BY <1>1, IndexAssumption DEF Start, RunOK, FetchOK, fetch
  <2> QED BY <1>1, <1>s, <1>d, <2>1 DEF Start
<1>2. CASE List
  <2>1. RunOK' /\ FetchOK'
    BY <1>2 DEF List, RunOK, Syncable, ServerTypeOK, FetchOK, fetch
  <2> QED BY <1>2, <1>s, <1>d, <2>1 DEF List
<1>3. ASSUME NEW f \in Folders, SelectFolder(f)
      PROVE  TypeOK'
  <2> USE <1>3 DEF SelectFolder, SelectInfo
  <2>1. RunOK'
    BY DEF RunOK
  <2>2. FetchOK'
    BY DEF FetchOK, ServerTypeOK
  <2> QED BY <1>s, <1>d, <2>1, <2>2
<1>4. CASE ReadLabel
  BY <1>4, <1>s, <1>d, <1>c DEF ReadLabel, RunOK, FetchOK, DbOK
<1>5. CASE ReadUids
  BY <1>5, <1>s, <1>d DEF ReadUids, RunOK, FetchOK, Rows
<1>6. CASE ResetFolder
  <2> USE <1>6, <1>c DEF ResetFolder
  <2>1. DbOK'
    BY DEF DbOK, FetchOK, NewLabel, Rows
  <2>2. RunOK' /\ FetchOK'
    BY DEF RunOK, FetchOK
  <2> QED BY <1>s, <2>1, <2>2
<1>7. CASE DeleteVanished
  <2> USE <1>7, <1>c DEF DeleteVanished
  <2>1. DbOK'
    BY DEF DbOK, Rows
  <2>2. RunOK' /\ FetchOK'
    BY DEF RunOK, FetchOK
  <2> QED BY <1>s, <2>1, <2>2
<1>8. CASE FetchMeta
  <2> USE <1>8, <1>c DEF FetchMeta
  <2>1. FetchOK'
    BY ChunkSubset DEF FetchOK, ServerTypeOK, Answered, ofRun
  <2> QED BY <1>s, <1>d, <1>r, <2>1
<1>9. CASE SetFlags
  <2> USE <1>9, <1>c DEF SetFlags
  <2>1. DbOK'
    BY DEF DbOK, Rows
  <2>2. RunOK' /\ FetchOK'
    BY DEF RunOK, FetchOK
  <2> QED BY <1>s, <2>1, <2>2
<1>10. CASE FetchBody
  <2> USE <1>10, <1>c DEF FetchBody
  <2>1. RunOK'
    BY DEF RunOK
  <2>2. FetchOK'
    BY ChunkSubset DEF FetchOK, ServerTypeOK, Answered
  <2> QED BY <1>s, <1>d, <2>1, <2>2
<1>11. ASSUME NEW u \in Uids, Put(u)
      PROVE  TypeOK'
  <2> USE <1>11, <1>c DEF Put
  <2>1. DbOK'
    <3>1. sess \in Epochs
      BY DEF FetchOK
    <3> QED BY <3>1 DEF DbOK, Rows
  <2>2. FetchOK'
    BY DEF FetchOK, ofRun
  <2> QED BY <1>s, <1>r, <2>1, <2>2
<1>12. CASE ChunkPut
  BY <1>12, <1>s, <1>d DEF ChunkPut, RunOK, FetchOK, fetch
<1>13. CASE FetchLarge
  BY <1>13, <1>s, <1>d, <1>r DEF FetchLarge, FetchOK, ofRun
<1>14. CASE FolderDone
  BY <1>14, <1>s, <1>d DEF FolderDone, ForgetFolder, RunOK, FetchOK
<1>15. CASE ReadNames
  BY <1>15, <1>s, <1>d DEF ReadNames, Unwanted, RunOK, FetchOK, fetch
<1>16. CASE PruneFolders
  <2> USE <1>16 DEF PruneFolders
  <2>1. DbOK'
    BY DEF DbOK, Rows
  <2>2. RunOK' /\ FetchOK'
    BY DEF RunOK, FetchOK, fetch
  <2> QED BY <1>s, <2>1, <2>2
<1>17. CASE Fail \/ Stop
  BY <1>17, HaltType DEF Fail, Stop
<1>18. ASSUME NEW f \in Folders, Other(f)
      PROVE  TypeOK'
  <2>1. RunOK' /\ FetchOK'
    BY <1>18 DEF Other, RunOK, FetchOK, ofRun, fetch
  <2> QED BY <1>18, <2>1, <1>d, ServerStep DEF Other
<1>19. CASE UNCHANGED vars
  BY <1>19, <1>s, <1>d, <1>f, <1>r DEF vars, ofRun
<1> QED
  BY <1>1, <1>2, <1>3, <1>4, <1>5, <1>6, <1>7, <1>8, <1>9, <1>10, <1>11,
     <1>12, <1>13, <1>14, <1>15, <1>16, <1>17, <1>18, <1>19
  DEF Next, RunStep

LEMMA TypeInit == Init => TypeOK
<1> SUFFICES ASSUME Init PROVE TypeOK
  OBVIOUS
<1> USE ServerConstants, IndexConstants DEF Init, DbInit, RunInit
<1>1. ServerTypeOK
  BY DEF ServerInit, ServerTypeOK, Epochs
<1>2. DbOK
  BY DEF DbOK, Rows, NoRows
<1>3. RunOK
  BY DEF RunOK, Resting, InFolder
<1>4. FetchOK
  BY DEF FetchOK
<1> QED BY <1>1, <1>2, <1>3, <1>4 DEF TypeOK

\* Whatever other clients do and wherever a run is cut short, the mailbox, the
\* database and the run's variables keep their types.
THEOREM TypeCorrect == Spec => []TypeOK
<1>1. TypeOK /\ [Next]_vars => TypeOK'
  BY TypeStep
<1> QED BY <1>1, TypeInit, PTL DEF Spec

-----------------------------------------------------------------------------
(***************************************************************************)
(* The label of a folder.  The inductive invariant orders every epoch that *)
(* is around: recorded <= selected <= fetched <= present.                  *)
(***************************************************************************)
Between(x, lo, f) == x # NoRow => lo <= x /\ x <= epoch[f]

IndexInv ==
  \A f \in Folders :
    /\ label[f] <= epoch[f]
    /\ \A u \in Uids : Between(doc[f][u], label[f], f)
    /\ label[f] = NoRow => doc[f] = NoRows

FetchInv ==
  pc \in InFolder =>
    /\ 1 <= sel /\ sel <= epoch[cur]
    /\ label[cur] <= sel
    /\ pc = "uids" => prev = label[cur]
    /\ pc = "reset" => label[cur] # sel
    /\ pc \in {"delete", "meta", "body", "put"} => label[cur] = sel
    /\ pc = "put" => sel <= sess /\ sess <= epoch[cur]

LabelInv == IndexInv /\ FetchInv

LEMMA LabelInit == Init => LabelInv
BY ServerConstants DEF Init, ServerInit, DbInit, RunInit, LabelInv, IndexInv,
   FetchInv, Between, NoRows, InFolder

\* Epochs as numbers, for the comparisons below.
LEMMA EpochNumbers ==
  ASSUME TypeOK
  PROVE  /\ \A f \in Folders : epoch[f] \in Nat /\ epoch[f] >= 1 /\ label[f] \in Nat
         /\ \A f \in Folders, u \in Uids : doc[f][u] \in Nat
         /\ sel \in Nat /\ sess \in Nat /\ prev \in Nat
<1> USE ServerConstants DEF TypeOK
<1>1. \A f \in Folders : epoch[f] \in Nat /\ epoch[f] >= 1
  BY DEF ServerTypeOK, Epochs
<1>2. \A f \in Folders : label[f] \in Nat
  BY DEF DbOK
<1>3. \A f \in Folders, u \in Uids : doc[f][u] \in 0 .. MaxEpoch
  BY DEF DbOK
<1> QED BY <1>1, <1>2, <1>3 DEF FetchOK

LEMMA CurFolder == TypeOK => (pc \in InFolder => cur \in Folders)
BY DEF TypeOK, RunOK

LEMMA LabelGivesProperties == TypeOK /\ LabelInv => LabelTrusted /\ NoOrphans
<1> SUFFICES ASSUME TypeOK, LabelInv PROVE LabelTrusted /\ NoOrphans
  OBVIOUS
<1>1. ASSUME NEW f \in Folders, NEW u \in Uids, label[f] = epoch[f]
      PROVE  doc[f][u] \in {NoRow, epoch[f]}
  <2>1. Between(doc[f][u], epoch[f], f)
    BY <1>1 DEF LabelInv, IndexInv
  <2> QED BY <2>1, EpochNumbers DEF Between
<1>2. NoOrphans
  BY DEF NoOrphans, Rows, NoRows, LabelInv, IndexInv
<1> QED BY <1>1, <1>2 DEF LabelTrusted

\* Steps that only lose rows, and leave the labels alone.
LEMMA RowsLost ==
  ASSUME TypeOK, LabelInv, UNCHANGED <<epoch, label>>,
         \A f \in Folders : doc'[f] \in [Uids -> 0 .. MaxEpoch],
         \A f \in Folders, u \in Uids : doc'[f][u] \in {NoRow, doc[f][u]}
  PROVE  IndexInv'
<1>1. \A f \in Folders, u \in Uids : Between(doc[f][u], label[f], f)'
  BY DEF LabelInv, IndexInv, Between
<1>2. ASSUME NEW f \in Folders, label[f] = NoRow PROVE doc'[f] = NoRows
  <2>1. \A u \in Uids : doc[f][u] = NoRow
    BY <1>2 DEF LabelInv, IndexInv, NoRows
  <2> QED BY <2>1 DEF NoRows
<1> QED BY <1>1, <1>2 DEF LabelInv, IndexInv

LEMMA LabelStep ==
  ASSUME TypeOK, LabelInv, [Next]_vars
  PROVE  LabelInv'
<1> USE EpochNumbers DEF InFolder
<1>c. pc \in InFolder => cur \in Folders
  BY CurFolder
<1>d. UNCHANGED <<epoch, doc, label>> => IndexInv'
  BY DEF LabelInv, IndexInv, Between
\* Steps between folders leave FetchInv empty.
<1>o. pc' \notin InFolder => FetchInv'
  BY DEF FetchInv
<1>1. CASE \/ \E x \in Excludes : Start(x)
           \/ List \/ FolderDone \/ ReadNames \/ Fail \/ Stop
  BY <1>1, <1>d, <1>o
  DEF Start, List, FolderDone, ReadNames, Fail, Stop, Halt, LabelInv, server, db
<1>2. ASSUME NEW f \in Folders, SelectFolder(f)
      PROVE  LabelInv'
  <2>1. /\ sel' = epoch[f] /\ cur' = f /\ pc' = "state"
        /\ UNCHANGED <<epoch, doc, label>>
    BY <1>2 DEF SelectFolder, SelectInfo, server, db
  <2>2. FetchInv'
    BY <2>1 DEF LabelInv, IndexInv, FetchInv
  <2> QED BY <2>1, <2>2, <1>d DEF LabelInv
<1>3. CASE ReadLabel
  BY <1>3, <1>c, <1>d DEF ReadLabel, LabelInv, FetchInv, server, db
<1>4. CASE ReadUids
  BY <1>4, <1>c, <1>d DEF ReadUids, Outdated, LabelInv, FetchInv, server, db
<1>5. CASE ResetFolder
  <2> USE <1>5, <1>c DEF ResetFolder
  <2>1. /\ \A f \in Folders : label'[f] = IF f = cur THEN sel ELSE label[f]
        /\ \A f \in Folders : doc'[f] = IF f = cur THEN NoRows ELSE doc[f]
        /\ UNCHANGED epoch
    BY DEF TypeOK, DbOK, NewLabel, server
  <2>2. 1 <= sel /\ sel <= epoch[cur]
    BY DEF LabelInv, FetchInv
  <2>3. IndexInv'
    BY <2>1, <2>2 DEF LabelInv, IndexInv, Between, NoRows
  <2>4. FetchInv'
    BY <2>1, <2>2 DEF FetchInv
  <2> QED BY <2>3, <2>4 DEF LabelInv
<1>6. CASE DeleteVanished
  <2> USE <1>6, <1>c DEF DeleteVanished
  <2>1. UNCHANGED <<epoch, label>>
    BY DEF server
  <2>2. /\ \A f \in Folders : doc'[f] \in [Uids -> 0 .. MaxEpoch]
        /\ \A f \in Folders, u \in Uids : doc'[f][u] \in {NoRow, doc[f][u]}
    BY TypeStep DEF TypeOK, DbOK
  <2>3. FetchInv'
    BY <2>1 DEF LabelInv, FetchInv
  <2> QED BY <2>1, <2>2, <2>3, RowsLost DEF LabelInv
<1>7. CASE FetchMeta \/ SetFlags \/ FetchBody \/ ChunkPut \/ FetchLarge
  <2>1. UNCHANGED <<epoch, doc, label, cur, sel>>
    BY <1>7
    DEF FetchMeta, SetFlags, FetchBody, ChunkPut, FetchLarge, server, db, ofRun,
        fetch
  <2>2. /\ pc \in {"meta", "body", "put"} /\ pc' \in {"meta", "body", "put"}
        /\ pc' = "put" => sess' = epoch[cur]
    BY <1>7 DEF FetchMeta, SetFlags, FetchBody, ChunkPut, FetchLarge, ofRun
  <2>3. FetchInv'
    BY <2>1, <2>2, <1>c DEF LabelInv, FetchInv
  <2> QED BY <2>1, <2>3, <1>d DEF LabelInv
<1>8. ASSUME NEW w \in Uids, Put(w)
      PROVE  LabelInv'
  <2> USE <1>8, <1>c DEF Put
  <2>1. UNCHANGED <<epoch, label, cur, sel, sess, pc>>
    BY DEF server, ofRun
  <2>2. \A f \in Folders, u \in Uids :
          doc'[f][u] = IF f = cur /\ u = w THEN sess ELSE doc[f][u]
    BY DEF TypeOK, DbOK
  <2>3. \A f \in Folders : f # cur => doc'[f] = doc[f]
    BY DEF TypeOK, DbOK
  <2>4. /\ 1 <= sel /\ sel <= sess /\ sess <= epoch[cur] /\ label[cur] = sel
    BY DEF LabelInv, FetchInv
  <2>5. IndexInv'
    BY <2>1, <2>2, <2>3, <2>4 DEF LabelInv, IndexInv, Between
  <2>6. FetchInv'
    BY <2>1, <2>4 DEF LabelInv, FetchInv
  <2> QED BY <2>5, <2>6 DEF LabelInv
<1>9. CASE PruneFolders
  <2>1. \A f \in Folders :
          \/ doc'[f] = NoRows /\ label'[f] = NoRow
          \/ doc'[f] = doc[f] /\ label'[f] = label[f]
    BY <1>9 DEF PruneFolders
  <2>2. UNCHANGED epoch /\ pc' = "done"
    BY <1>9 DEF PruneFolders, server
  <2>3. IndexInv'
    BY <2>1, <2>2 DEF LabelInv, IndexInv, Between, NoRows
  <2> QED BY <2>2, <2>3, <1>o DEF LabelInv
<1>10. ASSUME NEW f \in Folders, Other(f)
      PROVE  LabelInv'
  <2>1. \A g \in Folders : epoch[g] <= epoch'[g] /\ epoch'[g] \in Nat
    BY <1>10, EpochGrows, ServerStep, ServerConstants
    DEF Other, TypeOK, ServerTypeOK
  <2>2. UNCHANGED <<doc, label, pc, cur, sel, prev, sess>>
    BY <1>10 DEF Other, db, ofRun, fetch
  <2>3. IndexInv'
    BY <2>1, <2>2 DEF LabelInv, IndexInv, Between
  <2>4. FetchInv'
    BY <2>1, <2>2, <1>c DEF LabelInv, FetchInv
  <2> QED BY <2>3, <2>4 DEF LabelInv
<1>11. CASE UNCHANGED vars
  BY <1>11, <1>c, <1>d DEF vars, ofRun, fetch, db, server, LabelInv, FetchInv
<1> QED
  BY <1>1, <1>2, <1>3, <1>4, <1>5, <1>6, <1>7, <1>8, <1>9, <1>10, <1>11
  DEF Next, RunStep

\* A folder recorded with its present UIDVALIDITY holds no older message.
THEOREM LabelsAreTrusted == Spec => []LabelTrusted
<1>1. TypeOK /\ LabelInv /\ [Next]_vars => LabelInv'
  BY LabelStep
<1> QED
  BY <1>1, LabelInit, LabelGivesProperties, TypeCorrect, PTL DEF Spec

\* A message is indexed only in a folder that PruneFolders can find.
THEOREM NothingIsOrphaned == Spec => []NoOrphans
<1>1. TypeOK /\ LabelInv /\ [Next]_vars => LabelInv'
  BY LabelStep
<1> QED
  BY <1>1, LabelInit, LabelGivesProperties, TypeCorrect, PTL DEF Spec

-----------------------------------------------------------------------------
(***************************************************************************)
(* Proof that no sync throws away the index of a message that is still on  *)
(* the server, the heart of IndexIsCopy.                                   *)
(***************************************************************************)
\* UIDs that were handed out stay below uidnext.
UidInv ==
  /\ \A f \in Folders, u \in Uids : doc[f][u] = epoch[f] => u < uidnext[f]
  /\ pc = "put" /\ sess = epoch[cur] => \A u \in buf : u < uidnext[cur]

\* While the selected incarnation lives, its indexed messages that are still
\* on the server were listed by SelectInfo.
SelectedInv ==
  pc \in InFolder /\ sel = epoch[cur] =>
    \A u \in msgs[cur] : doc[cur][u] = epoch[cur] => u \in uids

\* A folder that is not on the list of a run was created after the list was
\* made, or is excluded, so its label is of an older incarnation.
ListedInv ==
  /\ pc \in InFolder => cur \in wanted
  /\ pc \in InFolder \cup {"next", "prune"} =>
       /\ wanted \cap exclude = {}
       /\ \A f \in (live \ Noselect) \ exclude :
            f \in wanted \/ label[f] < epoch[f]
  /\ pc = "prune" => gone = Unwanted /\ queue = {}

KeepInv == UidInv /\ SelectedInv /\ ListedInv

LEMMA KeepInit == Init => KeepInv
BY DEF Init, ServerInit, DbInit, RunInit, KeepInv, UidInv, SelectedInv,
       ListedInv, NoRows, InFolder

\* PruneFolders drops no folder that is recorded as it is on the server.
LEMMA UnwantedAreGone ==
  ASSUME TypeOK, KeepInv, pc = "prune", NEW f \in gone,
         f \in (live \ Noselect) \ exclude
  PROVE  label[f] # epoch[f]
<1>1. f \in Folders /\ f \notin wanted
  BY DEF KeepInv, ListedInv, Unwanted
<1> QED BY <1>1, EpochNumbers DEF KeepInv, ListedInv

KeepsStep(f, u) ==
  /\ label[f] = epoch[f] /\ doc[f][u] = epoch[f] /\ u \in msgs[f]
  /\ f \notin exclude
  => \/ label'[f] = epoch[f] /\ doc'[f][u] = epoch[f]
     \/ u \notin msgs'[f]

LEMMA KeepsByStep ==
  ASSUME TypeOK, LabelInv, KeepInv, [Next]_vars, NEW f \in Folders, NEW u \in Uids
  PROVE  KeepsStep(f, u)
<1> SUFFICES ASSUME label[f] = epoch[f], doc[f][u] = epoch[f], u \in msgs[f],
                    f \notin exclude
             PROVE  \/ label'[f] = epoch[f] /\ doc'[f][u] = epoch[f]
                    \/ u \notin msgs'[f]
  BY DEF KeepsStep
<1> USE DEF InFolder
<1>c. pc \in InFolder => cur \in Folders
  BY CurFolder
<1>1. CASE UNCHANGED <<label, doc>>
  BY <1>1
<1>2. CASE ResetFolder
  <2>1. f # cur
    BY <1>2, <1>c, EpochNumbers DEF ResetFolder, LabelInv, FetchInv
  <2> QED BY <1>2, <2>1, <1>c DEF ResetFolder, TypeOK, DbOK
<1>3. CASE DeleteVanished
  <2>1. f = cur => u \notin Vanished
    BY <1>3 DEF DeleteVanished, Vanished, LabelInv, FetchInv, KeepInv, SelectedInv
  <2> QED BY <1>3, <2>1, <1>c DEF DeleteVanished, TypeOK, DbOK
<1>4. ASSUME NEW w \in Uids, Put(w)
      PROVE  label'[f] = epoch[f] /\ doc'[f][u] = epoch[f]
  <2>1. f = cur => sess = epoch[f]
    BY <1>4, EpochNumbers DEF Put, LabelInv, FetchInv
  <2> QED BY <1>4, <2>1, <1>c DEF Put, TypeOK, DbOK
<1>5. CASE PruneFolders
  <2>1. f \in live \ Noselect
    BY DEF TypeOK, ServerTypeOK
  <2>2. f \notin gone
    BY <1>5, <2>1, UnwantedAreGone DEF PruneFolders
  <2> QED BY <1>5, <2>2 DEF PruneFolders
<1> QED
  BY <1>1, <1>2, <1>3, <1>4, <1>5
  DEF Next, RunStep, Start, List, SelectFolder, ReadLabel, ReadUids, FetchMeta,
      SetFlags, FetchBody, ChunkPut, FetchLarge, FolderDone, ReadNames, Fail,
      Stop, Halt, Other, vars, db

-----------------------------------------------------------------------------
LEMMA KeepStepInv ==
  ASSUME TypeOK, LabelInv, KeepInv, [Next]_vars
  PROVE  KeepInv'
<1> USE EpochNumbers DEF InFolder
<1>c. pc \in InFolder => cur \in Folders
  BY CurFolder
<1>1. ASSUME NEW x \in Excludes, Start(x)
      PROVE  KeepInv'
  BY <1>1 DEF Start, KeepInv, UidInv, SelectedInv, ListedInv, server, db
<1>2. CASE List
  <2>1. UidInv' /\ SelectedInv'
    BY <1>2 DEF List, KeepInv, UidInv, SelectedInv, server, db
  <2>2. ListedInv'
    BY <1>2 DEF List, Syncable, ListedInv, server
  <2> QED BY <2>1, <2>2 DEF KeepInv
<1>3. ASSUME NEW f \in Folders, SelectFolder(f)
      PROVE  KeepInv'
  <2> USE <1>3 DEF SelectFolder, SelectInfo
  <2>1. UidInv' /\ SelectedInv'
    BY DEF KeepInv, UidInv, SelectedInv, server, db
  <2>2. ListedInv'
    BY DEF KeepInv, ListedInv, TypeOK, RunOK, server, db
  <2> QED BY <2>1, <2>2 DEF KeepInv
<1>4. CASE ReadLabel \/ ReadUids \/ ChunkPut \/ FetchLarge
  <2>1. /\ UNCHANGED <<server, doc, label, exclude, wanted, cur, sel, uids>>
        /\ pc \in InFolder /\ pc' \in InFolder \ {"put"}
    BY <1>4 DEF ReadLabel, ReadUids, ChunkPut, FetchLarge, db, fetch, ofRun
  <2> QED BY <2>1 DEF KeepInv, UidInv, SelectedInv, ListedInv, server
<1>5. CASE FetchMeta \/ SetFlags
  <2>1. /\ UNCHANGED <<server, doc, label, exclude, wanted, cur, sel, uids>>
        /\ pc \in InFolder /\ pc' \in InFolder \ {"put"}
    BY <1>5 DEF FetchMeta, SetFlags, db, ofRun
  <2> QED BY <2>1 DEF KeepInv, UidInv, SelectedInv, ListedInv, server
<1>6. CASE ResetFolder \/ DeleteVanished
  <2>1. /\ UNCHANGED <<server, exclude, wanted, cur, sel, uids>>
        /\ pc \in InFolder /\ pc' \in InFolder \ {"put"}
    BY <1>6 DEF ResetFolder, DeleteVanished
  <2>2. /\ \A f \in Folders, u \in Uids : doc'[f][u] \in {NoRow, doc[f][u]}
        /\ \A f \in Folders : f # cur => label'[f] = label[f]
    BY <1>6, <1>c DEF ResetFolder, DeleteVanished, TypeOK, DbOK, NoRows
  <2>3. UidInv' /\ SelectedInv'
    BY <2>1, <2>2, <1>c
    DEF KeepInv, UidInv, SelectedInv, server, TypeOK, ServerTypeOK
  <2>4. ListedInv'
    BY <2>1, <2>2, <1>c DEF KeepInv, ListedInv, server, TypeOK, ServerTypeOK
  <2> QED BY <2>3, <2>4 DEF KeepInv
<1>7. CASE FetchBody
  <2> USE <1>7, <1>c DEF FetchBody
  <2>1. UidInv'
    BY DEF KeepInv, UidInv, server, db, Answered, TypeOK, ServerTypeOK
  <2>2. SelectedInv' /\ ListedInv'
    BY DEF KeepInv, SelectedInv, ListedInv, server, db
  <2> QED BY <2>1, <2>2 DEF KeepInv
<1>8. ASSUME NEW w \in Uids, Put(w)
      PROVE  KeepInv'
  <2> USE <1>8, <1>c DEF Put
  <2>1. UNCHANGED <<server, label, pc, exclude, wanted, cur, sel, uids, sess>>
    BY DEF ofRun
  <2>2. \A f \in Folders, u \in Uids :
          doc'[f][u] = IF f = cur /\ u = w THEN sess ELSE doc[f][u]
    BY DEF TypeOK, DbOK
  <2>3. w \in uids /\ buf' \subseteq buf
    BY DEF TypeOK, FetchOK
  <2>4. UidInv'
    BY <2>1, <2>2, <2>3 DEF KeepInv, UidInv, server
  <2>5. SelectedInv'
    BY <2>1, <2>2, <2>3 DEF KeepInv, SelectedInv, server, TypeOK, ServerTypeOK
  <2>6. ListedInv'
    BY <2>1 DEF KeepInv, ListedInv, server
  <2> QED BY <2>4, <2>5, <2>6 DEF KeepInv
<1>9. CASE FolderDone
  BY <1>9 DEF FolderDone, ForgetFolder, KeepInv, UidInv, SelectedInv, ListedInv,
              server, db
<1>10. CASE ReadNames
  <2>1. UidInv' /\ SelectedInv'
    BY <1>10 DEF ReadNames, KeepInv, UidInv, SelectedInv, server, db, fetch
  <2>2. ListedInv'
    BY <1>10 DEF ReadNames, KeepInv, ListedInv, Unwanted, server, db
  <2> QED BY <2>1, <2>2 DEF KeepInv
<1>11. CASE PruneFolders
  <2> USE <1>11 DEF PruneFolders
  <2>1. \A f \in Folders, u \in Uids : doc'[f][u] \in {NoRow, doc[f][u]}
    BY DEF NoRows
  <2>2. UidInv' /\ SelectedInv' /\ ListedInv'
    BY <2>1 DEF KeepInv, UidInv, SelectedInv, ListedInv, server
  <2> QED BY <2>2 DEF KeepInv
<1>12. CASE Fail \/ Stop
  BY <1>12 DEF Fail, Stop, Halt, ForgetFolder, KeepInv, UidInv, SelectedInv,
               ListedInv, server, db
<1>13. ASSUME NEW f \in Folders, Other(f)
      PROVE  KeepInv'
  <2>0. UNCHANGED <<doc, label, pc, exclude, wanted, queue, cur, sel, uids, sess,
                    buf, gone>>
    BY <1>13 DEF Other, db, ofRun, fetch
  <2>1. \A g \in Folders \ {f} :
          /\ epoch'[g] = epoch[g] /\ uidnext'[g] = uidnext[g]
          /\ msgs'[g] = msgs[g]
          /\ g \in live' <=> g \in live
    BY <1>13, OneFolderChanges DEF Other, TypeOK
  <2>2. CASE RecreateFolder(f)
    <3>1. epoch'[f] > epoch[f] /\ msgs' = msgs
      BY <2>2 DEF RecreateFolder, TypeOK, ServerTypeOK
    <3>2. UidInv'
      BY <2>0, <2>1, <3>1, <1>c
      DEF KeepInv, UidInv, LabelInv, IndexInv, FetchInv, Between
    <3>3. SelectedInv'
      BY <2>0, <2>1, <3>1, <1>c DEF KeepInv, SelectedInv, LabelInv, FetchInv
    <3>4. epoch'[f] \in Nat /\ live' \subseteq Folders
      BY <1>13, ServerStep, ServerConstants DEF Other, TypeOK, ServerTypeOK
    <3>5. label[f] < epoch'[f]
      BY <3>1, <3>4 DEF LabelInv, IndexInv
    <3>6. ListedInv'
      <4>1. UNCHANGED Unwanted
        BY <2>0 DEF Unwanted
      <4>2. ASSUME NEW g \in (live' \ Noselect) \ exclude,
                   pc \in InFolder \cup {"next", "prune"}
            PROVE  g \in wanted \/ label[g] < epoch'[g]
        <5>1. CASE g = f
          BY <3>5, <5>1
        <5>2. CASE g # f
          BY <2>1, <3>4, <4>2, <5>2 DEF KeepInv, ListedInv
        <5> QED BY <5>1, <5>2
      <4> QED BY <2>0, <4>1, <4>2 DEF KeepInv, ListedInv
    <3> QED BY <3>2, <3>3, <3>6 DEF KeepInv
  <2>3. CASE ~RecreateFolder(f)
    <3>1. /\ epoch' = epoch
          /\ \A u \in msgs'[f] : u \in msgs[f] \/ u = uidnext[f]
          /\ uidnext'[f] >= uidnext[f]
          /\ live' \subseteq live
      BY <1>13, <2>3, ServerConstants
      DEF Other, OtherClient, Deliver, ExpungeUid, ToggleSeen, DropFolder,
          TypeOK, ServerTypeOK
    <3>2. \A g \in Folders : uidnext'[g] \in Nat /\ uidnext[g] \in Nat
      BY <1>13, ServerStep, ServerConstants DEF Other, TypeOK, ServerTypeOK
    <3>3. UidInv'
      BY <2>0, <2>1, <3>1, <3>2, <1>c, ServerConstants
      DEF KeepInv, UidInv, TypeOK, FetchOK
    <3>4. SelectedInv'
      BY <2>0, <2>1, <3>1, <1>c, ServerStep, <1>13
      DEF KeepInv, SelectedInv, UidInv, Other, TypeOK, ServerTypeOK
    <3>5. ListedInv'
      BY <2>0, <3>1 DEF KeepInv, ListedInv, Unwanted
    <3> QED BY <3>3, <3>4, <3>5 DEF KeepInv
  <2> QED BY <2>2, <2>3
<1>14. CASE UNCHANGED vars
  BY <1>14 DEF vars, ofRun, fetch, db, server, KeepInv, UidInv, SelectedInv,
               ListedInv, Unwanted
<1> QED
  BY <1>1, <1>2, <1>3, <1>4, <1>5, <1>6, <1>7, <1>8, <1>9, <1>10, <1>11,
     <1>12, <1>13, <1>14
  DEF Next, RunStep

-----------------------------------------------------------------------------
(***************************************************************************)
(* Every step of a sync, or of another client, is one MailCopy allows.     *)
(***************************************************************************)
\* What is indexed in f's present incarnation after a step of the copy's own was
\* delivered before.
LEMMA IndexedWasDelivered ==
  ASSUME TypeOK, TypeOK', KeepInv', UNCHANGED <<epoch, uidnext>>, NEW f \in Folders
  PROVE  Indexed'[f] \subseteq Copy!Delivered(f)
<1> SUFFICES ASSUME NEW u \in Indexed'[f] PROVE u \in Copy!Delivered(f)
  OBVIOUS
<1>1. u \in Uids /\ u < uidnext[f]
  BY DEF Indexed, KeepInv, UidInv
<1>2. uidnext[f] \in Nat
  BY ServerConstants DEF TypeOK, ServerTypeOK
<1> QED BY <1>1, <1>2, ServerConstants DEF Copy!Delivered, Uids

\* A step that leaves the mailbox alone is the copy's own.
LEMMA OwnStepIsWork ==
  ASSUME TypeOK, TypeOK', LabelInv, KeepInv, KeepInv', [Next]_vars, UNCHANGED server
  PROVE  Copy!Work
<1>1. UNCHANGED Copy!mailbox
  BY DEF server, Copy!mailbox
<1>2. ASSUME NEW f \in Folders
      PROVE  Indexed'[f] \subseteq Copy!Delivered(f)
  BY IndexedWasDelivered DEF server
<1>3. ASSUME NEW f \in Folders, NEW u \in Indexed[f] \ Indexed'[f]
      PROVE  Copy!MayLose(f, u)
  <2>1. KeepsStep(f, u) /\ UNCHANGED <<epoch, msgs>>
    BY KeepsByStep DEF server, Indexed
  <2> QED BY <2>1, <1>3 DEF KeepsStep, Indexed, Copy!MayLose
<1> QED BY <1>1, <1>2, <1>3 DEF Copy!Work

\* Whatever another client does to a folder is a change of the mailbox.
LEMMA OthersChangeTheMailbox ==
  ASSUME TypeOK, LabelInv, NEW f \in Folders, Other(f)
  PROVE  Copy!MailboxChanges(f)
<1>1. UNCHANGED <<label, doc, exclude>>
  BY DEF Other, db, ofRun
<1>2. \A g \in Folders \ {f} : /\ epoch'[g] = epoch[g] /\ uidnext'[g] = uidnext[g]
                               /\ msgs'[g] = msgs[g]
  BY OneFolderChanges DEF Other, TypeOK
<1>3. \A g \in Folders \ {f} : Indexed'[g] = Indexed[g]
  BY <1>1, <1>2 DEF Indexed
<1>4. CASE RecreateFolder(f)
  <2>1. epoch'[f] > epoch[f] /\ epoch'[f] \in Nat
    <3>1. epoch[f] \in Nat
      BY EpochNumbers
    <3>2. epoch'[f] = epoch[f] + 1
      BY <1>4 DEF RecreateFolder, TypeOK, ServerTypeOK
    <3> QED BY <3>1, <3>2
  <2>2. Indexed'[f] = {}
    BY <1>1, <2>1, EpochNumbers DEF Indexed, LabelInv, IndexInv
  <2>3. Indexed' = [Indexed EXCEPT ![f] = {}]
    BY <1>3, <2>2 DEF Indexed
  <2> QED BY <1>1, <1>2, <2>1, <2>3 DEF Copy!MailboxChanges
<1>5. CASE ~RecreateFolder(f)
  <2>1. /\ epoch' = epoch
        /\ uidnext'[f] >= uidnext[f]
        /\ msgs'[f] \ msgs[f] \subseteq uidnext[f] .. uidnext'[f] - 1
    BY <1>5, ServerConstants
    DEF Other, OtherClient, Deliver, ExpungeUid, ToggleSeen, DropFolder,
        TypeOK, ServerTypeOK
  <2>2. Indexed' = Indexed
    BY <1>1, <2>1 DEF Indexed
  <2> QED BY <1>1, <1>2, <2>1, <2>2 DEF Copy!MailboxChanges
<1> QED BY <1>4, <1>5

LEMMA CopyStep ==
  ASSUME TypeOK, TypeOK', LabelInv, KeepInv, KeepInv', [Next]_vars
  PROVE  Copy!Next
<1>1. CASE \E f \in Folders : Other(f)
  BY <1>1, OthersChangeTheMailbox DEF Copy!Next
<1>2. CASE ~ \E f \in Folders : Other(f)
  <2>1. UNCHANGED server
    BY <1>2
    DEF Next, RunStep, Start, List, SelectFolder, ReadLabel, ReadUids,
        ResetFolder, DeleteVanished, FetchMeta, SetFlags, FetchBody, Put,
        ChunkPut, FetchLarge, FolderDone, ReadNames, PruneFolders, Fail, Stop,
        Halt, vars
  <2> QED BY <2>1, OwnStepIsWork DEF Copy!Next
<1> QED BY <1>1, <1>2

LEMMA CopyInit == Init => Copy!Init
<1> SUFFICES ASSUME Init PROVE Copy!Init
  OBVIOUS
<1>1. \A f \in Folders : msgs[f] = {} /\ Indexed[f] = {}
  BY ServerConstants DEF Init, ServerInit, DbInit, Indexed
<1> QED BY <1>1 DEF Copy!Init, Indexed

\* The index is a copy of the mailbox through every step of every sync: it holds
\* only what was delivered, and gives up no message the mailbox still has,
\* wherever a sync is cut off and whatever other clients do meanwhile.
THEOREM SyncKeepsACopy == Spec => IndexIsCopy
<1>1. TypeOK /\ LabelInv /\ KeepInv /\ [Next]_vars => KeepInv'
  BY KeepStepInv
<1>2. TypeOK /\ LabelInv /\ [Next]_vars => LabelInv'
  BY LabelStep
<1>3. TypeOK /\ TypeOK' /\ LabelInv /\ KeepInv /\ KeepInv' /\ [Next]_vars
        => [Copy!Next]_(Copy!vars)
  BY CopyStep
<1> QED
  BY <1>1, <1>2, <1>3, LabelInit, KeepInit, CopyInit, TypeCorrect, PTL
  DEF Spec, IndexIsCopy, Copy!Spec

-----------------------------------------------------------------------------
(***************************************************************************)
(* Proofs that a folder synced while nobody changes it is the mailbox      *)
(* afterwards, whatever interrupted runs left before (InLine), and that a  *)
(* finished sync leaves no folder it did not list (OnlyWanted).            *)
(***************************************************************************)
\* UIDs FetchMeta has still to ask for.
Unread ==
  IF pc \in {"state", "uids", "reset", "delete"} THEN uids
  ELSE IF pc = "meta" THEN todo ELSE {}

\* While cur is calm, what was read of it is what the server holds.
ReadInv ==
  pc \in InFolder /\ cur \in calm =>
    /\ sel = epoch[cur]
    /\ uids = msgs[cur]
    /\ byUID = uids \ Unread
    /\ mseen = seen[cur] \ Unread

\* What syncFolder knows of the database is still so when it acts on it.
KnownInv ==
  /\ pc = "delete" => known = Rows(cur)
  /\ pc = "meta" => Rows(cur) = known \cap uids
  /\ pc \in {"state", "uids", "reset", "delete"} => large = {}

\* While cur is calm, each message is indexed or about to be, and the flags of
\* the indexed ones are the server's.
StoredInv ==
  pc \in {"body", "put"} /\ cur \in calm =>
    /\ Rows(cur) \subseteq uids
    /\ uids \subseteq Rows(cur) \cup todo \cup large \cup buf
    /\ dseen[cur] = seen[cur] \cap Rows(cur)

CalmInv ==
  /\ calm \subseteq live \ Noselect
  /\ ReadInv
  /\ KnownInv
  /\ StoredInv
  /\ InLine

LEMMA CalmInit == Init => CalmInv
BY DEF Init, RunInit, CalmInv, ReadInv, KnownInv, StoredInv, InLine, InFolder

\* A folder nothing happened to stays in line.
LEMMA Untouched ==
  ASSUME NEW f \in Folders, Exact(f),
         epoch'[f] = epoch[f], msgs'[f] = msgs[f], seen'[f] = seen[f],
         label'[f] = label[f], doc'[f] = doc[f], dseen'[f] = dseen[f]
  PROVE  Exact(f)'
BY DEF Exact, Rows

\* Steps that change at most the database's part of cur keep InLine.
LEMMA InLineKept ==
  ASSUME TypeOK, CalmInv, UNCHANGED server,
         \A f \in Folders : f # cur /\ f \in calm =>
           label'[f] = label[f] /\ doc'[f] = doc[f] /\ dseen'[f] = dseen[f],
         calm' \ {cur'} \subseteq calm \ {cur}
  PROVE  InLine'
<1> SUFFICES ASSUME NEW f \in calm' \ {cur'} PROVE Exact(f)'
  BY DEF InLine
<1>1. f \in calm \ {cur} /\ f \in Folders /\ Exact(f)
  BY DEF CalmInv, InLine, TypeOK, RunOK
<1> QED BY <1>1, Untouched DEF server

\* A calm folder is dropped only if it is excluded.
LEMMA DroppedIsExcluded ==
  ASSUME TypeOK, KeepInv, CalmInv, pc = "prune", NEW f \in gone, f \in calm
  PROVE  f \in exclude
<1>1. f \in live \ Noselect /\ f # cur
  BY IndexConstants DEF CalmInv, TypeOK, RunOK, InFolder
<1>2. label[f] = epoch[f]
  BY <1>1 DEF CalmInv, InLine, Exact
<1> QED BY <1>1, <1>2, UnwantedAreGone

\* What syncFolder knows stays true, step by step.
LEMMA KnowledgeStep ==
  ASSUME TypeOK, ReadInv, KnownInv, StoredInv, [Next]_vars
  PROVE  ReadInv' /\ KnownInv' /\ StoredInv'
<1> USE EpochNumbers DEF InFolder
<1>c. pc \in InFolder => cur \in Folders
  BY CurFolder
<1>q. ASSUME pc' \notin InFolder
      PROVE  ReadInv' /\ KnownInv' /\ StoredInv'
  BY <1>q DEF ReadInv, KnownInv, StoredInv
<1>1. CASE \/ \E x \in Excludes : Start(x)
           \/ List \/ ReadNames \/ FolderDone \/ PruneFolders \/ Fail \/ Stop
  <2>1. pc' \notin InFolder
    BY <1>1 DEF Start, List, ReadNames, FolderDone, PruneFolders, Fail, Stop, Halt
  <2> QED BY <2>1, <1>q
<1>2. ASSUME NEW f \in Folders, SelectFolder(f)
      PROVE  ReadInv' /\ KnownInv' /\ StoredInv'
  <2> USE <1>2 DEF SelectFolder, SelectInfo
  <2>1. ReadInv'
    BY DEF ReadInv, Unread, server, TypeOK, ServerTypeOK
  <2>2. KnownInv' /\ StoredInv'
    BY DEF KnownInv, StoredInv
  <2> QED BY <2>1, <2>2
<1>3. CASE ReadLabel \/ ReadUids
  <2>1. /\ UNCHANGED <<server, db, calm, cur, sel, uids, byUID, mseen, large>>
        /\ pc \in {"state", "uids"} /\ pc' \in {"uids", "reset", "delete"}
        /\ pc' = "delete" => known' = Rows(cur)
    BY <1>3 DEF ReadLabel, ReadUids
  <2> QED BY <2>1 DEF ReadInv, KnownInv, StoredInv, Unread, Rows, server, db
<1>4. CASE ResetFolder
  <2> USE <1>4, <1>c DEF ResetFolder
  <2>1. UNCHANGED <<server, calm, cur, sel, uids, byUID, mseen, large>>
    OBVIOUS
  <2>2. Rows(cur)' = {}
    BY DEF Rows, NoRows, TypeOK, DbOK
  <2>3. ReadInv' /\ StoredInv'
    BY <2>1 DEF ReadInv, StoredInv, Unread, server
  <2>4. KnownInv'
    BY <2>1, <2>2 DEF KnownInv
  <2> QED BY <2>3, <2>4
<1>5. CASE DeleteVanished
  <2> USE <1>5, <1>c DEF DeleteVanished
  <2>1. UNCHANGED <<server, label, calm, cur, sel, uids, known, byUID, mseen>>
    OBVIOUS
  <2>2. Rows(cur)' = Rows(cur) \ Vanished
    BY DEF Rows, TypeOK, DbOK
  <2>3. ReadInv' /\ StoredInv'
    BY <2>1 DEF ReadInv, StoredInv, Unread, server
  <2>4. KnownInv'
    BY <2>1, <2>2 DEF KnownInv, Vanished
  <2> QED BY <2>3, <2>4
<1>6. CASE FetchMeta
  <2> USE <1>6, <1>c DEF FetchMeta
  <2>1. /\ UNCHANGED <<server, db, calm, pc, cur, sel, uids, known>>
    BY DEF ofRun
  <2>2. ASSUME cur \in calm
        PROVE  byUID' = uids \ todo' /\ mseen' = seen[cur] \ todo'
    <3>1. /\ uids = msgs[cur] /\ byUID = uids \ todo /\ mseen = seen[cur] \ todo
          /\ todo \subseteq uids
      BY <2>2 DEF ReadInv, Unread, TypeOK, FetchOK
    <3>2. NextChunk(todo) \subseteq todo
      BY ChunkSubset
    <3> QED BY <3>1, <3>2 DEF Answered
  <2>3. ReadInv'
    BY <2>1, <2>2 DEF ReadInv, Unread, server
  <2>4. KnownInv' /\ StoredInv'
    BY <2>1 DEF KnownInv, StoredInv, Rows, db
  <2> QED BY <2>3, <2>4
<1>7. CASE SetFlags
  <2> USE <1>7, <1>c DEF SetFlags
  <2>1. UNCHANGED <<server, label, doc, calm, cur, sel, uids, known, byUID, mseen, buf>>
    OBVIOUS
  <2>2. ReadInv'
    BY <2>1 DEF ReadInv, Unread, server
  <2>3. Rows(cur)' = Rows(cur) /\ Rows(cur) = known \cap uids
    BY <2>1 DEF Rows, KnownInv
  <2>4. ASSUME cur \in calm
        PROVE  dseen'[cur] = seen[cur] \cap Rows(cur)
    <3>1. byUID = uids /\ mseen = seen[cur] /\ uids = msgs[cur]
      BY <2>4 DEF ReadInv, Unread
    <3>2. dseen[cur] \subseteq Rows(cur)
      BY DEF TypeOK, DbOK
    <3>3. Refreshed = Rows(cur)
      BY <2>3, <3>1 DEF Refreshed
    <3>4. dseen'[cur] = (dseen[cur] \ Refreshed) \cup (mseen \cap Refreshed \cap Rows(cur))
      BY DEF TypeOK, DbOK
    <3> QED BY <3>1, <3>2, <3>3, <3>4
  <2>5. uids \subseteq known \cup todo' \cup large'
    OBVIOUS
  <2>6. StoredInv'
    BY <2>1, <2>3, <2>4, <2>5 DEF StoredInv, server
  <2>7. KnownInv'
    BY DEF KnownInv
  <2> QED BY <2>2, <2>6, <2>7
<1>8. CASE FetchBody \/ ChunkPut \/ FetchLarge
  <2>1. /\ UNCHANGED <<server, db, calm, cur, sel, uids, byUID, mseen>>
        /\ pc \in {"body", "put"} /\ pc' \in {"body", "put"}
    BY <1>8 DEF FetchBody, ChunkPut, FetchLarge, ofRun, fetch
  <2>2. ReadInv' /\ KnownInv'
    BY <2>1 DEF ReadInv, KnownInv, Unread, server
  <2>3. ASSUME cur \in calm
        PROVE  todo \cup large \cup buf \subseteq todo' \cup large' \cup buf'
    <3>1. uids = msgs[cur] /\ todo \subseteq uids /\ (pc # "put" => buf = {})
      BY <2>1, <2>3 DEF ReadInv, TypeOK, FetchOK
    <3>2. CASE FetchBody
      BY <3>1, <3>2, ChunkSubset DEF FetchBody, Answered
    <3>3. CASE ChunkPut \/ FetchLarge
      BY <3>1, <3>3 DEF ChunkPut, FetchLarge, fetch
    <3> QED BY <1>8, <3>2, <3>3
  <2>4. StoredInv'
    BY <2>1, <2>3 DEF StoredInv, Rows, server, db
  <2> QED BY <2>2, <2>4
<1>9. ASSUME NEW w \in Uids, Put(w)
      PROVE  ReadInv' /\ KnownInv' /\ StoredInv'
  <2> USE <1>9, <1>c DEF Put
  <2>1. /\ UNCHANGED <<server, label, calm, pc, cur, sel, uids, byUID, mseen, todo, large>>
        /\ pc = "put" /\ w \in uids /\ sess # NoRow
    BY ServerConstants DEF ofRun, TypeOK, FetchOK
  <2>2. ReadInv' /\ KnownInv'
    BY <2>1 DEF ReadInv, KnownInv, Unread, server
  <2>3. Rows(cur)' = Rows(cur) \cup {w}
    BY <2>1 DEF Rows, TypeOK, DbOK
  <2>4. ASSUME cur \in calm
        PROVE  dseen'[cur] = seen[cur] \cap (Rows(cur) \cup {w})
    <3>1. mseen = seen[cur] /\ dseen[cur] = seen[cur] \cap Rows(cur)
      BY <2>1, <2>4 DEF ReadInv, StoredInv, Unread
    <3>2. dseen'[cur] = IF w \in mseen THEN dseen[cur] \cup {w} ELSE dseen[cur] \ {w}
      BY DEF TypeOK, DbOK
    <3> QED BY <3>1, <3>2
  <2>5. StoredInv'
    BY <2>1, <2>3, <2>4 DEF StoredInv, server
  <2> QED BY <2>2, <2>5
<1>10. ASSUME NEW f \in Folders, Other(f)
       PROVE  ReadInv' /\ KnownInv' /\ StoredInv'
  <2>1. /\ UNCHANGED <<label, doc, dseen, pc, cur, sel, uids, known, byUID, mseen,
                       todo, large, buf>>
        /\ calm' = calm \ {f}
    BY <1>10 DEF Other, db, ofRun, fetch
  <2>2. \A g \in Folders \ {f} :
          epoch'[g] = epoch[g] /\ msgs'[g] = msgs[g] /\ seen'[g] = seen[g]
    BY <1>10, OneFolderChanges DEF Other, TypeOK
  <2>3. ReadInv' /\ StoredInv'
    BY <2>1, <2>2, <1>c DEF ReadInv, StoredInv, Unread, Rows
  <2>4. KnownInv'
    BY <2>1 DEF KnownInv, Rows
  <2> QED BY <2>3, <2>4
<1>11. CASE UNCHANGED vars
  BY <1>11 DEF vars, ofRun, ReadInv, KnownInv, StoredInv, Unread, Rows, server, db,
               fetch
<1> QED
  BY <1>1, <1>2, <1>3, <1>4, <1>5, <1>6, <1>7, <1>8, <1>9, <1>10, <1>11
  DEF Next, RunStep

\* A run changes the rows of the folder it is in only, until it prunes.
LEMMA OwnFolderOnly ==
  ASSUME TypeOK, RunStep \/ Stop, ~PruneFolders
  PROVE  /\ UNCHANGED server
         /\ \A f \in Folders : f # cur =>
              label'[f] = label[f] /\ doc'[f] = doc[f] /\ dseen'[f] = dseen[f]
<1>1. ASSUME NEW u \in Uids, Put(u)
      PROVE  /\ UNCHANGED <<server, label>>
             /\ \A f \in Folders : f # cur => doc'[f] = doc[f] /\ dseen'[f] = dseen[f]
  BY <1>1 DEF Put, TypeOK, DbOK
<1>2. CASE ResetFolder \/ DeleteVanished \/ SetFlags
  BY <1>2 DEF ResetFolder, DeleteVanished, SetFlags, TypeOK, DbOK
<1>3. CASE \/ List \/ (\E f \in Folders : SelectFolder(f)) \/ ReadLabel \/ ReadUids
           \/ FetchMeta \/ FetchBody \/ ChunkPut \/ FetchLarge \/ FolderDone
           \/ ReadNames \/ Fail \/ Stop
  BY <1>3 DEF List, SelectFolder, ReadLabel, ReadUids, FetchMeta, FetchBody, ChunkPut,
              FetchLarge, FolderDone, ReadNames, Fail, Stop, Halt, db
<1> QED BY <1>1, <1>2, <1>3 DEF RunStep

\* The folder a run has finished, if nobody changed it meanwhile.
Held(f) == label[f] = epoch[f] /\ Rows(f) = msgs[f] /\ dseen[f] = seen[f]

LEMMA FinishedIsHeld ==
  ASSUME TypeOK, ReadInv, StoredInv, FolderDone, label[cur] = sel, cur \in calm
  PROVE  Held(cur)
<1>1. cur \in Folders /\ pc \in InFolder
  BY CurFolder DEF FolderDone, InFolder
<1>2. uids = msgs[cur] /\ sel = epoch[cur]
  BY <1>1 DEF ReadInv
<1>3. buf = {} /\ todo = {} /\ large = {}
  BY DEF FolderDone, TypeOK, FetchOK
<1>4. Rows(cur) = uids /\ dseen[cur] = seen[cur] \cap uids
  BY <1>3 DEF StoredInv, FolderDone
<1>5. seen[cur] \subseteq msgs[cur]
  BY <1>1 DEF TypeOK, ServerTypeOK
<1> QED BY <1>2, <1>4, <1>5 DEF Held

LEMMA CalmStep ==
  ASSUME TypeOK, LabelInv, KeepInv, CalmInv, [Next]_vars
  PROVE  CalmInv'
<1>k. ReadInv' /\ KnownInv' /\ StoredInv'
  BY KnowledgeStep DEF CalmInv
<1>n. /\ NoFolder \notin calm /\ calm \subseteq live \ Noselect
      /\ calm \subseteq Folders
  BY IndexConstants DEF CalmInv, TypeOK, RunOK
<1>o. pc \notin InFolder => cur = NoFolder
  BY DEF TypeOK, RunOK
<1> SUFFICES calm' \subseteq live' \ Noselect /\ InLine'
  BY <1>k DEF CalmInv
\* Steps of a run within its folder.
<1>w. ASSUME RunStep \/ Stop, ~PruneFolders, calm' \ {cur'} \subseteq calm \ {cur}
      PROVE  InLine'
  BY <1>w, <1>n, InLineKept, OwnFolderOnly
<1>1. ASSUME NEW x \in Excludes, Start(x)
      PROVE  calm' \subseteq live' \ Noselect /\ InLine'
  BY <1>1, <1>n, InLineKept DEF Start, server, db
<1>2. ASSUME NEW f \in Folders, SelectFolder(f)
      PROVE  calm' \subseteq live' \ Noselect /\ InLine'
  <2>1. /\ cur' = f /\ cur = NoFolder /\ calm' = calm \cup {f} /\ live' = live
        /\ f \in live \ Noselect
    BY <1>2, <1>o DEF SelectFolder, CanSelect, server, InFolder
  <2>2. ~PruneFolders /\ RunStep
    BY <1>2 DEF SelectFolder, PruneFolders, RunStep
  <2> QED BY <2>1, <2>2, <1>n, <1>w
<1>3. CASE \/ List \/ ReadLabel \/ ReadUids \/ ResetFolder \/ DeleteVanished \/ FetchMeta
           \/ SetFlags \/ FetchBody \/ (\E u \in Uids : Put(u)) \/ ChunkPut \/ FetchLarge
           \/ ReadNames
  <2>1. UNCHANGED <<live, calm, cur>> /\ ~PruneFolders /\ RunStep
    BY <1>3 DEF List, ReadLabel, ReadUids, ResetFolder, DeleteVanished, FetchMeta, SetFlags,
                FetchBody, Put, ChunkPut, FetchLarge, ReadNames, PruneFolders, ofRun, fetch,
                server, RunStep
  <2> QED BY <2>1, <1>n, <1>w
<1>4. CASE FolderDone
  <2>1. UNCHANGED <<server, db, calm>> /\ cur' = NoFolder /\ pc = "body"
    BY <1>4 DEF FolderDone, ForgetFolder
  <2>2. ASSUME NEW f \in calm PROVE Exact(f)
    <3>1. CASE f # cur
      BY <3>1 DEF CalmInv, InLine
    <3>2. CASE f = cur
      <4>1. Held(f)
        BY <1>4, <2>1, <2>2, <3>2, FinishedIsHeld DEF CalmInv, LabelInv, FetchInv, InFolder
      <4>2. \A u \in msgs[f] : doc[f][u] = epoch[f]
        BY <4>1, <1>n, LabelGivesProperties, ServerConstants
        DEF Held, LabelTrusted, Rows, TypeOK, ServerTypeOK
      <4> QED BY <4>1, <4>2 DEF Held, Exact
    <3> QED BY <3>1, <3>2
  <2>3. \A f \in calm : Exact(f)'
    BY <2>1, <2>2, <1>n, Untouched DEF server, db
  <2> QED BY <2>1, <2>3, <1>n DEF InLine, server
<1>5. CASE PruneFolders
  <2> USE <1>5 DEF PruneFolders
  <2>1. UNCHANGED server /\ pc' = "done" /\ calm' = calm \ exclude /\ cur' = cur
    OBVIOUS
  <2>2. ASSUME NEW f \in calm \ exclude
        PROVE  label'[f] = label[f] /\ doc'[f] = doc[f] /\ dseen'[f] = dseen[f]
    BY <1>n, DroppedIsExcluded
  <2>3. InLine'
    <3> SUFFICES ASSUME NEW f \in calm' \ {cur'} PROVE Exact(f)'
      BY DEF InLine
    <3>1. Exact(f)
      BY <2>1 DEF CalmInv, InLine
    <3> QED BY <2>1, <2>2, <3>1, <1>n, Untouched DEF server
  <2> QED BY <2>1, <2>3, <1>n DEF server
<1>6. CASE Fail \/ Stop
  <2>1. calm' = calm \ {cur} /\ cur' = NoFolder /\ UNCHANGED <<server, db>>
    BY <1>6 DEF Fail, Stop, Halt, ForgetFolder
  <2> QED BY <2>1, <1>n, InLineKept DEF server, db
<1>7. ASSUME NEW f \in Folders, Other(f)
      PROVE  calm' \subseteq live' \ Noselect /\ InLine'
  <2>1. UNCHANGED <<label, doc, dseen, cur>> /\ calm' = calm \ {f}
    BY <1>7 DEF Other, db, ofRun
  <2>2. \A g \in Folders \ {f} :
          /\ epoch'[g] = epoch[g] /\ msgs'[g] = msgs[g] /\ seen'[g] = seen[g]
          /\ g \in live => g \in live'
    BY <1>7, OneFolderChanges DEF Other, TypeOK
  <2>3. InLine'
    <3> SUFFICES ASSUME NEW g \in calm' \ {cur'} PROVE Exact(g)'
      BY DEF InLine
    <3>1. Exact(g) /\ g \in Folders \ {f}
      BY <2>1, <1>n DEF CalmInv, InLine
    <3> QED BY <2>1, <2>2, <3>1, Untouched
  <2> QED BY <2>1, <2>2, <2>3, <1>n
<1>8. CASE UNCHANGED vars
  BY <1>8, <1>n, InLineKept DEF vars, ofRun, server, db
<1> QED BY <1>1, <1>2, <1>3, <1>4, <1>5, <1>6, <1>7, <1>8 DEF Next, RunStep

\* A folder that was synced while nobody changed it is the mailbox, flags
\* included, from whatever state earlier runs left behind.
THEOREM SyncedIsInLine == Spec => []InLine
<1>1. TypeOK /\ LabelInv /\ KeepInv /\ CalmInv /\ [Next]_vars => CalmInv'
  BY CalmStep
<1>2. TypeOK /\ LabelInv /\ [Next]_vars => LabelInv'
  BY LabelStep
<1>3. TypeOK /\ LabelInv /\ KeepInv /\ [Next]_vars => KeepInv'
  BY KeepStepInv
<1>4. CalmInv => InLine
  BY DEF CalmInv
<1> QED
  BY <1>1, <1>2, <1>3, <1>4, CalmInit, LabelInit, KeepInit, TypeCorrect, PTL
  DEF Spec

LEMMA OnlyWantedStep ==
  ASSUME TypeOK, KeepInv, OnlyWanted, [Next]_vars
  PROVE  OnlyWanted'
<1>1. CASE PruneFolders
  <2>1. gone = Unwanted /\ wanted \cap exclude = {}
    BY <1>1 DEF PruneFolders, KeepInv, ListedInv
  <2> QED BY <1>1, <2>1 DEF PruneFolders, OnlyWanted, Unwanted
<1>2. CASE pc' # "done" \/ UNCHANGED <<pc, label, wanted, exclude>>
  BY <1>2 DEF OnlyWanted
<1> QED
  BY <1>1, <1>2
  DEF Next, RunStep, Start, List, SelectFolder, ReadLabel, ReadUids, ResetFolder,
      DeleteVanished, FetchMeta, SetFlags, FetchBody, Put, ChunkPut, FetchLarge,
      FolderDone, ReadNames, Fail, Stop, Halt, Other, vars, db, ofRun

\* Once a sync has ended, only folders it listed and that are not excluded are
\* in the index.
THEOREM UnwantedAreDropped == Spec => []OnlyWanted
<1>1. Init => OnlyWanted
  BY DEF Init, RunInit, OnlyWanted
<1>2. TypeOK /\ LabelInv /\ [Next]_vars => LabelInv'
  BY LabelStep
<1>3. TypeOK /\ LabelInv /\ KeepInv /\ [Next]_vars => KeepInv'
  BY KeepStepInv
<1>4. TypeOK /\ KeepInv /\ OnlyWanted /\ [Next]_vars => OnlyWanted'
  BY OnlyWantedStep
<1> QED
  BY <1>1, <1>2, <1>3, <1>4, LabelInit, KeepInit, TypeCorrect, PTL DEF Spec

-----------------------------------------------------------------------------
(***************************************************************************)
(* Two processes (TwoSyncs).  The second one may change the database at    *)
(* any moment, so that nothing above holds of the first any more but its   *)
(* types; yet while the first is alone it knows what it knew, and heals    *)
(* each folder it finishes.                                                *)
(***************************************************************************)
\* What is needed of the second process: its label and the UIDVALIDITY it puts
\* under are ones the folder has had.
SecondInv ==
  /\ sel2 \in 0 .. MaxEpoch
  /\ pc2 \in InFolder => cur2 \in Folders
  /\ pc2 = "put" => sess2 \in Epochs /\ sess2 <= epoch[cur2]

\* What is stored was stored under a UIDVALIDITY the folder has had.
StoredUnder ==
  /\ \A f \in Folders, u \in Uids : doc[f][u] <= epoch[f]
  /\ pc = "put" => sess <= epoch[cur]

\* A run that is alone: the label it acts on, the folders it prunes, and the
\* folders it has finished.
AloneInv ==
  alone =>
    /\ ReadInv /\ KnownInv /\ StoredInv
    /\ pc = "uids" => prev = label[cur]
    /\ pc \in {"delete", "meta", "body", "put"} => label[cur] = sel
    /\ pc \in {"prune", "done"} => queue = {}
    /\ pc = "prune" => gone \cap wanted = {}
    /\ pc \in InFolder \cup {"next", "prune", "done"} =>
         \A f \in (wanted \ queue) \cap calm : f # cur => Held(f)

BothInv == TypeOK /\ SecondInv /\ StoredUnder /\ AloneInv

LEMMA BothStart == BothInit => BothInv
<1> SUFFICES ASSUME BothInit PROVE BothInv
  OBVIOUS
<1>1. TypeOK
  BY TypeInit DEF BothInit
<1>2. SecondInv
  BY ServerConstants DEF BothInit, Second!RunInit, SecondInv, InFolder
<1>3. StoredUnder
  BY ServerConstants DEF BothInit, Init, DbInit, ServerInit, RunInit, StoredUnder, NoRows
<1>4. AloneInv
  BY DEF BothInit, Init, RunInit, AloneInv, ReadInv, KnownInv, StoredInv, InFolder
<1> QED BY <1>1, <1>2, <1>3, <1>4 DEF BothInv

\* A write of the second process to a row or a folder's rows.
LEMMA SecondWrites ==
  ASSUME TypeOK, SecondInv, StoredUnder, SecondActs
  PROVE  /\ UNCHANGED server /\ DbOK'
         /\ \A f \in Folders, u \in Uids : doc'[f][u] <= epoch[f]
<1> USE ServerConstants, IndexConstants DEF TypeOK, DbOK, Rows
<1>e. \A f \in Folders : epoch[f] \in Nat /\ 0 <= epoch[f]
  BY EpochNumbers
<1>d. UNCHANGED <<server, db>> =>
        UNCHANGED server /\ DbOK' /\ \A f \in Folders, u \in Uids : doc'[f][u] <= epoch[f]
  BY DEF db, StoredUnder
<1>1. ASSUME NEW x \in Excludes, Second!Start(x)
      PROVE  UNCHANGED <<server, db>>
  BY <1>1 DEF Second!Start, Second!server, Second!db, server, db
<1>2. ASSUME \/ Second!List \/ (\E f \in Folders : Second!SelectFolder(f))
             \/ Second!ReadLabel \/ Second!ReadUids \/ Second!FetchMeta \/ Second!FetchBody
             \/ Second!ChunkPut \/ Second!FetchLarge \/ Second!FolderDone \/ Second!ReadNames
             \/ Second!Fail \/ Second!Stop
      PROVE  UNCHANGED <<server, db>>
  <2> USE DEF Second!server, Second!db, server, db
  <2>1. CASE Second!List \/ (\E f \in Folders : Second!SelectFolder(f))
               \/ Second!ReadLabel \/ Second!ReadUids
    BY <2>1 DEF Second!List, Second!SelectFolder, Second!ReadLabel, Second!ReadUids
  <2>2. CASE Second!FetchMeta \/ Second!FetchBody \/ Second!ChunkPut \/ Second!FetchLarge
    BY <2>2 DEF Second!FetchMeta, Second!FetchBody, Second!ChunkPut, Second!FetchLarge
  <2>3. CASE Second!FolderDone \/ Second!ReadNames \/ Second!Fail \/ Second!Stop
    BY <2>3 DEF Second!FolderDone, Second!ReadNames, Second!Fail, Second!Stop, Second!Halt
  <2> QED BY <1>2, <2>1, <2>2, <2>3
<1>3. CASE Second!ResetFolder
  <2>1. /\ doc' = [doc EXCEPT ![cur2] = NoRows]
        /\ dseen' = [dseen EXCEPT ![cur2] = {}]
        /\ label' = [label EXCEPT ![cur2] = sel2]
        /\ UNCHANGED server
    BY <1>3 DEF Second!ResetFolder, Second!NewLabel, Second!NoRows, Second!NoRow,
                Second!Uids, NoRows, Uids, Second!server, server
  <2>2. DbOK'
    BY <2>1 DEF SecondInv, NoRows
  <2>3. \A f \in Folders, u \in Uids : doc'[f][u] <= epoch[f]
    BY <1>e, <2>1 DEF StoredUnder, NoRows
  <2> QED BY <2>1, <2>2, <2>3
<1>4. CASE Second!DeleteVanished \/ Second!SetFlags
  <2>1. /\ UNCHANGED <<server, label>>
        /\ doc' \in [Folders -> [Uids -> 0 .. MaxEpoch]]
        /\ dseen' \in [Folders -> SUBSET Uids]
        /\ \A f \in Folders, u \in Uids :
             /\ doc'[f][u] \in {NoRow, doc[f][u]}
             /\ u \in dseen'[f] => doc'[f][u] # NoRow
    <3>1. CASE Second!DeleteVanished
      BY <3>1 DEF Second!DeleteVanished, Second!NoRow, Second!Uids, Uids, Second!server, server
    <3>2. CASE Second!SetFlags
      BY <3>2 DEF Second!SetFlags, Second!NoRow, Second!Rows, Second!Uids, Uids,
                  Second!server, server
    <3> QED BY <1>4, <3>1, <3>2
  <2>2. DbOK'
    BY <2>1
  <2>3. \A f \in Folders, u \in Uids : doc'[f][u] <= epoch[f]
    BY <1>e, <2>1 DEF StoredUnder
  <2> QED BY <2>1, <2>2, <2>3
<1>5. ASSUME NEW u \in Uids, Second!Put(u)
      PROVE  UNCHANGED server /\ DbOK' /\ \A f \in Folders, v \in Uids : doc'[f][v] <= epoch[f]
  <2>1. /\ doc' = [doc EXCEPT ![cur2][u] = sess2]
        /\ \E s \in {dseen[cur2] \cup {u}, dseen[cur2] \ {u}} :
             dseen' = [dseen EXCEPT ![cur2] = s]
        /\ UNCHANGED <<server, label>> /\ pc2 = "put"
    BY <1>5 DEF Second!Put, Second!server, server
  <2>2. cur2 \in Folders /\ sess2 \in Epochs /\ sess2 <= epoch[cur2] /\ sess2 # NoRow
    BY <2>1 DEF SecondInv, InFolder
  <2>3. DbOK'
    BY <2>1, <2>2
  <2>4. \A f \in Folders, v \in Uids : doc'[f][v] <= epoch[f]
    BY <2>1, <2>2 DEF StoredUnder
  <2> QED BY <2>1, <2>3, <2>4
<1>6. CASE Second!PruneFolders
  <2>1. /\ doc' = [f \in Folders |-> IF f \in gone2 THEN NoRows ELSE doc[f]]
        /\ dseen' = [f \in Folders |-> IF f \in gone2 THEN {} ELSE dseen[f]]
        /\ label' = [f \in Folders |-> IF f \in gone2 THEN NoRow ELSE label[f]]
        /\ UNCHANGED server
    BY <1>6 DEF Second!PruneFolders, Second!NoRows, Second!NoRow, Second!Uids, NoRows, Uids,
                Second!server, server
  <2>2. DbOK'
    BY <2>1
  <2>3. \A f \in Folders, u \in Uids : doc'[f][u] <= epoch[f]
    BY <1>e, <2>1 DEF StoredUnder, NoRows
  <2> QED BY <2>1, <2>2, <2>3
<1> QED BY <1>1, <1>2, <1>3, <1>4, <1>5, <1>6, <1>d
       DEF SecondActs, Second!RunStep, Second!Uids, Uids

LEMMA SecondStep ==
  ASSUME TypeOK, SecondInv, SecondActs
  PROVE  SecondInv'
<1> USE ServerConstants DEF InFolder, TypeOK, ServerTypeOK
<1>e. \A f \in Folders : epoch[f] \in Epochs /\ epoch[f] \in 0 .. MaxEpoch /\ epoch[f] <= epoch[f]
  BY EpochNumbers DEF Epochs
<1>1. ASSUME NEW x \in Excludes, Second!Start(x)
      PROVE  SecondInv'
  BY <1>1 DEF Second!Start, Second!fetch, Second!server, SecondInv
<1>2. CASE \/ Second!List \/ Second!ReadNames \/ Second!PruneFolders
           \/ Second!Fail \/ Second!Stop \/ Second!FolderDone
  <2>1. /\ pc2' \notin InFolder /\ sel2' \in 0 .. MaxEpoch
    BY <1>2 DEF Second!List, Second!ReadNames, Second!PruneFolders, Second!Fail, Second!Stop,
                Second!Halt, Second!FolderDone, Second!ForgetFolder, Second!fetch, SecondInv
  <2> QED BY <2>1 DEF SecondInv
<1>3. ASSUME NEW f \in Folders, Second!SelectFolder(f)
      PROVE  SecondInv'
  <2>1. cur2' = f /\ sel2' = epoch[f] /\ pc2' = "state"
    BY <1>3 DEF Second!SelectFolder, Second!SelectInfo
  <2> QED BY <2>1, <1>e DEF SecondInv
<1>4. CASE \/ Second!ReadLabel \/ Second!ReadUids \/ Second!ResetFolder \/ Second!DeleteVanished
           \/ Second!FetchMeta \/ Second!SetFlags \/ Second!ChunkPut \/ Second!FetchLarge
  <2>1. UNCHANGED <<sel2, cur2>> /\ pc2 \in InFolder /\ pc2' # "put"
    BY <1>4 DEF Second!ReadLabel, Second!ReadUids, Second!ResetFolder, Second!DeleteVanished,
                Second!FetchMeta, Second!SetFlags, Second!ChunkPut, Second!FetchLarge,
                Second!ofRun, Second!fetch
  <2> QED BY <2>1 DEF SecondInv
<1>5. CASE Second!FetchBody
  <2>1. UNCHANGED <<server, sel2, cur2>> /\ pc2 = "body" /\ sess2' = epoch[cur2]
    BY <1>5 DEF Second!FetchBody, Second!server, server
  <2> QED BY <2>1, <1>e DEF SecondInv, server
<1>6. ASSUME NEW u \in Uids, Second!Put(u)
      PROVE  SecondInv'
  <2>1. UNCHANGED <<server, sel2, cur2, sess2>> /\ pc2 = "put" /\ pc2' = pc2
    BY <1>6 DEF Second!Put, Second!server, Second!ofRun, server
  <2> QED BY <2>1 DEF SecondInv, server
<1> QED BY <1>1, <1>2, <1>3, <1>4, <1>5, <1>6
        DEF SecondActs, Second!RunStep, Second!Uids, Uids

\* What other clients do to folder f.
LEMMA WorldStep ==
  ASSUME TypeOK, NEW f \in Folders, Other(f)
  PROVE  /\ UNCHANGED <<db, ofRun, fetch, gone>> /\ calm' = calm \ {f}
         /\ \A g \in Folders : epoch[g] <= epoch'[g] /\ epoch'[g] \in Nat
         /\ \A g \in Folders \ {f} :
              epoch'[g] = epoch[g] /\ msgs'[g] = msgs[g] /\ seen'[g] = seen[g]
<1>1. \A g \in Folders \ {f} :
        epoch'[g] = epoch[g] /\ msgs'[g] = msgs[g] /\ seen'[g] = seen[g]
  BY OneFolderChanges DEF Other, TypeOK
<1>2. epoch'[f] \in {epoch[f], epoch[f] + 1}
  BY DEF Other, OtherClient, Deliver, ExpungeUid, ToggleSeen, DropFolder, RecreateFolder,
         TypeOK, ServerTypeOK
<1> QED BY <1>1, <1>2, EpochNumbers DEF Other

\* The first process stores under what its FETCH selected.
LEMMA FirstWrites ==
  ASSUME TypeOK, StoredUnder, RunStep \/ Stop
  PROVE  StoredUnder'
<1> USE DEF InFolder
<1>e. \A f \in Folders : epoch[f] \in Nat /\ 0 <= epoch[f]
  BY EpochNumbers
<1>c. pc \in InFolder => cur \in Folders
  BY CurFolder
<1>1. ASSUME NEW w \in Uids, Put(w)
      PROVE  StoredUnder'
  BY <1>1, <1>c DEF Put, StoredUnder, server, ofRun, TypeOK, DbOK
<1>2. CASE FetchBody
  BY <1>2, <1>c, <1>e DEF FetchBody, StoredUnder, server, db
<1>3. CASE PruneFolders
  BY <1>3, <1>e DEF PruneFolders, StoredUnder, server, NoRows
<1>4. CASE ResetFolder \/ DeleteVanished
  BY <1>4, <1>c, <1>e DEF ResetFolder, DeleteVanished, StoredUnder, server, NoRows, TypeOK, DbOK
<1>5. CASE \/ List \/ (\E f \in Folders : SelectFolder(f)) \/ ReadLabel \/ ReadUids \/ FetchMeta
           \/ SetFlags \/ ChunkPut \/ FetchLarge \/ FolderDone \/ ReadNames \/ Fail \/ Stop
  <2>1. UNCHANGED <<epoch, doc>> /\ pc' # "put"
    BY <1>5 DEF List, SelectFolder, ReadLabel, ReadUids, FetchMeta, SetFlags, ChunkPut, FetchLarge,
                FolderDone, ReadNames, Fail, Stop, Halt, server, db, ofRun
  <2> QED BY <2>1 DEF StoredUnder
<1> QED BY <1>1, <1>2, <1>3, <1>4, <1>5 DEF RunStep

\* A run that is alone goes on.
LEMMA AloneRuns ==
  ASSUME TypeOK, AloneInv, alone, alone' = alone, RunStep \/ Stop
  PROVE  AloneInv'
<1> USE DEF InFolder
<1>k. ReadInv' /\ KnownInv' /\ StoredInv'
  BY KnowledgeStep DEF AloneInv, Next
<1>c. pc \in InFolder => cur \in Folders
  BY CurFolder
<1>o. pc \notin InFolder => cur = NoFolder
  BY DEF TypeOK, RunOK
<1>t. /\ wanted \subseteq Folders /\ calm \subseteq Folders /\ NoFolder \notin Folders
      /\ queue \subseteq wanted
  BY IndexConstants DEF TypeOK, RunOK
\* Where no folder is finished, and none is pruned.
<1>h. ASSUME ~PruneFolders, UNCHANGED wanted, NEW f \in (wanted \ queue) \cap calm,
             f # cur, pc \in InFolder \cup {"next", "prune", "done"}
      PROVE  Held(f)'
  <2>1. Held(f) /\ f \in Folders
    BY <1>h, <1>t DEF AloneInv
  <2>2. /\ UNCHANGED server
        /\ label'[f] = label[f] /\ doc'[f] = doc[f] /\ dseen'[f] = dseen[f]
    BY <1>h, <2>1, OwnFolderOnly
  <2> QED BY <2>1, <2>2 DEF Held, Rows, server
<1>1. CASE List \/ Fail \/ Stop
  BY <1>1, <1>k DEF List, Fail, Stop, Halt, AloneInv
<1>2. ASSUME NEW f \in Folders, SelectFolder(f)
      PROVE  AloneInv'
  <2>1. /\ pc = "next" /\ pc' = "state" /\ cur' = f /\ queue' = queue \ {f}
        /\ wanted' = wanted /\ calm' = calm \cup {f} /\ ~PruneFolders
    BY <1>2 DEF SelectFolder, PruneFolders
  <2>2. \A g \in (wanted' \ queue') \cap calm' : g # cur' => Held(g)'
    BY <2>1, <1>h, <1>o, <1>t
  <2> QED BY <1>k, <2>1, <2>2 DEF AloneInv
<1>3. CASE \/ ReadLabel \/ ReadUids \/ ResetFolder \/ DeleteVanished \/ FetchMeta \/ SetFlags
           \/ FetchBody \/ (\E u \in Uids : Put(u)) \/ ChunkPut \/ FetchLarge
  <2>1. /\ UNCHANGED <<wanted, queue, calm, cur, sel>> /\ ~PruneFolders
        /\ pc \in InFolder /\ pc' \in InFolder
    BY <1>3 DEF ReadLabel, ReadUids, ResetFolder, DeleteVanished, FetchMeta, SetFlags, FetchBody,
                Put, ChunkPut, FetchLarge, PruneFolders, ofRun, fetch
  <2>2. \A g \in (wanted' \ queue') \cap calm' : g # cur' => Held(g)'
    BY <2>1, <1>h
  <2>3. /\ pc' = "uids" => prev' = label'[cur]
        /\ pc' \in {"delete", "meta", "body", "put"} => label'[cur] = sel
    <3>1. CASE ReadLabel
      BY <3>1 DEF ReadLabel, db
    <3>2. CASE ReadUids
      BY <3>2 DEF ReadUids, Outdated, db, AloneInv
    <3>3. CASE ResetFolder
      BY <3>3, <1>c DEF ResetFolder, NewLabel, TypeOK, DbOK
    <3>4. CASE ~ReadLabel /\ ~ReadUids /\ ~ResetFolder
      <4>1. UNCHANGED label /\ pc \in {"delete", "meta", "body", "put"} /\ pc' # "uids"
        BY <1>3, <3>4 DEF DeleteVanished, FetchMeta, SetFlags, FetchBody, Put, ChunkPut,
                          FetchLarge, db, ofRun
      <4> QED BY <4>1 DEF AloneInv
    <3> QED BY <3>1, <3>2, <3>3, <3>4
  <2> QED BY <1>k, <2>1, <2>2, <2>3 DEF AloneInv
<1>4. CASE FolderDone
  <2>1. /\ pc = "body" /\ pc' = "next" /\ UNCHANGED <<server, db, wanted, queue, calm>>
        /\ cur' = NoFolder /\ ~PruneFolders
    BY <1>4 DEF FolderDone, ForgetFolder, PruneFolders
  <2>2. ASSUME NEW g \in (wanted \ queue) \cap calm
        PROVE  Held(g)'
    <3>1. CASE g # cur
      BY <2>1, <2>2, <3>1, <1>h
    <3>2. CASE g = cur
      <4>1. Held(g)
        BY <1>4, <2>1, <2>2, <3>2, FinishedIsHeld DEF AloneInv
      <4> QED BY <2>1, <4>1 DEF Held, Rows, server, db
    <3> QED BY <3>1, <3>2
  <2> QED BY <1>k, <2>1, <2>2 DEF AloneInv
<1>5. CASE ReadNames
  <2>1. /\ pc = "next" /\ pc' = "prune" /\ queue = {} /\ gone' \cap wanted = {}
        /\ UNCHANGED <<wanted, queue, calm, cur>> /\ ~PruneFolders
    BY <1>5 DEF ReadNames, Unwanted, PruneFolders
  <2>2. \A g \in (wanted' \ queue') \cap calm' : g # cur' => Held(g)'
    BY <2>1, <1>h
  <2> QED BY <1>k, <2>1, <2>2 DEF AloneInv
<1>6. CASE PruneFolders
  <2>1. /\ pc = "prune" /\ pc' = "done" /\ UNCHANGED <<server, wanted, queue, cur>>
        /\ calm' \subseteq calm
    BY <1>6 DEF PruneFolders
  <2>2. ASSUME NEW g \in (wanted \ queue) \cap calm
        PROVE  Held(g)'
    <3>1. Held(g) /\ g \notin gone /\ g \in Folders
      BY <2>1, <2>2, <1>o, <1>t DEF AloneInv
    <3>2. label'[g] = label[g] /\ doc'[g] = doc[g] /\ dseen'[g] = dseen[g]
      BY <1>6, <3>1 DEF PruneFolders
    <3> QED BY <2>1, <3>1, <3>2 DEF Held, Rows, server
  <2> QED BY <1>k, <2>1, <2>2 DEF AloneInv
<1> QED BY <1>1, <1>2, <1>3, <1>4, <1>5, <1>6 DEF RunStep

LEMMA BothStep ==
  ASSUME BothInv, [BothNext]_<<vars, local2, alone>>
  PROVE  BothInv'
<1> USE DEF BothInv
<1>1. CASE Begin
  <2>1. PICK x \in Excludes : Start(x)
    BY <1>1 DEF Begin
  <2>2. TypeOK'
    BY <2>1, TypeStep DEF Next
  <2>3. /\ UNCHANGED <<server, db, cur, sess, sel2, pc2, cur2, sess2>> /\ pc' = "list"
    BY <1>1, <2>1 DEF Begin, Start, local2, fetch
  <2>4. SecondInv' /\ StoredUnder'
    BY <2>3 DEF SecondInv, StoredUnder, server, db
  <2>5. AloneInv'
    BY <2>3 DEF AloneInv, ReadInv, KnownInv, StoredInv, InFolder
  <2> QED BY <2>2, <2>4, <2>5
<1>2. CASE FirstRuns \/ FirstStops
  <2>1. /\ RunStep \/ Stop
        /\ UNCHANGED <<local2, alone>>
    BY <1>2 DEF FirstRuns, FirstStops
  <2>2. TypeOK' /\ StoredUnder'
    BY <2>1, TypeStep, FirstWrites DEF Next
  <2>3. UNCHANGED epoch
    <3>1. PruneFolders => UNCHANGED server
      BY DEF PruneFolders
    <3> QED BY <2>1, <3>1, OwnFolderOnly DEF server
  <2>4. SecondInv'
    BY <2>1, <2>3 DEF local2, SecondInv
  <2>5. AloneInv'
    <3>1. CASE alone
      BY <2>1, <3>1, AloneRuns
    <3>2. CASE ~alone
      BY <2>1, <3>2 DEF AloneInv
    <3> QED BY <3>1, <3>2
  <2> QED BY <2>2, <2>4, <2>5
<1>3. CASE SecondActs
  <2>1. UNCHANGED server /\ DbOK' /\ \A f \in Folders, u \in Uids : doc'[f][u] <= epoch[f]
    BY <1>3, SecondWrites
  <2>2. UNCHANGED <<ofRun, fetch, gone, calm>> /\ ~alone'
    BY <1>3 DEF SecondActs, local1
  <2>3. TypeOK'
    BY <2>1, <2>2 DEF TypeOK, ServerTypeOK, RunOK, FetchOK, server, ofRun, fetch
  <2>4. StoredUnder'
    BY <2>1, <2>2 DEF StoredUnder, server, ofRun, fetch
  <2> QED BY <1>3, <2>2, <2>3, <2>4, SecondStep DEF AloneInv
<1>4. CASE World
  <2>1. PICK f \in Folders : Other(f)
    BY <1>4 DEF World
  <2>2. UNCHANGED <<pc2, cur2, sel2, sess2, alone>>
    BY <1>4 DEF World
  <2>3. TypeOK' /\ (alone => ReadInv' /\ KnownInv' /\ StoredInv')
    BY <2>1, TypeStep, KnowledgeStep DEF Next, AloneInv
  <2>4. /\ UNCHANGED <<label, doc, dseen, pc, cur, wanted, queue, prev, sel, gone, sess>>
        /\ calm' = calm \ {f}
        /\ \A g \in Folders : epoch[g] <= epoch'[g] /\ epoch'[g] \in Nat
        /\ \A g \in Folders \ {f} :
             epoch'[g] = epoch[g] /\ msgs'[g] = msgs[g] /\ seen'[g] = seen[g]
    BY <2>1, WorldStep DEF db, ofRun, fetch
  <2>5. SecondInv'
    <3>1. pc2 = "put" => cur2 \in Folders /\ sess2 \in Nat /\ sess2 <= epoch[cur2]
      BY ServerConstants DEF SecondInv, InFolder, Epochs
    <3> QED BY <2>2, <2>4, <3>1, EpochNumbers DEF SecondInv
  <2>6. StoredUnder'
    <3>1. pc = "put" => cur \in Folders
      BY CurFolder DEF InFolder
    <3> QED BY <2>4, <3>1, EpochNumbers DEF StoredUnder
  <2>7. AloneInv'
    <3> SUFFICES ASSUME alone PROVE AloneInv'
      BY <2>2 DEF AloneInv
    <3>1. \A g \in (wanted \ queue) \cap calm' : Held(g) => Held(g)'
      BY <2>4 DEF Held, Rows, TypeOK, RunOK
    <3> QED BY <2>2, <2>3, <2>4, <3>1 DEF AloneInv
  <2> QED BY <2>3, <2>5, <2>6, <2>7
<1>5. CASE UNCHANGED <<vars, local2, alone>>
  <2>1. TypeOK'
    BY <1>5, TypeStep
  <2>2. UNCHANGED <<server, db, ofRun, fetch, gone, calm, pc2, sel2, cur2, sess2, alone>>
    BY <1>5 DEF vars, local2
  <2>3. SecondInv' /\ StoredUnder'
    BY <2>2 DEF SecondInv, StoredUnder, server, db, ofRun, fetch
  <2>4. AloneInv'
    BY <2>2 DEF AloneInv, ReadInv, KnownInv, StoredInv, Unread, Held, Rows, server, db,
                ofRun, fetch
  <2> QED BY <2>1, <2>3, <2>4
<1> QED BY <1>1, <1>2, <1>3, <1>4, <1>5 DEF BothNext

\* Whatever two overlapping runs left behind, a run that overlaps no other
\* brings the folders nobody changes meanwhile in line again: UIDs and flags
\* always, and what is stored too in a folder that was never created anew
\* (HealedAlone; sync.go:76-118).
THEOREM HealsAlone == BothSpec => []HealedAlone
<1>1. BothInv => HealedAlone
  <2> SUFFICES ASSUME BothInv, alone, pc = "done", NEW f \in wanted \cap calm
               PROVE  Held(f) /\ (epoch[f] = 1 => Exact(f))
    BY DEF HealedAlone, Held
  <2> USE DEF BothInv
  <2>1. f \in Folders /\ f # cur
    BY IndexConstants DEF TypeOK, RunOK, InFolder
  <2>2. Held(f)
    BY <2>1 DEF AloneInv
  <2>3. ASSUME epoch[f] = 1, NEW u \in msgs[f]
        PROVE  doc[f][u] = epoch[f]
    <3>1. u \in Uids /\ doc[f][u] # 0 /\ doc[f][u] \in Nat
      BY <2>1, <2>2, EpochNumbers, ServerConstants DEF Held, Rows, TypeOK, ServerTypeOK
    <3> QED BY <2>1, <2>3, <3>1 DEF StoredUnder
  <2> QED BY <2>2, <2>3 DEF Held, Exact
<1>2. BothInv /\ [BothNext]_<<vars, local2, alone>> => BothInv'
  BY BothStep
<1> QED BY <1>1, <1>2, BothStart, PTL DEF BothSpec
=============================================================================
