---------------------------- MODULE BackupProofs ----------------------------
(***************************************************************************)
(* Proofs about Backup: type correctness, that the UIDVALIDITY label of an *)
(* index can be trusted, and that a backup is a copy of the mailbox in the *)
(* sense of MailCopy (BackupIsCopy).                                       *)
(***************************************************************************)
EXTENDS Backup, ImapProofs

USE DEF NoSession, Absent, Torn

\* What the assumptions on the constants say of the sets built from them.
LEMMA ConstantsOK ==
  /\ MaxUid \in Nat
  /\ MaxEpoch \in Nat \ {0}
  /\ NoFolder \notin Folders
  /\ Uids \subseteq Nat
  /\ Epochs \subseteq Nat \ {0}
  /\ \A e \in Epochs : e \in 0 .. MaxEpoch
BY ServerConstants, BackupAssumption

-----------------------------------------------------------------------------
LEMMA FileTypes ==
  /\ NoEntries \in [Uids -> 0 .. MaxEpoch]
  /\ NoEntries \in [Uids -> Contents]
  /\ NoIndex \in IndexFiles
  /\ TornIndex \in IndexFiles
<1>1. NoEntries \in [Uids -> 0 .. MaxEpoch] /\ NoEntries \in [Uids -> Contents]
  BY ConstantsOK DEF NoEntries, Contents
<1>2. NoIndex \in IndexFiles
  BY <1>1, ConstantsOK DEF NoIndex, IndexFiles
<1>3. TornIndex \in IndexFiles
  BY <1>2 DEF TornIndex, IndexFiles
<1> QED BY <1>1, <1>2, <1>3

\* The index written at the end of backupFolder is well formed.
LEMMA NewIndexType ==
  ASSUME TypeOK, cur \in Folders
  PROVE  NewIndex \in IndexFiles
<1> USE ConstantsOK DEF TypeOK, DiskOK, FetchOK
<1>1. index[cur] \in IndexFiles
  OBVIOUS
<1>2. MirrorIndex \in IndexFiles
  BY DEF MirrorIndex, IndexFiles
<1>3. MergedIndex \in IndexFiles
  BY <1>1 DEF MergedIndex, IndexFiles
<1> QED BY <1>2, <1>3 DEF NewIndex

\* Removing files leaves a directory of files.
LEMMA WithoutType ==
  ASSUME DiskOK, NEW f \in Folders, NEW S
  PROVE  Without(f, S) \in [Uids -> Contents]
BY DEF DiskOK, Without, Contents

\* A run that ends early leaves its own state well formed.
LEMMA HaltType ==
  ASSUME TypeOK, Halt
  PROVE  ServerTypeOK' /\ RunOK' /\ FetchOK'
<1> USE ConstantsOK DEF TypeOK, Halt
<1>1. ServerTypeOK'
  BY DEF server, ServerTypeOK
<1>2. RunOK'
  BY DEF RunOK, ForgetFolder, Resting, InFolder
<1>3. FetchOK'
  BY FileTypes DEF FetchOK, ForgetFolder
<1> QED BY <1>1, <1>2, <1>3

\* Every step keeps the types.
LEMMA TypeStep ==
  ASSUME TypeOK, [Next]_vars
  PROVE  TypeOK'
<1> USE ConstantsOK DEF TypeOK, Resting, Working, InFolder
<1>s. UNCHANGED server => ServerTypeOK'
  BY DEF server, ServerTypeOK
<1>d. UNCHANGED disk => DiskOK'
  BY DEF disk, DiskOK
<1>f. UNCHANGED <<fetch, pc>> => FetchOK'
  BY DEF fetch, FetchOK
<1>1. ASSUME NEW m \in Modes, NEW w \in Scopes, Start(m, w)
      PROVE  TypeOK'
  <2>1. RunOK' /\ FetchOK'
    BY <1>1, BackupAssumption DEF Start, RunOK, FetchOK, fetch
  <2> QED BY <1>1, <1>s, <1>d, <2>1 DEF Start
<1>2. CASE List
  <2>1. RunOK' /\ FetchOK'
    BY <1>2 DEF List, RunOK, Selectable, ServerTypeOK, FetchOK, fetch
  <2> QED BY <1>2, <1>s, <1>d, <2>1 DEF List
<1>3. ASSUME NEW f \in Folders, SelectFolder(f)
      PROVE  TypeOK'
  <2> USE <1>3 DEF SelectFolder, SelectInfo
  <2>1. DiskOK'
    BY DEF DiskOK
  <2>2. RunOK'
    BY DEF RunOK
  <2>3. FetchOK'
    BY FileTypes DEF FetchOK, ServerTypeOK
  <2> QED BY <1>s, <2>1, <2>2, <2>3
<1>4. CASE ClearFolder
  <2> USE <1>4 DEF ClearFolder
  <2>1. DiskOK'
    BY FileTypes DEF DiskOK
  <2>2. RunOK' /\ FetchOK'
    BY DEF RunOK, FetchOK, fetch
  <2> QED BY <1>s, <2>1, <2>2
<1>5. CASE FetchMeta
  <2> USE <1>5 DEF FetchMeta
  <2>1. RunOK'
    BY DEF RunOK, run
  <2>2. cur \in Folders
    BY DEF RunOK
  <2>3. FetchOK'
    BY <2>2, ChunkSubset DEF FetchOK, ServerTypeOK, Answered, run
  <2> QED BY <1>s, <1>d, <2>1, <2>3
<1>6. CASE ScanMissing
  BY <1>6, <1>s, <1>d DEF ScanMissing, RunOK, FetchOK, Missing
<1>7. CASE FetchRaw
  <2> USE <1>7 DEF FetchRaw
  <2>1. RunOK'
    BY DEF RunOK
  <2>2. cur \in Folders
    BY DEF RunOK
  <2>3. FetchOK'
    BY <2>2, ChunkSubset DEF FetchOK, ServerTypeOK, Answered
  <2> QED BY <1>s, <1>d, <2>1, <2>3
<1>8. ASSUME NEW u \in Uids, WriteBody(u)
      PROVE  TypeOK'
  <2> USE <1>8 DEF WriteBody
  <2>1. DiskOK'
    BY DEF DiskOK, FetchOK, Contents
  <2>2. RunOK' /\ FetchOK'
    BY DEF RunOK, FetchOK, run
  <2> QED BY <1>s, <2>1, <2>2
<1>9. CASE ChunkWritten
  BY <1>9, <1>s, <1>d DEF ChunkWritten, RunOK, FetchOK, fetch
<1>10. CASE PruneMessages
  <2> USE <1>10 DEF PruneMessages
  <2>1. cur \in Folders
    BY DEF RunOK
  <2>2. DiskOK'
    BY <2>1, WithoutType DEF DiskOK
  <2>3. RunOK' /\ FetchOK'
    BY DEF RunOK, FetchOK, fetch
  <2> QED BY <1>s, <2>2, <2>3
<1>11. CASE WriteIndex
  <2> USE <1>11 DEF WriteIndex
  <2>1. cur \in Folders
    BY DEF RunOK
  <2>2. DiskOK'
    BY <2>1, NewIndexType DEF DiskOK
  <2>3. RunOK'
    BY <2>1 DEF RunOK, ForgetFolder
  <2>4. FetchOK'
    BY FileTypes DEF FetchOK, ForgetFolder
  <2> QED BY <1>s, <2>2, <2>3, <2>4
<1>12. CASE LastFolderDone
  BY <1>12, <1>s, <1>d DEF LastFolderDone, RunOK, FetchOK, fetch
<1>13. ASSUME NEW d \in Folders, PruneFolder(d)
      PROVE  TypeOK'
  <2> USE <1>13 DEF PruneFolder
  <2>1. DiskOK'
    BY FileTypes DEF DiskOK
  <2>2. RunOK' /\ FetchOK'
    BY DEF RunOK, FetchOK, run, fetch
  <2> QED BY <1>s, <2>1, <2>2
<1>14. CASE FoldersPruned
  BY <1>14, <1>s, <1>d DEF FoldersPruned, RunOK, FetchOK, fetch
<1>15. CASE WriteManifest
  <2> USE <1>15 DEF WriteManifest
  <2>1. DiskOK'
    BY DEF DiskOK, RunOK, ManifestFiles
  <2>2. RunOK' /\ FetchOK'
    BY DEF RunOK, FetchOK, fetch
  <2> QED BY <1>s, <2>1, <2>2
<1>16. CASE Fail
  BY <1>16, <1>d, HaltType DEF Fail
<1>17. CASE Stop
  BY <1>17, <1>d, HaltType DEF Stop
<1>18. ASSUME NEW S \in SUBSET Uids, StopRemoving(S)
      PROVE  TypeOK'
  <2>1. DiskOK'
    BY <1>18, WithoutType DEF StopRemoving, DiskOK, RunOK
  <2> QED BY <1>18, <2>1, HaltType DEF StopRemoving
<1>19. ASSUME NEW u \in Uids, StopInBody(u)
      PROVE  TypeOK'
  <2>1. DiskOK'
    BY <1>19 DEF StopInBody, DiskOK, Contents
  <2> QED BY <1>19, <2>1, HaltType DEF StopInBody
<1>20. CASE StopInIndex
  <2>1. DiskOK'
    BY <1>20, FileTypes DEF StopInIndex, DiskOK
  <2> QED BY <1>20, <2>1, HaltType DEF StopInIndex
<1>21. CASE StopInManifest
  <2>1. DiskOK'
    BY <1>21 DEF StopInManifest, DiskOK, ManifestFiles
  <2> QED BY <1>21, <2>1, HaltType DEF StopInManifest
<1>22. ASSUME NEW d \in Folders, NEW S \in SUBSET Uids, StopPruning(d, S)
      PROVE  TypeOK'
  <2>1. Without(d, S) \in [Uids -> Contents]
    BY WithoutType
  <2>2. index' \in [Folders -> IndexFiles]
    BY <1>22, FileTypes DEF StopPruning, DiskOK
  <2>3. DiskOK'
    BY <1>22, <2>1, <2>2 DEF StopPruning, DiskOK
  <2> QED BY <1>22, <2>3, HaltType DEF StopPruning
<1>23. ASSUME NEW f \in Folders, Other(f)
      PROVE  TypeOK'
  <2>1. RunOK' /\ FetchOK'
    BY <1>23 DEF Other, RunOK, FetchOK, run, fetch
  <2> QED BY <1>23, <2>1, <1>d, ServerStep DEF Other
<1>24. CASE UNCHANGED vars
  <2>1. RunOK'
    BY <1>24 DEF vars, RunOK, run
  <2> QED BY <1>24, <1>s, <1>d, <1>f, <2>1 DEF vars, run
<1> QED
  BY <1>1, <1>2, <1>3, <1>4, <1>5, <1>6, <1>7, <1>8, <1>9, <1>10, <1>11,
     <1>12, <1>13, <1>14, <1>15, <1>16, <1>17, <1>18, <1>19, <1>20, <1>21,
     <1>22, <1>23, <1>24
  DEF Next, RunStep, Cut

LEMMA TypeInit == Init => TypeOK
<1> SUFFICES ASSUME Init PROVE TypeOK
  OBVIOUS
<1> USE ConstantsOK, FileTypes DEF Init
<1>1. ServerTypeOK
  BY DEF ServerInit, ServerTypeOK, Epochs
<1>2. DiskOK
  BY DEF DiskOK, ManifestFiles
<1>3. RunOK
  BY DEF RunOK, Resting, InFolder
<1>4. FetchOK
  BY DEF FetchOK
<1> QED BY <1>1, <1>2, <1>3, <1>4 DEF TypeOK

\* Whatever other clients do and wherever a run is cut short, the mailbox, the
\* directory and the run's variables keep their types.
THEOREM TypeCorrect == Spec => []TypeOK
<1>1. TypeOK /\ [Next]_vars => TypeOK'
  BY TypeStep
<1> QED BY <1>1, TypeInit, PTL DEF Spec

-----------------------------------------------------------------------------
(***************************************************************************)
(* The label of an index.  Where LabelTrusted only speaks of a label equal *)
(* to the present epoch, the inductive invariant orders every epoch that   *)
(* is around: label <= selected <= fetched <= present.                     *)
(***************************************************************************)
Between(x, lo, f) == x > 0 => lo <= x /\ x <= epoch[f]

FilesInv == \A f \in Folders, u \in Uids : Between(eml[f][u], 1, f)

IndexInv ==
  \A f \in Folders : index[f].status = "ok" =>
    /\ 1 <= index[f].val /\ index[f].val <= epoch[f]
    /\ \A u \in Uids : /\ Between(eml[f][u], index[f].val, f)
                       /\ Between(index[f].entry[u], index[f].val, f)

FetchInv ==
  pc \in InFolder =>
    /\ 1 <= sel /\ sel <= epoch[cur]
    /\ index[cur].status = "ok" => index[cur].val <= sel
    /\ \A u \in Uids : Between(metas[u], sel, cur)
    /\ pc = "clear" => Reset(cur, sel)
    /\ pc # "clear" => \A u \in Uids : Between(eml[cur][u], sel, cur)
    /\ pc = "write" => sel <= sess /\ sess <= epoch[cur]

LabelInv == FilesInv /\ IndexInv /\ FetchInv

LEMMA LabelInit == Init => LabelInv
BY ConstantsOK DEF Init, ServerInit, LabelInv, FilesInv, IndexInv, FetchInv,
                   Between, NoEntries, NoIndex, InFolder

\* Epochs as numbers, for the comparisons below.
LEMMA EpochNumbers ==
  ASSUME TypeOK
  PROVE  /\ \A f \in Folders : epoch[f] \in Nat
         /\ \A f \in Folders, u \in Uids : eml[f][u] \in {Absent, Torn} \cup Nat
         /\ \A f \in Folders : /\ index[f].val \in Nat
                               /\ \A u \in Uids : index[f].entry[u] \in Nat
         /\ sel \in Nat /\ sess \in Nat
         /\ \A u \in Uids : metas[u] \in Nat
<1> USE ConstantsOK DEF TypeOK
<1>1. \A f \in Folders : index[f] \in IndexFiles
  BY DEF DiskOK
<1>2. \A f \in Folders : /\ index[f].val \in Nat
                         /\ \A u \in Uids : index[f].entry[u] \in Nat
  BY <1>1 DEF IndexFiles
<1>3. \A f \in Folders, u \in Uids : eml[f][u] \in Contents
  BY DEF DiskOK
<1>4. Contents \subseteq {Absent, Torn} \cup Nat
  BY DEF Contents
<1>5. \A f \in Folders, u \in Uids : eml[f][u] \in {Absent, Torn} \cup Nat
  BY <1>3, <1>4
<1>6. \A f \in Folders : epoch[f] \in Nat
  BY DEF ServerTypeOK
<1>7. sel \in Nat /\ sess \in Nat /\ \A u \in Uids : metas[u] \in Nat
  BY DEF FetchOK
<1> QED BY <1>2, <1>5, <1>6, <1>7

LEMMA LabelGivesProperty == TypeOK /\ LabelInv => LabelTrusted
<1> SUFFICES ASSUME TypeOK, LabelInv, NEW f \in Folders, NEW u \in Uids,
                    index[f].status = "ok", index[f].val = epoch[f]
             PROVE  /\ eml[f][u] \in {Absent, Torn, epoch[f]}
                    /\ index[f].entry[u] \in {Absent, epoch[f]}
  BY DEF LabelTrusted
<1>1. Between(eml[f][u], epoch[f], f) /\ Between(index[f].entry[u], epoch[f], f)
  BY DEF LabelInv, IndexInv
<1> QED BY <1>1, EpochNumbers DEF Between

\* A run that ends early forgets what it knew of its folder.
LEMMA HaltLabel ==
  ASSUME TypeOK, LabelInv, Halt, FilesInv', IndexInv'
  PROVE  LabelInv'
BY DEF LabelInv, FetchInv, Halt, InFolder

\* Files removed and an index taken away never break a label.
LEMMA RemovalLabel ==
  ASSUME TypeOK, LabelInv, NEW f \in Folders, NEW S, UNCHANGED epoch,
         eml' = [eml EXCEPT ![f] = Without(f, S)],
         index' \in {index, [index EXCEPT ![f] = NoIndex]}
  PROVE  FilesInv' /\ IndexInv'
<1>1. \A g \in Folders, u \in Uids : eml'[g][u] \in {Absent, eml[g][u]}
  BY DEF TypeOK, DiskOK, Without
<1>2. FilesInv'
  BY <1>1, EpochNumbers DEF LabelInv, FilesInv, Between
<1>3. \A g \in Folders : index'[g].status = "ok" => index'[g] = index[g]
  BY DEF TypeOK, DiskOK, NoIndex
<1>4. IndexInv'
  BY <1>1, <1>3, EpochNumbers DEF LabelInv, IndexInv, Between
<1> QED BY <1>2, <1>4

LEMMA LabelStep ==
  ASSUME TypeOK, LabelInv, [Next]_vars
  PROVE  LabelInv'
<1> USE EpochNumbers DEF InFolder
<1>c. pc \in InFolder => cur \in Folders
  BY DEF TypeOK, RunOK
<1>d. UNCHANGED <<epoch, eml, index>> => FilesInv' /\ IndexInv'
  BY DEF LabelInv, FilesInv, IndexInv, Between
\* Steps between folders leave FetchInv empty.
<1>o. pc' \notin InFolder => FetchInv'
  BY DEF FetchInv
<1>1. ASSUME NEW m \in Modes, NEW w \in Scopes, Start(m, w)
      PROVE  LabelInv'
  BY <1>1, <1>d, <1>o DEF Start, LabelInv, server, disk
<1>2. CASE List
  BY <1>2, <1>d, <1>o DEF List, LabelInv, server, disk
<1>3. ASSUME NEW f \in Folders, SelectFolder(f)
      PROVE  LabelInv'
  <2> USE <1>3 DEF SelectFolder, SelectInfo
  <2>1. epoch[f] >= 1
    BY ConstantsOK DEF TypeOK, ServerTypeOK, Epochs
  <2>2. sel' = epoch[f] /\ cur' = f /\ UNCHANGED <<epoch, eml, index>>
    BY DEF server
  <2>3. /\ pc' \in {"clear", "meta"}
        /\ pc' = "clear" => Reset(f, epoch[f])
        /\ pc' = "meta" => index[f].status = "ok" /\ index[f].val = epoch[f]
    BY DEF Reset
  <2>4. \A u \in Uids : Between(metas[u], sel, cur)'
    BY DEF Between, NoEntries
  <2>5. pc' = "meta" => \A u \in Uids : Between(eml[cur][u], sel, cur)'
    BY <2>2, <2>3 DEF LabelInv, IndexInv, Between
  <2>6. FetchInv'
    BY <2>1, <2>2, <2>3, <2>4, <2>5 DEF LabelInv, FetchInv, IndexInv, Reset
  <2> QED BY <2>2, <2>6, <1>d DEF LabelInv
<1>4. CASE ClearFolder
  <2> USE <1>4, <1>c DEF ClearFolder
  <2>1. \A f \in Folders, u \in Uids : eml'[f][u] \in {Absent, eml[f][u]}
    BY DEF TypeOK, DiskOK, NoEntries
  <2>2. UNCHANGED <<epoch, index>>
    BY DEF server
  <2>3. FilesInv' /\ IndexInv'
    BY <2>1, <2>2 DEF LabelInv, FilesInv, IndexInv, Between
  <2>4. \A u \in Uids : eml'[cur][u] = Absent
    BY DEF TypeOK, DiskOK, NoEntries
  <2>5. FetchInv'
    BY <2>2, <2>4 DEF LabelInv, FetchInv, Between, fetch
  <2> QED BY <2>3, <2>5 DEF LabelInv
<1>5. CASE FetchMeta
  <2> USE <1>5, <1>c DEF FetchMeta
  <2>1. UNCHANGED <<epoch, eml, index, cur, sel, pc>>
    BY DEF server, disk, run
  <2>2. \A u \in Uids : metas'[u] \in {epoch[cur], metas[u]}
    OBVIOUS
  <2>3. FetchInv'
    BY <2>1, <2>2 DEF LabelInv, FetchInv, Between
  <2> QED BY <2>1, <2>3, <1>d DEF LabelInv
<1>6. CASE ScanMissing
  BY <1>6, <1>c, <1>d DEF ScanMissing, LabelInv, FetchInv, Between, server, disk
<1>7. CASE FetchRaw
  BY <1>7, <1>c, <1>d DEF FetchRaw, LabelInv, FetchInv, Between, server, disk
<1>8. ASSUME NEW w \in Uids, WriteBody(w)
      PROVE  LabelInv'
  <2> USE <1>8, <1>c DEF WriteBody
  <2>1. UNCHANGED <<epoch, index, cur, sel, sess, metas, pc>>
    BY DEF server, run
  <2>2. \A f \in Folders, u \in Uids :
          eml'[f][u] = IF f = cur /\ u = w THEN sess ELSE eml[f][u]
    BY DEF TypeOK, DiskOK
  <2>3. /\ 1 <= sel /\ sel <= sess /\ sess <= epoch[cur]
        /\ index[cur].status = "ok" => index[cur].val <= sel
    BY DEF LabelInv, FetchInv
  <2>4. FilesInv'
    BY <2>1, <2>2, <2>3 DEF LabelInv, FilesInv, Between
  <2>5. IndexInv'
    BY <2>1, <2>2, <2>3 DEF LabelInv, IndexInv, Between
  <2>6. FetchInv'
    BY <2>1, <2>2, <2>3 DEF LabelInv, FetchInv, Between
  <2> QED BY <2>4, <2>5, <2>6 DEF LabelInv
<1>9. CASE ChunkWritten
  BY <1>9, <1>c, <1>d
  DEF ChunkWritten, LabelInv, FetchInv, Between, server, disk, fetch
<1>10. CASE PruneMessages
  <2> USE <1>10, <1>c DEF PruneMessages
  <2>1. UNCHANGED <<epoch, index, cur, sel, sess, metas>>
    BY DEF server, fetch
  <2>2. FilesInv' /\ IndexInv'
    BY <2>1, RemovalLabel
  <2>3. \A u \in Uids : eml'[cur][u] \in {Absent, eml[cur][u]}
    BY DEF TypeOK, DiskOK, Without
  <2>4. FetchInv'
    BY <2>1, <2>3 DEF LabelInv, FetchInv, Between
  <2> QED BY <2>2, <2>4 DEF LabelInv
<1>11. CASE WriteIndex
  <2> USE <1>11, <1>c DEF WriteIndex
  <2>1. UNCHANGED <<epoch, eml>>
    BY DEF server
  <2>2. /\ NewIndex.val = sel
        /\ \A u \in Uids : \/ NewIndex.entry[u] = metas[u]
                           \/ /\ ~Reset(cur, sel)
                              /\ NewIndex.entry[u] = index[cur].entry[u]
    BY DEF NewIndex, MirrorIndex, MergedIndex
  <2>3. \A f \in Folders : index'[f] = IF f = cur THEN NewIndex ELSE index[f]
    BY DEF TypeOK, DiskOK
  <2>4. /\ 1 <= sel /\ sel <= epoch[cur]
        /\ \A u \in Uids : /\ Between(metas[u], sel, cur)
                           /\ Between(eml[cur][u], sel, cur)
    BY DEF LabelInv, FetchInv
  <2>5. ~Reset(cur, sel) =>
          \A u \in Uids : Between(index[cur].entry[u], sel, cur)
    BY DEF Reset, LabelInv, IndexInv
  <2>6. \A u \in Uids : Between(NewIndex.entry[u], sel, cur)
    BY <2>2, <2>4, <2>5
  <2>7. IndexInv'
    BY <2>1, <2>2, <2>3, <2>4, <2>6 DEF LabelInv, IndexInv, Between
  <2>8. FilesInv'
    BY <2>1 DEF LabelInv, FilesInv, Between
  <2> QED BY <2>7, <2>8, <1>o DEF LabelInv
<1>12. CASE LastFolderDone
  BY <1>12, <1>d, <1>o DEF LastFolderDone, LabelInv, server, disk
<1>13. ASSUME NEW d \in Folders, PruneFolder(d)
      PROVE  LabelInv'
  <2> USE <1>13 DEF PruneFolder
  <2>1. Without(d, Uids) = NoEntries
    BY DEF Without, NoEntries
  <2>2. FilesInv' /\ IndexInv'
    BY <2>1, RemovalLabel DEF server
  <2> QED BY <2>2, <1>o DEF LabelInv, run
<1>14. CASE FoldersPruned
  BY <1>14, <1>d, <1>o DEF FoldersPruned, LabelInv, server, disk
<1>15. CASE WriteManifest
  BY <1>15, <1>d, <1>o DEF WriteManifest, LabelInv, server
<1>16. CASE Fail
  BY <1>16, <1>d, HaltLabel DEF Fail, Halt, disk, server
<1>17. CASE Stop
  BY <1>17, <1>d, HaltLabel DEF Stop, Halt, disk, server
<1>18. ASSUME NEW S \in SUBSET Uids, StopRemoving(S)
      PROVE  LabelInv'
  <2>1. FilesInv' /\ IndexInv'
    BY <1>18, <1>c, RemovalLabel DEF StopRemoving, Halt, server
  <2> QED BY <1>18, <2>1, HaltLabel DEF StopRemoving
<1>19. ASSUME NEW w \in Uids, StopInBody(w)
      PROVE  LabelInv'
  <2> USE <1>19, <1>c DEF StopInBody
  <2>1. UNCHANGED <<epoch, index>>
    BY DEF Halt, server
  <2>2. \A f \in Folders, u \in Uids : eml'[f][u] \in {Torn, eml[f][u]}
    BY DEF TypeOK, DiskOK
  <2>3. FilesInv' /\ IndexInv'
    BY <2>1, <2>2 DEF LabelInv, FilesInv, IndexInv, Between
  <2> QED BY <2>3, HaltLabel
<1>20. CASE StopInIndex
  <2> USE <1>20, <1>c DEF StopInIndex
  <2>1. UNCHANGED <<epoch, eml>>
    BY DEF Halt, server
  <2>2. \A f \in Folders : index'[f].status = "ok" => index'[f] = index[f]
    BY DEF TypeOK, DiskOK, TornIndex, NoIndex
  <2>3. FilesInv' /\ IndexInv'
    BY <2>1, <2>2 DEF LabelInv, FilesInv, IndexInv, Between
  <2> QED BY <2>3, HaltLabel
<1>21. CASE StopInManifest
  BY <1>21, <1>d, HaltLabel DEF StopInManifest, Halt, server
<1>22. ASSUME NEW d \in Folders, NEW S \in SUBSET Uids, StopPruning(d, S)
      PROVE  LabelInv'
  <2>1. FilesInv' /\ IndexInv'
    BY <1>22, RemovalLabel DEF StopPruning, Halt, server
  <2> QED BY <1>22, <2>1, HaltLabel DEF StopPruning
<1>23. ASSUME NEW f \in Folders, Other(f)
      PROVE  LabelInv'
  <2> USE <1>23 DEF Other
  <2>1. \A g \in Folders : epoch[g] <= epoch'[g] /\ epoch'[g] \in Nat
    BY EpochGrows, ServerStep, ConstantsOK DEF TypeOK, ServerTypeOK
  <2>2. UNCHANGED <<eml, index, pc, cur, sel, metas, sess>>
    BY DEF disk, run, fetch
  <2>3. FilesInv' /\ IndexInv'
    BY <2>1, <2>2 DEF LabelInv, FilesInv, IndexInv, Between
  <2>4. FetchInv'
    BY <2>1, <2>2, <1>c DEF LabelInv, FetchInv, Between, Reset
  <2> QED BY <2>3, <2>4 DEF LabelInv
<1>24. CASE UNCHANGED vars
  BY <1>24, <1>c, <1>d
  DEF vars, run, fetch, disk, server, LabelInv, FetchInv, Between, Reset
<1> QED
  BY <1>1, <1>2, <1>3, <1>4, <1>5, <1>6, <1>7, <1>8, <1>9, <1>10, <1>11,
     <1>12, <1>13, <1>14, <1>15, <1>16, <1>17, <1>18, <1>19, <1>20, <1>21,
     <1>22, <1>23, <1>24
  DEF Next, RunStep, Cut

\* When index.json carries the folder's present UIDVALIDITY, every file and
\* entry beside it is of that incarnation.
THEOREM LabelsAreTrusted == Spec => []LabelTrusted
<1>1. TypeOK /\ LabelInv /\ [Next]_vars => LabelInv'
  BY LabelStep
<1> QED
  BY <1>1, LabelInit, LabelGivesProperty, TypeCorrect, PTL DEF Spec

-----------------------------------------------------------------------------
(***************************************************************************)
(* Proof that no step of any run destroys a restorable message, the heart  *)
(* of BackupIsCopy.  The danger is in what backupFolder decided earlier:   *)
(* to reset, to prune a UID it did not see, to download a UID it found no  *)
(* file for, to prune a folder it did not list.  The invariant says what   *)
(* each of those decisions still guarantees when it is acted upon.         *)
(***************************************************************************)
\* UIDs that were handed out stay below uidnext.
UidInv ==
  /\ \A f \in Folders, u \in Uids : eml[f][u] = epoch[f] => u < uidnext[f]
  /\ pc \in InFolder /\ sel = epoch[cur] => \A u \in uids : u < uidnext[cur]
  /\ pc = "write" /\ sess = epoch[cur] => \A u \in buf : u < uidnext[cur]

\* While the selected incarnation lives, its messages that are on disk were
\* listed by SelectInfo, and those FetchMeta asked for were answered.
SelectedInv ==
  pc \in InFolder /\ sel = epoch[cur] =>
    \A u \in msgs[cur] :
      /\ eml[cur][u] = epoch[cur] => u \in uids
      /\ u \in uids /\ (pc \in {"clear", "meta"} => u \notin todo) =>
           metas[u] = epoch[cur]

\* What is being downloaded has no file yet.
AbsentInv ==
  pc \in {"raw", "write"} =>
    /\ todo \cap buf = {}
    /\ \A u \in todo \cup buf : eml[cur][u] = Absent

\* In a run over all folders, a folder that is not on the list was created
\* after the list was made, so whatever index it has is of an older one.
ListedInv ==
  /\ want = {} /\ pc \in InFolder \cup {"next", "prune"} =>
       \A f \in live \ Noselect :
         f \in queue \cup done \cup {cur} \/
         (index[f].status = "ok" => index[f].val < epoch[f])
  /\ pc = "prune" => mirror /\ want = {} /\ queue = {}

KeepInv == UidInv /\ SelectedInv /\ AbsentInv /\ ListedInv

LEMMA KeepInit == Init => KeepInv
<1> SUFFICES ASSUME Init PROVE KeepInv
  OBVIOUS
<1>1. pc = "idle"
  BY DEF Init
<1>2. \A f \in Folders, u \in Uids : eml[f][u] = 0 /\ epoch[f] = 1
  BY DEF Init, ServerInit, NoEntries
<1>3. UidInv
  BY <1>1, <1>2 DEF UidInv, InFolder
<1>4. SelectedInv /\ AbsentInv /\ ListedInv
  BY <1>1 DEF SelectedInv, AbsentInv, ListedInv, InFolder
<1> QED BY <1>3, <1>4 DEF KeepInv

LEMMA CurFolder == TypeOK => (pc \in InFolder => cur \in Folders)
BY DEF TypeOK, RunOK

\* A reset never hits an index that is labelled with the present epoch.
LEMMA ResetIsJustified ==
  ASSUME TypeOK, LabelInv, pc \in InFolder, Reset(cur, sel)
  PROVE  ~(index[cur].status = "ok" /\ index[cur].val = epoch[cur])
BY EpochNumbers, CurFolder DEF LabelInv, FetchInv, Reset

\* The messages removed by pruneMessages are not on the server.
LEMMA VanishedAreGone ==
  ASSUME TypeOK, LabelInv, KeepInv, pc \in InFolder,
         NEW u \in Vanished, Restorable(cur, u)
  PROVE  mirror /\ u \notin msgs[cur]
<1>1. mirror /\ ~Reset(cur, sel) /\ u \notin uids
  BY DEF Vanished
<1>2. sel = epoch[cur]
  BY <1>1 DEF Reset, Restorable
<1>3. eml[cur][u] = epoch[cur]
  BY DEF Restorable
<1>4. u \notin msgs[cur]
  BY <1>1, <1>2, <1>3 DEF KeepInv, SelectedInv
<1> QED BY <1>1, <1>4

\* The folders removed by pruneFolders hold no message of theirs.
LEMMA PrunableAreGone ==
  ASSUME TypeOK, KeepInv, pc = "prune", NEW d \in Folders, d \in Prunable,
         NEW u \in Uids, Restorable(d, u)
  PROVE  mirror /\ u \notin msgs[d]
<1>1. mirror /\ want = {} /\ queue = {} /\ d \notin done /\ d # cur
  BY ConstantsOK DEF KeepInv, ListedInv, Prunable, TypeOK, RunOK, InFolder
<1>2. d \notin live \ Noselect
  BY <1>1, EpochNumbers DEF KeepInv, ListedInv, Restorable
<1> QED BY <1>1, <1>2 DEF TypeOK, ServerTypeOK

KeepsStep(f, u) ==
  Restorable(f, u) /\ (mirror => u \in msgs[f]) =>
    Restorable(f, u)' \/ epoch'[f] # epoch[f] \/ index'[f] = TornIndex

LEMMA KeepsByStep ==
  ASSUME TypeOK, LabelInv, KeepInv, [Next]_vars, NEW f \in Folders, NEW u \in Uids
  PROVE  KeepsStep(f, u)
<1> SUFFICES ASSUME Restorable(f, u), mirror => u \in msgs[f]
             PROVE  \/ Restorable(f, u)' \/ epoch'[f] # epoch[f]
                    \/ index'[f] = TornIndex
  BY DEF KeepsStep
<1> USE DEF InFolder
<1>c. pc \in InFolder => cur \in Folders
  BY CurFolder
<1>s. UNCHANGED <<epoch, index, eml>> => Restorable(f, u)'
  BY DEF Restorable
\* Of the directory only files outside "u of f" are touched.
<1>e. ASSUME UNCHANGED epoch, index'[f] = index[f], eml'[f][u] = eml[f][u]
      PROVE  Restorable(f, u)'
  BY <1>e DEF Restorable
<1>1. CASE \/ \E m \in Modes, w \in Scopes : Start(m, w)
           \/ List \/ (\E g \in Folders : SelectFolder(g)) \/ FetchMeta
           \/ ScanMissing \/ FetchRaw \/ ChunkWritten \/ LastFolderDone
           \/ FoldersPruned \/ WriteManifest \/ Fail \/ Stop \/ StopInManifest
           \/ UNCHANGED vars
  BY <1>1, <1>s
  DEF Start, List, SelectFolder, FetchMeta, ScanMissing, FetchRaw, ChunkWritten,
      LastFolderDone, FoldersPruned, WriteManifest, Fail, Stop, StopInManifest,
      Halt, vars, server, disk
<1>2. CASE ClearFolder \/ \E S \in SUBSET Uids : pc = "clear" /\ StopRemoving(S)
  <2>1. pc = "clear" /\ Reset(cur, sel)
    BY <1>2 DEF ClearFolder, LabelInv, FetchInv
  <2>2. f # cur
    BY <2>1, ResetIsJustified DEF Restorable
  <2>3. UNCHANGED <<epoch, index>> /\ eml'[f] = eml[f]
    BY <1>2, <2>2, <1>c DEF ClearFolder, StopRemoving, Halt, server, TypeOK, DiskOK
  <2> QED BY <2>3, <1>e
<1>3. CASE PruneMessages \/ \E S \in SUBSET Uids : pc # "clear" /\ StopRemoving(S)
  <2>1. PICK S \in SUBSET Vanished :
          eml' = [eml EXCEPT ![cur] = Without(cur, S)]
    BY <1>3 DEF PruneMessages, StopRemoving
  <2>2. pc = "raw" /\ UNCHANGED <<epoch, index>>
    BY <1>3 DEF PruneMessages, StopRemoving, Halt, server
  <2>3. f = cur => u \notin S
    BY <2>2, VanishedAreGone
  <2>4. eml'[f][u] = eml[f][u]
    BY <2>1, <2>2, <2>3, <1>c DEF Without, TypeOK, DiskOK
  <2> QED BY <2>2, <2>4, <1>e
<1>4. ASSUME NEW w \in Uids, WriteBody(w) \/ StopInBody(w)
      PROVE  Restorable(f, u)'
  <2>1. pc = "write" /\ w \in buf /\ UNCHANGED <<epoch, index>>
    BY <1>4 DEF WriteBody, StopInBody, Halt, server
  <2>2. eml[cur][w] = Absent
    BY <2>1 DEF KeepInv, AbsentInv
  <2>3. eml[f][u] = epoch[f] /\ epoch[f] # Absent
    BY ConstantsOK DEF Restorable, TypeOK, ServerTypeOK
  <2>4. eml'[f][u] = eml[f][u]
    BY <2>1, <2>2, <2>3, <1>4, <1>c DEF WriteBody, StopInBody, TypeOK, DiskOK
  <2> QED BY <2>1, <2>4, <1>e
<1>5. CASE WriteIndex
  <2> USE <1>5, <1>c DEF WriteIndex
  <2>1. UNCHANGED <<epoch, eml>>
    BY DEF server
  <2>2. CASE f # cur
    BY <2>1, <2>2, <1>e DEF TypeOK, DiskOK
  <2>3. CASE f = cur
    <3>1. ~Reset(cur, sel) /\ sel = epoch[cur]
      BY <2>3, ResetIsJustified DEF Restorable, Reset
    <3>2. NewIndex.status = "ok" /\ NewIndex.val = epoch[cur]
      BY <3>1 DEF NewIndex, MirrorIndex, MergedIndex
    <3>3. NewIndex.entry[u] = epoch[cur]
      <4>1. CASE mirror
        <5>1. u \in uids /\ metas[u] = epoch[cur]
          BY <2>3, <3>1, <4>1 DEF KeepInv, SelectedInv, Restorable
        <5> QED BY <4>1, <5>1 DEF NewIndex, MirrorIndex
      <4>2. CASE ~mirror
        <5>1. metas[u] \in {Absent, epoch[cur]}
          <6>1. Between(metas[u], sel, cur)
            BY DEF LabelInv, FetchInv
          <6> QED BY <3>1, <6>1, EpochNumbers DEF Between
        <5> QED BY <2>3, <3>1, <4>2, <5>1 DEF NewIndex, MergedIndex, Restorable
      <4> QED BY <4>1, <4>2
    <3>4. index'[cur] = NewIndex
      BY DEF TypeOK, DiskOK
    <3> QED BY <2>1, <2>3, <3>2, <3>3, <3>4 DEF Restorable
  <2> QED BY <2>2, <2>3
<1>6. CASE StopInIndex
  BY <1>6, <1>c, <1>e DEF StopInIndex, Halt, server, TypeOK, DiskOK
<1>7. ASSUME NEW d \in Folders,
             PruneFolder(d) \/ \E S \in SUBSET Uids : StopPruning(d, S)
      PROVE  Restorable(f, u)'
  <2>1. pc = "prune" /\ d \in Prunable /\ UNCHANGED epoch
    BY <1>7 DEF PruneFolder, StopPruning, Halt, server
  <2>2. f # d
    BY <2>1, PrunableAreGone
  <2>3. index'[f] = index[f] /\ eml'[f] = eml[f]
    BY <1>7, <2>2 DEF PruneFolder, StopPruning, TypeOK, DiskOK
  <2> QED BY <2>1, <2>3, <1>e
<1>8. ASSUME NEW g \in Folders, Other(g)
      PROVE  Restorable(f, u)' \/ epoch'[f] # epoch[f]
  BY <1>8 DEF Other, disk, Restorable
<1> QED
  BY <1>1, <1>2, <1>3, <1>4, <1>5, <1>6, <1>7, <1>8 DEF Next, RunStep, Cut

-----------------------------------------------------------------------------
\* Outside backupFolder and pruneFolders only the first part of UidInv is left
\* to show: a file never claims a UID that was not handed out.
HandedOut == \A f \in Folders, u \in Uids : eml[f][u] = epoch[f] => u < uidnext[f]

LEMMA HandedOutKept ==
  ASSUME KeepInv, UNCHANGED <<epoch, uidnext>>,
         \A f \in Folders, u \in Uids : eml'[f][u] \in {eml[f][u], Absent, Torn},
         \A f \in Folders : epoch[f] > 0
  PROVE  HandedOut'
BY DEF KeepInv, UidInv, HandedOut

LEMMA HaltKeep ==
  ASSUME KeepInv, Halt, HandedOut'
  PROVE  KeepInv'
BY DEF Halt, KeepInv, UidInv, SelectedInv, AbsentInv, ListedInv, HandedOut,
       InFolder

LEMMA KeepStepInv ==
  ASSUME TypeOK, LabelInv, KeepInv, [Next]_vars
  PROVE  KeepInv'
<1> USE EpochNumbers DEF InFolder
<1>c. pc \in InFolder => cur \in Folders
  BY CurFolder
<1>e. \A f \in Folders : epoch[f] > 0
  BY ConstantsOK DEF TypeOK, ServerTypeOK
<1>h. UNCHANGED <<epoch, uidnext, eml>> => HandedOut'
  BY DEF KeepInv, UidInv, HandedOut
<1>1. ASSUME NEW m \in Modes, NEW w \in Scopes, Start(m, w)
      PROVE  KeepInv'
  BY <1>1 DEF Start, KeepInv, UidInv, SelectedInv, AbsentInv, ListedInv, server, disk
<1>2. CASE List
  <2> USE <1>2 DEF List
  <2>1. UidInv' /\ SelectedInv' /\ AbsentInv'
    BY DEF KeepInv, UidInv, SelectedInv, AbsentInv, server, disk, fetch
  <2>2. ListedInv'
    BY DEF ListedInv, Selectable, server
  <2> QED BY <2>1, <2>2 DEF KeepInv
<1>3. ASSUME NEW f \in Folders, SelectFolder(f)
      PROVE  KeepInv'
  <2> USE <1>3 DEF SelectFolder, SelectInfo
  <2>0. buf = {} /\ pc' # "write"
    BY DEF TypeOK, FetchOK
  <2>1. UidInv'
    <3>1. \A u \in msgs[f] : u < uidnext[f]
      BY DEF TypeOK, ServerTypeOK
    <3>2. uids' = msgs[f] /\ cur' = f /\ UNCHANGED <<epoch, uidnext, eml>>
      BY DEF server
    <3> QED BY <2>0, <3>1, <3>2 DEF KeepInv, UidInv
  <2>2. SelectedInv'
    <3>1. /\ uids' = msgs'[cur'] /\ todo' = uids'
          /\ pc' \in {"clear", "meta"}
      BY DEF server
    <3> QED BY <3>1 DEF SelectedInv
  <2>3. AbsentInv'
    BY DEF AbsentInv
  <2>4. ListedInv'
    <3>1. cur = NoFolder /\ NoFolder \notin live
      BY ConstantsOK DEF TypeOK, RunOK, ServerTypeOK
    <3>2. /\ queue' \cup {cur'} = queue /\ pc' # "prune"
          /\ UNCHANGED <<done, want, live, index, epoch>>
      BY DEF server
    <3> QED BY <3>1, <3>2 DEF KeepInv, ListedInv
  <2> QED BY <2>1, <2>2, <2>3, <2>4 DEF KeepInv
<1>4. CASE ClearFolder
  <2> USE <1>4, <1>c, <1>e DEF ClearFolder
  <2>1. \A f \in Folders, u \in Uids : eml'[f][u] \in {Absent, eml[f][u]}
    BY DEF TypeOK, DiskOK, NoEntries
  <2>2. HandedOut'
    BY <2>1, HandedOutKept DEF server
  <2>3. UidInv'
    BY <2>2 DEF KeepInv, UidInv, HandedOut, server, fetch
  <2>4. \A u \in Uids : eml'[cur][u] # epoch[cur]
    BY DEF TypeOK, DiskOK, NoEntries
  <2>5. SelectedInv'
    BY <2>4 DEF KeepInv, SelectedInv, server, fetch, TypeOK, ServerTypeOK
  <2>6. AbsentInv' /\ ListedInv'
    BY DEF KeepInv, AbsentInv, ListedInv, server
  <2> QED BY <2>3, <2>5, <2>6 DEF KeepInv
<1>5. CASE FetchMeta
  <2> USE <1>5, <1>c DEF FetchMeta
  <2>1. UidInv'
    BY DEF KeepInv, UidInv, server, disk, run
  <2>2. SelectedInv'
    BY DEF KeepInv, SelectedInv, server, disk, run, Answered, TypeOK, ServerTypeOK
  <2>3. AbsentInv' /\ ListedInv'
    BY DEF KeepInv, AbsentInv, ListedInv, server, disk, run
  <2> QED BY <2>1, <2>2, <2>3 DEF KeepInv
<1>6. CASE ScanMissing
  <2> USE <1>6, <1>c DEF ScanMissing
  <2>1. UidInv' /\ SelectedInv'
    BY DEF KeepInv, UidInv, SelectedInv, server, disk
  <2>2. AbsentInv'
    BY DEF AbsentInv, Missing, Stored, TypeOK, FetchOK, disk
  <2>3. ListedInv'
    BY DEF KeepInv, ListedInv, server, disk
  <2> QED BY <2>1, <2>2, <2>3 DEF KeepInv
<1>7. CASE FetchRaw
  <2> USE <1>7, <1>c DEF FetchRaw
  <2>1. UidInv'
    BY DEF KeepInv, UidInv, server, disk, Answered, TypeOK, ServerTypeOK
  <2>2. SelectedInv' /\ ListedInv'
    BY DEF KeepInv, SelectedInv, ListedInv, server, disk
  <2>3. AbsentInv'
    BY ChunkSubset DEF KeepInv, AbsentInv, Answered, disk
  <2> QED BY <2>1, <2>2, <2>3 DEF KeepInv
<1>8. ASSUME NEW w \in Uids, WriteBody(w)
      PROVE  KeepInv'
  <2> USE <1>8, <1>c DEF WriteBody
  <2>1. UNCHANGED <<epoch, uidnext, msgs, index, live>>
    BY DEF server
  <2>2. \A f \in Folders, u \in Uids :
          eml'[f][u] = IF f = cur /\ u = w THEN sess ELSE eml[f][u]
    BY DEF TypeOK, DiskOK
  <2>3. w \in uids
    BY DEF TypeOK, FetchOK
  <2>4. UidInv'
    BY <2>1, <2>2 DEF KeepInv, UidInv, run
  <2>5. SelectedInv'
    BY <2>1, <2>2, <2>3 DEF KeepInv, SelectedInv, run, TypeOK, ServerTypeOK
  <2>6. AbsentInv'
    BY <2>2 DEF KeepInv, AbsentInv, run, TypeOK, FetchOK
  <2>7. ListedInv'
    BY <2>1 DEF KeepInv, ListedInv, run
  <2> QED BY <2>4, <2>5, <2>6, <2>7 DEF KeepInv
<1>9. CASE ChunkWritten
  BY <1>9, <1>c DEF ChunkWritten, KeepInv, UidInv, SelectedInv, AbsentInv,
                    ListedInv, server, disk, fetch
<1>10. CASE PruneMessages
  <2> USE <1>10, <1>c, <1>e DEF PruneMessages
  <2>1. \A f \in Folders, u \in Uids : eml'[f][u] \in {Absent, eml[f][u]}
    BY DEF TypeOK, DiskOK, Without
  <2>2. HandedOut'
    BY <2>1, HandedOutKept DEF server
  <2>3. UidInv'
    BY <2>2 DEF KeepInv, UidInv, HandedOut, server, fetch
  <2>4. SelectedInv'
    BY <2>1 DEF KeepInv, SelectedInv, server, fetch, TypeOK, ServerTypeOK
  <2>5. AbsentInv' /\ ListedInv'
    BY DEF KeepInv, AbsentInv, ListedInv, server
  <2> QED BY <2>3, <2>4, <2>5 DEF KeepInv
<1>11. CASE WriteIndex
  <2> USE <1>11, <1>c, <1>h DEF WriteIndex
  <2>1. UidInv' /\ SelectedInv' /\ AbsentInv'
    BY DEF UidInv, SelectedInv, AbsentInv, HandedOut, server
  <2>2. \A f \in Folders : f # cur => index'[f] = index[f]
    BY DEF TypeOK, DiskOK
  <2>3. ListedInv'
    BY <2>2 DEF KeepInv, ListedInv, server, TypeOK, ServerTypeOK
  <2> QED BY <2>1, <2>3 DEF KeepInv
<1>12. CASE LastFolderDone
  BY <1>12 DEF LastFolderDone, PruneDue, KeepInv, UidInv, SelectedInv,
               AbsentInv, ListedInv, server, disk, fetch
<1>13. ASSUME NEW d \in Folders, PruneFolder(d)
      PROVE  KeepInv'
  <2> USE <1>13, <1>e DEF PruneFolder
  <2>1. \A f \in Folders, u \in Uids : eml'[f][u] \in {Absent, eml[f][u]}
    BY DEF TypeOK, DiskOK, NoEntries
  <2>2. HandedOut'
    BY <2>1, HandedOutKept DEF server
  <2>3. UidInv' /\ SelectedInv' /\ AbsentInv'
    BY <2>2 DEF UidInv, SelectedInv, AbsentInv, HandedOut, run
  <2>4. \A f \in Folders : index'[f].status = "ok" => index'[f] = index[f]
    BY DEF TypeOK, DiskOK, NoIndex
  <2>5. ListedInv'
    BY <2>4 DEF KeepInv, ListedInv, server, run, TypeOK, ServerTypeOK
  <2> QED BY <2>3, <2>5 DEF KeepInv
<1>14. CASE FoldersPruned
  BY <1>14 DEF FoldersPruned, KeepInv, UidInv, SelectedInv, AbsentInv,
               ListedInv, server, disk, fetch
<1>15. CASE WriteManifest
  BY <1>15 DEF WriteManifest, KeepInv, UidInv, SelectedInv, AbsentInv,
               ListedInv, server, disk, fetch
<1>16. CASE Fail \/ Stop \/ StopInManifest \/ StopInIndex
  <2>1. Halt /\ UNCHANGED <<epoch, uidnext, eml>>
    BY <1>16 DEF Fail, Stop, StopInManifest, StopInIndex, Halt, disk, server
  <2> QED BY <2>1, <1>h, HaltKeep
<1>17. CASE \/ \E S \in SUBSET Uids : StopRemoving(S)
            \/ \E w \in Uids : StopInBody(w)
            \/ \E d \in Folders, S \in SUBSET Uids : StopPruning(d, S)
  <2>1. Halt /\ UNCHANGED <<epoch, uidnext>>
    BY <1>17 DEF StopRemoving, StopInBody, StopPruning, Halt, server
  <2>2. \A f \in Folders, u \in Uids : eml'[f][u] \in {eml[f][u], Absent, Torn}
    BY <1>17, <1>c DEF StopRemoving, StopInBody, StopPruning, Without, TypeOK, DiskOK
  <2>3. HandedOut'
    BY <2>1, <2>2, <1>e, HandedOutKept
  <2> QED BY <2>1, <2>3, HaltKeep
<1>18. ASSUME NEW f \in Folders, Other(f)
      PROVE  KeepInv'
  <2> USE <1>c, <1>e
  <2>0. UNCHANGED <<eml, index, pc, mirror, want, queue, done, cur, sel, uids,
                    metas, todo, sess, buf>>
    BY <1>18 DEF Other, disk, run, fetch
  <2>1. CASE RecreateFolder(f)
    <3>1. /\ epoch'[f] > epoch[f]
          /\ \A g \in Folders : g # f => epoch'[g] = epoch[g]
          /\ \A g \in Folders : g # f => uidnext'[g] = uidnext[g]
          /\ live' = live \cup {f} /\ msgs' = msgs
      BY <2>1 DEF RecreateFolder, TypeOK, ServerTypeOK
    <3>2. UidInv'
      BY <2>0, <3>1 DEF KeepInv, UidInv, LabelInv, FilesInv, FetchInv, Between
    <3>3. SelectedInv'
      BY <2>0, <3>1 DEF KeepInv, SelectedInv, LabelInv, FetchInv
    <3>4. ListedInv'
      <4>1. \A g \in Folders : epoch'[g] \in Nat
        BY ServerStep, <1>18, ConstantsOK DEF Other, ServerTypeOK, TypeOK
      <4>2. index[f].status = "ok" => index[f].val < epoch'[f]
        BY <3>1, <4>1 DEF LabelInv, IndexInv
      <4>3. f \in Folders /\ live \subseteq Folders
        BY DEF TypeOK, ServerTypeOK
      <4> QED BY <2>0, <3>1, <4>2, <4>3 DEF KeepInv, ListedInv
    <3>5. AbsentInv'
      BY <2>0 DEF KeepInv, AbsentInv
    <3> QED BY <3>2, <3>3, <3>4, <3>5 DEF KeepInv
  <2>2. CASE Deliver(f)
    <3>1. /\ UNCHANGED <<epoch, live>>
          /\ \A g \in Folders : uidnext'[g] >= uidnext[g] /\ uidnext[g] \in Nat
                               /\ uidnext'[g] \in Nat
          /\ \A g \in Folders : \A u \in msgs'[g] : u \in msgs[g] \/ u = uidnext[g]
          /\ uidnext[f] \in Uids /\ \A g \in Folders : msgs'[g] \subseteq Uids
          /\ \A g \in Folders : g # f => msgs'[g] = msgs[g]
          /\ msgs'[f] = msgs[f] \cup {uidnext[f]}
      BY <2>2, ConstantsOK DEF Deliver, TypeOK, ServerTypeOK, Uids
    <3>2. UidInv'
      BY <2>0, <3>1, ConstantsOK DEF KeepInv, UidInv, TypeOK, FetchOK
    <3>3. SelectedInv'
      BY <2>0, <3>1, ConstantsOK DEF KeepInv, SelectedInv, UidInv
    <3>4. ListedInv' /\ AbsentInv'
      BY <2>0, <3>1 DEF KeepInv, ListedInv, AbsentInv
    <3> QED BY <3>2, <3>3, <3>4 DEF KeepInv
  <2>3. CASE \/ \E u \in Uids : ExpungeUid(f, u) \/ ToggleSeen(f, u)
             \/ DropFolder(f)
    <3>1. /\ UNCHANGED <<epoch, uidnext>> /\ live' \subseteq live
          /\ \A g \in Folders : msgs'[g] \subseteq msgs[g]
      BY <2>3 DEF ExpungeUid, ToggleSeen, DropFolder, TypeOK, ServerTypeOK
    <3>2. UidInv' /\ SelectedInv'
      BY <2>0, <3>1 DEF KeepInv, UidInv, SelectedInv
    <3>3. ListedInv' /\ AbsentInv'
      BY <2>0, <3>1 DEF KeepInv, ListedInv, AbsentInv
    <3> QED BY <3>2, <3>3 DEF KeepInv
  <2> QED BY <1>18, <2>1, <2>2, <2>3 DEF Other, OtherClient
<1>19. CASE UNCHANGED vars
  BY <1>19 DEF vars, server, disk, run, fetch, KeepInv, UidInv, SelectedInv,
               AbsentInv, ListedInv
<1> QED
  BY <1>1, <1>2, <1>3, <1>4, <1>5, <1>6, <1>7, <1>8, <1>9, <1>10, <1>11,
     <1>12, <1>13, <1>14, <1>15, <1>16, <1>17, <1>18, <1>19
  DEF Next, RunStep, Cut

-----------------------------------------------------------------------------
(***************************************************************************)
(* Every step of a backup, or of another client, is one MailCopy allows.   *)
(***************************************************************************)
\* What can be restored after a step of the copy's own was delivered before.
LEMMA HeldWasDelivered ==
  ASSUME TypeOK, TypeOK', KeepInv', UNCHANGED <<epoch, uidnext>>, NEW f \in Folders
  PROVE  Held'[f] \subseteq Copy!Delivered(f)
<1> SUFFICES ASSUME NEW u \in Held'[f] PROVE u \in Copy!Delivered(f)
  OBVIOUS
<1>1. u \in Uids /\ u < uidnext[f]
  BY DEF Held, Restorable, KeepInv, UidInv
<1>2. uidnext[f] \in Nat
  BY ConstantsOK DEF TypeOK, ServerTypeOK
<1> QED BY <1>1, <1>2, ConstantsOK DEF Copy!Delivered, Uids

\* A step that leaves the mailbox alone is the copy's own.
LEMMA OwnStepIsWork ==
  ASSUME TypeOK, TypeOK', LabelInv, KeepInv, KeepInv', [Next]_vars, UNCHANGED server
  PROVE  Copy!Work
<1>1. UNCHANGED Copy!mailbox
  BY DEF server, Copy!mailbox
<1>2. ASSUME NEW f \in Folders
      PROVE  Held'[f] \subseteq Copy!Delivered(f)
  BY HeldWasDelivered DEF server
<1>3. ASSUME NEW f \in Folders, NEW u \in Held[f] \ Held'[f]
      PROVE  Copy!MayLose(f, u)
  <2>1. u \in Uids /\ Restorable(f, u) /\ ~Restorable(f, u)'
    BY <1>3 DEF Held
  <2>2. KeepsStep(f, u) /\ UNCHANGED epoch
    BY <2>1, KeepsByStep DEF server
  <2>3. (mirror /\ u \notin msgs[f]) \/ index'[f] = TornIndex
    BY <2>1, <2>2, Zenon DEF KeepsStep
  <2>4. index'[f] = TornIndex => f \in TornFolders'
    BY DEF TornFolders
  <2> QED BY <2>3, <2>4, Zenon DEF Copy!MayLose
<1> QED BY <1>1, <1>2, <1>3 DEF Copy!Work

\* Whatever another client does to a folder is a change of the mailbox.
LEMMA OthersChangeTheMailbox ==
  ASSUME TypeOK, LabelInv, NEW f \in Folders, Other(f)
  PROVE  Copy!MailboxChanges(f)
<1>1. UNCHANGED <<eml, index, mirror, TornFolders>>
  BY DEF Other, disk, run, TornFolders
<1>2. \A g \in Folders \ {f} : /\ epoch'[g] = epoch[g] /\ uidnext'[g] = uidnext[g]
                               /\ msgs'[g] = msgs[g]
  BY OneFolderChanges DEF Other, TypeOK
<1>3. \A g \in Folders \ {f} : Held'[g] = Held[g]
  BY <1>1, <1>2 DEF Held, Restorable
<1>4. CASE RecreateFolder(f)
  <2>1. epoch'[f] > epoch[f] /\ epoch'[f] \in Nat /\ epoch[f] \in Nat
    <3>1. epoch[f] \in Nat
      BY ConstantsOK DEF TypeOK, ServerTypeOK
    <3>2. epoch'[f] = epoch[f] + 1
      BY <1>4 DEF RecreateFolder, TypeOK, ServerTypeOK
    <3> QED BY <3>1, <3>2
  <2>2. index[f].status = "ok" => index[f].val # epoch'[f]
    BY <2>1 DEF LabelInv, IndexInv
  <2>3. Held'[f] = {}
    BY <1>1, <2>2 DEF Held, Restorable
  <2>4. Held' = [Held EXCEPT ![f] = {}]
    BY <1>3, <2>3 DEF Held
  <2> QED BY <1>1, <1>2, <2>1, <2>4 DEF Copy!MailboxChanges
<1>5. CASE ~RecreateFolder(f)
  <2>1. /\ epoch' = epoch
        /\ uidnext'[f] >= uidnext[f]
        /\ msgs'[f] \ msgs[f] \subseteq uidnext[f] .. uidnext'[f] - 1
    BY <1>5, ServerConstants
    DEF Other, OtherClient, Deliver, ExpungeUid, ToggleSeen, DropFolder,
        TypeOK, ServerTypeOK
  <2>2. Held' = Held
    BY <1>1, <2>1 DEF Held, Restorable
  <2> QED BY <1>1, <1>2, <2>1, <2>2 DEF Copy!MailboxChanges
<1> QED BY <1>4, <1>5

LEMMA CopyStep ==
  ASSUME TypeOK, TypeOK', LabelInv, KeepInv, KeepInv', [Next]_vars
  PROVE  Copy!Next
<1>1. CASE \E f \in Folders : Other(f)
  BY <1>1, OthersChangeTheMailbox DEF Copy!Next
<1>2. CASE ~ \E f \in Folders : Other(f)
  <2>1. UNCHANGED server
    BY <1>2
    DEF Next, RunStep, Cut, Start, List, SelectFolder, ClearFolder, FetchMeta,
        ScanMissing, FetchRaw, WriteBody, ChunkWritten, PruneMessages,
        WriteIndex, LastFolderDone, PruneFolder, FoldersPruned, WriteManifest,
        Fail, Stop, StopRemoving, StopInBody, StopInIndex, StopInManifest,
        StopPruning, Halt, vars
  <2> QED BY <2>1, OwnStepIsWork DEF Copy!Next
<1> QED BY <1>1, <1>2

LEMMA CopyInit == Init => Copy!Init
<1> SUFFICES ASSUME Init PROVE Copy!Init
  OBVIOUS
<1>1. \A f \in Folders : msgs[f] = {} /\ index[f].status = "none"
  BY DEF Init, ServerInit, NoIndex
<1> QED BY <1>1 DEF Copy!Init, Held, Restorable

\* The backup is a copy of the mailbox through every step of every run: what can
\* be restored was delivered, and stays through every step of an additive run,
\* and of a mirror run while the server has it, wherever a run is cut off.
THEOREM BackupKeepsACopy == Spec => BackupIsCopy
<1>1. /\ TypeOK /\ LabelInv /\ [Next]_vars => LabelInv'
      /\ TypeOK /\ LabelInv /\ KeepInv /\ [Next]_vars => KeepInv'
  BY LabelStep, KeepStepInv
<1>2. TypeOK /\ TypeOK' /\ LabelInv /\ KeepInv /\ KeepInv' /\ [Next]_vars
        => [Copy!Next]_(Copy!vars)
  BY CopyStep
<1> QED
  BY <1>1, <1>2, LabelInit, KeepInit, CopyInit, TypeCorrect, PTL
  DEF Spec, BackupIsCopy, Copy!Spec

-----------------------------------------------------------------------------
(***************************************************************************)
(* Proof that a backupFolder that runs to its end while nobody changes the *)
(* folder covers it, from any state earlier runs left behind, and that no  *)
(* later step undoes that (CoversWhenCalm); and that a mirror run leaves   *)
(* no other file or entry (FilesExact), from which MirrorIsExact follows.  *)
(***************************************************************************)
\* UIDs whose metadata is still to come.
Unread == IF pc \in {"clear", "meta"} THEN todo ELSE {}

\* While cur is calm, what was read of it is what the server holds.
ReadInv ==
  pc \in InFolder /\ cur \in calm =>
    /\ sel = epoch[cur]
    /\ uids = msgs[cur]
    /\ mseen \subseteq uids \ Unread
    /\ \A u \in Uids : metas[u] # Absent => u \in uids
    /\ \A u \in uids \ Unread : /\ metas[u] = epoch[cur]
                                /\ u \in mseen <=> u \in seen[cur]

\* While cur is calm, a message without a file is about to be downloaded.
StoredInv ==
  pc \in {"raw", "write", "index"} /\ cur \in calm =>
    \A u \in uids : \/ eml[cur][u] \in {Torn, epoch[cur]}
                    \/ pc # "index" /\ u \in todo \cup buf

\* A folder that was cleared, or is about to be recorded by a mirror run,
\* holds no file of a message it did not list.
NoStrayInv ==
  pc \in InFolder \ {"clear"} /\ (Reset(cur, sel) \/ (pc = "index" /\ mirror)) =>
    Stored(cur) \subseteq uids

DoneInv ==
  /\ done \cap (queue \cup {cur}) = {}
  /\ cur \notin queue
  /\ pc = "list" => done = {}

\* The files, whole or torn, and the entries of f are the server's messages.
Exact(f) ==
  /\ Stored(f) = msgs[f]
  /\ {u \in Uids : index[f].entry[u] # Absent} = msgs[f]
  /\ index[f].seen = seen[f]
  /\ ~index[f].zero

FilesExact == \A f \in done \cap calm : mirror => Exact(f)

CalmInv ==
  /\ calm \subseteq live \ Noselect
  /\ ReadInv
  /\ StoredInv
  /\ NoStrayInv
  /\ DoneInv
  /\ CoversWhenCalm
  /\ FilesExact

LEMMA CalmInit == Init => CalmInv
BY DEF Init, CalmInv, ReadInv, StoredInv, NoStrayInv, DoneInv, CoversWhenCalm,
       UpToDate, FilesExact, InFolder

\* A folder whose server side, files and index did not change stays covered
\* and stays an exact mirror.
LEMMA Untouched ==
  ASSUME NEW f \in Folders,
         epoch'[f] = epoch[f], msgs'[f] = msgs[f], seen'[f] = seen[f],
         eml'[f] = eml[f], index'[f] = index[f]
  PROVE  /\ Covered(f) => Covered(f)'
         /\ Exact(f) => Exact(f)'
BY DEF Covered, Exact, Stored

\* Steps that touch no file and no server keep what is known of the folders
\* that stay calm and, if the run goes on, of those it has done.
LEMMA FoldersKept ==
  ASSUME TypeOK, CalmInv, UNCHANGED <<server, eml, index>>,
         calm' \ {cur'} \subseteq calm \ {cur},
         \/ done' = {}
         \/ done' = done /\ mirror' = mirror /\ calm' \cap done \subseteq calm
  PROVE  CoversWhenCalm' /\ FilesExact'
<1>1. \A f \in Folders : /\ Covered(f) => Covered(f)'
                         /\ Exact(f) => Exact(f)'
  BY Untouched DEF server
<1>2. CoversWhenCalm'
  BY <1>1 DEF CalmInv, CoversWhenCalm, UpToDate
<1>3. \A f \in done' \cap calm' : mirror' => Exact(f)'
  BY <1>1 DEF CalmInv, FilesExact, Exact, TypeOK, RunOK
<1>4. FilesExact'
  BY <1>3 DEF FilesExact, Exact
<1> QED BY <1>2, <1>4

\* So do steps on the files of a folder that is not calm, or is cur.
LEMMA OthersKept ==
  ASSUME TypeOK, CalmInv, UNCHANGED server, NEW d,
         \A f \in Folders : f # d => eml'[f] = eml[f] /\ index'[f] = index[f],
         calm' \ {cur'} \subseteq calm \ {cur}, d \notin calm' \ {cur'},
         \/ done' = {}
         \/ done' = done /\ mirror' = mirror /\ calm' \subseteq calm /\ d \notin done \cap calm'
  PROVE  CoversWhenCalm' /\ FilesExact'
<1>1. \A f \in Folders : f # d => /\ Covered(f) => Covered(f)'
                                  /\ Exact(f) => Exact(f)'
  BY Untouched DEF server
<1>2. CoversWhenCalm'
  BY <1>1 DEF CalmInv, CoversWhenCalm, UpToDate
<1>3. \A f \in done' \cap calm' : mirror' => Exact(f)'
  BY <1>1 DEF CalmInv, FilesExact, Exact, TypeOK, RunOK
<1>4. FilesExact'
  BY <1>3 DEF FilesExact, Exact
<1> QED BY <1>2, <1>4

LEMMA HaltCalm ==
  ASSUME TypeOK, CalmInv, Halt,
         \A f \in Folders : f # cur /\ f \in calm =>
                            eml'[f] = eml[f] /\ index'[f] = index[f]
  PROVE  CalmInv'
<1>1. calm' = calm \ {cur} /\ cur' = NoFolder /\ done' = {} /\ queue' = {}
      /\ pc' = "stopped" /\ UNCHANGED server
  BY DEF Halt, ForgetFolder
<1>2. ASSUME NEW f \in calm' PROVE Covered(f)'
  <2>1. f \in Folders /\ f # cur /\ f \in calm
    BY <1>1 DEF TypeOK, RunOK
  <2>2. Covered(f)
    BY <2>1 DEF CalmInv, CoversWhenCalm, UpToDate
  <2> QED BY <1>1, <2>1, <2>2, Untouched DEF server
<1>3. CoversWhenCalm' /\ FilesExact'
  BY <1>1, <1>2 DEF CoversWhenCalm, UpToDate, FilesExact
<1>4. ReadInv' /\ StoredInv' /\ NoStrayInv' /\ DoneInv'
  BY <1>1 DEF ReadInv, StoredInv, NoStrayInv, DoneInv, InFolder
<1>5. calm' \subseteq live' \ Noselect
  BY <1>1 DEF CalmInv, server
<1> QED BY <1>3, <1>4, <1>5 DEF CalmInv

\* pruneFolders never meets a calm folder: it is on the list.
LEMMA CalmIsNotPrunable ==
  ASSUME TypeOK, KeepInv, CalmInv, pc = "prune", NEW d \in Prunable
  PROVE  d \notin calm /\ d \notin done
<1>1. d \in Folders /\ want = {} /\ queue = {} /\ d \notin done /\ d # cur
  BY ConstantsOK DEF KeepInv, ListedInv, Prunable, TypeOK, RunOK, DiskOK, InFolder
<1>2. ASSUME d \in calm PROVE FALSE
  <2>1. d \in live \ Noselect /\ Covered(d)
    BY <1>1, <1>2 DEF CalmInv, CoversWhenCalm, UpToDate, TypeOK, RunOK
  <2>2. index[d].status = "ok" /\ index[d].val = epoch[d]
    BY <2>1 DEF Covered
  <2> QED BY <1>1, <2>1, <2>2, EpochNumbers DEF KeepInv, ListedInv, TypeOK, RunOK
<1> QED BY <1>1, <1>2

\* What WriteIndex records of a calm folder.
LEMMA WrittenIsCovered ==
  ASSUME TypeOK, LabelInv, CalmInv, WriteIndex, NEW f \in Folders, f = cur,
         cur \in calm
  PROVE  /\ Covered(f)'
         /\ mirror => Exact(f)'
<1>0. pc = "index" /\ pc \in InFolder /\ Unread = {}
  BY DEF WriteIndex, InFolder, Unread
<1>1. /\ pc = "index" /\ sel = epoch[f] /\ uids = msgs[f] /\ mseen \subseteq uids
      /\ \A u \in Uids : metas[u] # Absent => u \in uids
      /\ \A u \in uids : metas[u] = epoch[f] /\ (u \in mseen <=> u \in seen[f])
      /\ \A u \in uids : eml[f][u] \in {Torn, epoch[f]}
  <2>1. ReadInv /\ StoredInv
    BY DEF CalmInv
  <2>2. \A u \in uids : eml[cur][u] \in {Torn, epoch[cur]}
    BY <1>0, <2>1 DEF StoredInv
  <2>3. /\ sel = epoch[cur] /\ uids = msgs[cur] /\ mseen \subseteq uids
        /\ \A u \in Uids : metas[u] # Absent => u \in uids
        /\ \A u \in uids \ Unread : /\ metas[u] = epoch[cur]
                                    /\ u \in mseen <=> u \in seen[cur]
    BY <1>0, <2>1 DEF ReadInv
  <2> QED BY <1>0, <2>2, <2>3
<1>2. /\ epoch[f] # Absent /\ epoch[f] # Torn
      /\ uids \subseteq Uids /\ seen[f] \subseteq msgs[f]
  BY ConstantsOK DEF TypeOK, ServerTypeOK, FetchOK
<1>3. index'[f] = NewIndex /\ UNCHANGED <<epoch, msgs, seen, eml, mirror>>
  BY DEF WriteIndex, server, TypeOK, DiskOK
<1>4. NewIndex.status = "ok" /\ NewIndex.val = sel
  BY DEF NewIndex, MirrorIndex, MergedIndex
<1>5. \A u \in uids : /\ NewIndex.entry[u] = epoch[f]
                      /\ u \in NewIndex.seen <=> u \in mseen
  BY <1>1, <1>2 DEF NewIndex, MirrorIndex, MergedIndex
<1>6. /\ index'[f].status = "ok" /\ index'[f].val = epoch'[f]
      /\ \A u \in msgs'[f] : /\ eml'[f][u] \in {Torn, epoch'[f]}
                             /\ index'[f].entry[u] = epoch'[f]
                             /\ u \in index'[f].seen <=> u \in seen'[f]
  BY <1>1, <1>3, <1>4, <1>5
<1>7. ASSUME mirror
      PROVE  /\ {u \in Uids : eml'[f][u] # Absent} = msgs'[f]
             /\ {u \in Uids : index'[f].entry[u] # Absent} = msgs'[f]
             /\ index'[f].seen = seen'[f]
             /\ ~index'[f].zero
  <2>1. NewIndex = MirrorIndex
    BY <1>7 DEF NewIndex
  <2>2. Stored(f) \subseteq uids
    BY <1>1, <1>7 DEF CalmInv, NoStrayInv, InFolder
  <2>3. {u \in Uids : eml[f][u] # Absent} = uids
    <3>1. \A u \in Uids : eml[f][u] # Absent <=> u \in uids
      BY <1>1, <1>2, <2>2 DEF Stored
    <3> QED BY <1>2, <3>1
  <2>4. {u \in Uids : MirrorIndex.entry[u] # Absent} = uids
    <3>1. \A u \in Uids : metas[u] # Absent <=> u \in uids
      BY <1>1, <1>2
    <3> QED BY <1>2, <3>1 DEF MirrorIndex
  <2>5. MirrorIndex.seen = seen[f]
    BY <1>1, <1>2 DEF MirrorIndex
  <2>6. ~MirrorIndex.zero
    BY <1>1, <1>2 DEF MirrorIndex
  <2> QED BY <1>1, <1>3, <2>1, <2>3, <2>4, <2>5, <2>6
<1> QED
  <2>1. Covered(f)'
    BY <1>6 DEF Covered
  <2> QED BY <1>6, <1>7 DEF Covered, Exact, Stored

-----------------------------------------------------------------------------
LEMMA CalmStep ==
  ASSUME TypeOK, LabelInv, KeepInv, CalmInv, [Next]_vars
  PROVE  CalmInv'
<1> USE EpochNumbers DEF InFolder
<1>c. pc \in InFolder => cur \in Folders
  BY CurFolder
<1>n. NoFolder \notin calm /\ calm \subseteq live \ Noselect /\ calm \subseteq Folders
  BY ConstantsOK DEF CalmInv, TypeOK, RunOK
<1>o. pc \notin InFolder => cur = NoFolder
  BY DEF TypeOK, RunOK
\* Between folders only the list and the covered folders matter.
<1>q. ASSUME pc' \notin InFolder, DoneInv', CoversWhenCalm', FilesExact',
             calm' \subseteq live' \ Noselect
      PROVE  CalmInv'
  BY <1>q DEF CalmInv, ReadInv, StoredInv, NoStrayInv
<1>1. ASSUME NEW m \in Modes, NEW w \in Scopes, Start(m, w)
      PROVE  CalmInv'
  <2>1. CoversWhenCalm' /\ FilesExact'
    BY <1>1, FoldersKept DEF Start, disk
  <2>2. pc' \notin InFolder /\ DoneInv' /\ UNCHANGED <<calm, live>>
    BY <1>1 DEF Start, DoneInv, server
  <2> QED BY <2>1, <2>2, <1>n, <1>q
<1>2. CASE List
  <2>1. CoversWhenCalm' /\ FilesExact'
    BY <1>2, FoldersKept DEF List, disk
  <2>2. pc' \notin InFolder /\ UNCHANGED <<calm, live>>
    BY <1>2 DEF List, server
  <2>3. DoneInv'
    BY <1>2, <1>o, ConstantsOK
    DEF List, CalmInv, DoneInv, Selectable, TypeOK, ServerTypeOK
  <2> QED BY <2>1, <2>2, <2>3, <1>n, <1>q
<1>3. ASSUME NEW f \in Folders, SelectFolder(f)
      PROVE  CalmInv'
  <2> USE <1>3 DEF SelectFolder, SelectInfo
  <2>1. /\ UNCHANGED <<server, eml, index, done, mirror>>
        /\ cur' = f /\ cur = NoFolder /\ calm' = calm \cup {f} /\ f \notin done
    BY <1>o DEF CalmInv, DoneInv
  <2>2. CoversWhenCalm' /\ FilesExact'
    BY <2>1, <1>n, FoldersKept
  <2>3. ReadInv'
    <3>1. /\ pc' \in {"clear", "meta"} /\ todo' = uids' /\ uids' = msgs'[f]
          /\ sel' = epoch'[f] /\ mseen' = {} /\ \A u \in Uids : metas'[u] = Absent
      BY DEF server, NoEntries
    <3>2. uids' \ Unread' = {}
      BY <3>1 DEF Unread
    <3> QED BY <2>1, <3>1, <3>2 DEF ReadInv
  <2>4. StoredInv'
    BY DEF StoredInv
  <2>5. NoStrayInv'
    BY DEF NoStrayInv, Reset
  <2>6. DoneInv'
    BY <2>1 DEF CalmInv, DoneInv
  <2>7. calm' \subseteq live' \ Noselect
    BY <2>1, <1>n DEF CanSelect, server
  <2> QED BY <2>2, <2>3, <2>4, <2>5, <2>6, <2>7 DEF CalmInv
<1>4. CASE ClearFolder
  <2> USE <1>4, <1>c DEF ClearFolder
  <2>1. /\ UNCHANGED <<server, index, done, mirror, cur, queue, calm, fetch>>
        /\ cur \notin done
    BY DEF CalmInv, DoneInv
  <2>2. \A f \in Folders : f # cur => eml'[f] = eml[f]
    BY DEF TypeOK, DiskOK
  <2>3. CoversWhenCalm' /\ FilesExact'
    BY <2>1, <2>2, OthersKept
  <2>4. ReadInv'
    BY <2>1 DEF CalmInv, ReadInv, Unread, server, fetch
  <2>5. StoredInv' /\ DoneInv'
    BY <2>1 DEF StoredInv, CalmInv, DoneInv
  <2>6. Stored(cur)' = {}
    BY <2>1 DEF Stored, TypeOK, DiskOK, NoEntries
  <2>7. NoStrayInv'
    BY <2>6 DEF NoStrayInv
  <2> QED BY <2>1, <2>3, <2>4, <2>5, <2>7, <1>n DEF CalmInv, server
<1>5. CASE FetchMeta
  <2> USE <1>5, <1>c DEF FetchMeta
  <2>1. UNCHANGED <<server, eml, index, run, calm, sel, uids>>
    BY DEF disk
  <2>2. CoversWhenCalm' /\ FilesExact'
    BY <2>1, FoldersKept DEF run
  <2>3. ReadInv'
    <3> SUFFICES ASSUME cur \in calm
                 PROVE  /\ mseen' \subseteq uids \ todo'
                        /\ \A u \in Uids : metas'[u] # Absent => u \in uids
                        /\ \A u \in uids \ todo' :
                             /\ metas'[u] = epoch[cur]
                             /\ u \in mseen' <=> u \in seen[cur]
      BY <2>1 DEF CalmInv, ReadInv, Unread, run, server
    <3> DEFINE chunk == NextChunk(todo)
    <3>1. /\ uids = msgs[cur] /\ mseen \subseteq uids \ todo
          /\ \A u \in Uids : metas[u] # Absent => u \in uids
          /\ \A u \in uids \ todo : /\ metas[u] = epoch[cur]
                                    /\ u \in mseen <=> u \in seen[cur]
      BY DEF CalmInv, ReadInv, Unread
    <3>2. chunk \subseteq uids /\ uids \subseteq Uids /\ chunk \subseteq todo
      BY ChunkSubset DEF TypeOK, FetchOK
    <3>3. Answered(cur, chunk) = chunk
      BY <3>1, <3>2 DEF Answered
    <3>4. /\ todo' = todo \ chunk
          /\ metas' = [u \in Uids |-> IF u \in chunk THEN epoch[cur] ELSE metas[u]]
          /\ mseen' = mseen \cup (chunk \cap seen[cur])
      BY <3>3
    <3> HIDE DEF chunk
    <3>5. ASSUME NEW u \in uids \ todo'
          PROVE  metas'[u] = epoch[cur] /\ (u \in mseen' => u \in seen[cur])
                 /\ (u \in seen[cur] => u \in mseen')
      <4>1. CASE u \in chunk
        BY <3>1, <3>2, <3>4, <4>1
      <4>2. CASE u \notin todo
        BY <3>1, <3>2, <3>4, <4>2
      <4> QED BY <4>1, <4>2, <3>4
    <3> QED BY <3>1, <3>2, <3>4, <3>5
  <2>4. StoredInv' /\ DoneInv'
    BY <2>1 DEF StoredInv, CalmInv, DoneInv, run
  <2>5. NoStrayInv'
    BY <2>1 DEF CalmInv, NoStrayInv, Reset, Stored, run
  <2> QED BY <2>1, <2>2, <2>3, <2>4, <2>5, <1>n DEF CalmInv, server
<1>6. CASE ScanMissing
  <2> USE <1>6, <1>c DEF ScanMissing
  <2>1. UNCHANGED <<server, eml, index, cur, queue, done, mirror, calm, sel, uids,
                    metas, mseen>>
    BY DEF disk
  <2>2. CoversWhenCalm' /\ FilesExact'
    BY <2>1, FoldersKept
  <2>3. ReadInv' /\ DoneInv'
    BY <2>1 DEF CalmInv, ReadInv, DoneInv, Unread, server
  <2>4. StoredInv'
    <3> SUFFICES ASSUME cur \in calm, NEW u \in uids, u \notin Missing
                 PROVE  eml[cur][u] \in {Torn, epoch[cur]}
      BY <2>1 DEF StoredInv, server
    <3>1. sel = epoch[cur] /\ Between(eml[cur][u], sel, cur) /\ u \in Uids
      BY DEF CalmInv, ReadInv, LabelInv, FetchInv, TypeOK, FetchOK
    <3>2. eml[cur][u] # Absent
      BY <3>1 DEF Missing, Stored
    <3> QED BY <3>1, <3>2 DEF Between
  <2>5. NoStrayInv'
    BY <2>1 DEF CalmInv, NoStrayInv, Reset, Stored
  <2> QED BY <2>1, <2>2, <2>3, <2>4, <2>5, <1>n DEF CalmInv, server
<1>7. CASE FetchRaw
  <2> USE <1>7, <1>c DEF FetchRaw
  <2>1. UNCHANGED <<server, eml, index, cur, queue, done, mirror, calm, sel, uids,
                    metas, mseen>>
    BY DEF disk
  <2>2. CoversWhenCalm' /\ FilesExact'
    BY <2>1, FoldersKept
  <2>3. ReadInv' /\ DoneInv'
    BY <2>1 DEF CalmInv, ReadInv, DoneInv, Unread, server
  <2>4. StoredInv'
    <3> SUFFICES ASSUME cur \in calm
                 PROVE  todo' \cup buf' = todo \cup buf
      BY <2>1 DEF CalmInv, StoredInv, server
    <3>1. NextChunk(todo) \subseteq msgs[cur] /\ buf = {}
      BY ChunkSubset DEF CalmInv, ReadInv, TypeOK, FetchOK
    <3> QED BY <3>1, ChunkSubset DEF Answered
  <2>5. NoStrayInv'
    BY <2>1 DEF CalmInv, NoStrayInv, Reset, Stored
  <2> QED BY <2>1, <2>2, <2>3, <2>4, <2>5, <1>n DEF CalmInv, server
<1>8. ASSUME NEW w \in Uids, WriteBody(w)
      PROVE  CalmInv'
  <2> USE <1>8, <1>c DEF WriteBody
  <2>1. /\ UNCHANGED <<server, index, run, calm, sel, uids, metas, mseen, todo>>
        /\ w \in uids /\ cur \notin done
    BY DEF TypeOK, FetchOK, CalmInv, DoneInv
  <2>2. \A f \in Folders, u \in Uids :
          eml'[f][u] = IF f = cur /\ u = w THEN sess ELSE eml[f][u]
    BY DEF TypeOK, DiskOK
  <2>3. \A f \in Folders : f # cur => eml'[f] = eml[f]
    BY DEF TypeOK, DiskOK
  <2>4. CoversWhenCalm' /\ FilesExact'
    BY <2>1, <2>3, OthersKept DEF run
  <2>5. ReadInv' /\ DoneInv'
    BY <2>1 DEF CalmInv, ReadInv, DoneInv, Unread, server, run
  <2>6. StoredInv'
    <3> SUFFICES ASSUME cur \in calm, NEW u \in uids
                 PROVE  \/ eml'[cur][u] \in {Torn, epoch[cur]}
                        \/ u \in todo \cup buf'
      BY <2>1 DEF StoredInv, server, run
    <3>1. sess = epoch[cur] /\ uids \subseteq Uids
      BY DEF CalmInv, ReadInv, LabelInv, FetchInv, TypeOK, FetchOK
    <3> QED BY <2>2, <3>1 DEF CalmInv, StoredInv
  <2>7. NoStrayInv'
    BY <2>1, <2>2 DEF CalmInv, NoStrayInv, Reset, Stored, run
  <2> QED BY <2>1, <2>4, <2>5, <2>6, <2>7, <1>n DEF CalmInv, server
<1>9. CASE ChunkWritten
  <2> USE <1>9, <1>c DEF ChunkWritten
  <2>1. UNCHANGED <<server, eml, index, cur, queue, done, mirror, calm, fetch>>
    BY DEF disk
  <2>2. CoversWhenCalm' /\ FilesExact'
    BY <2>1, FoldersKept
  <2>3. ReadInv' /\ DoneInv' /\ StoredInv'
    BY <2>1 DEF CalmInv, ReadInv, DoneInv, StoredInv, Unread, server, fetch
  <2>4. NoStrayInv'
    BY <2>1 DEF CalmInv, NoStrayInv, Reset, Stored, fetch
  <2> QED BY <2>1, <2>2, <2>3, <2>4, <1>n DEF CalmInv, server
<1>10. CASE PruneMessages
  <2> USE <1>10, <1>c DEF PruneMessages
  <2>1. /\ UNCHANGED <<server, index, cur, queue, done, mirror, calm, fetch>>
        /\ cur \notin done /\ buf = {}
    BY DEF TypeOK, FetchOK, CalmInv, DoneInv
  <2>2. \A u \in Uids : eml'[cur][u] = IF u \in Vanished THEN Absent ELSE eml[cur][u]
    BY DEF TypeOK, DiskOK, Without
  <2>3. \A f \in Folders : f # cur => eml'[f] = eml[f]
    BY DEF TypeOK, DiskOK
  <2>4. CoversWhenCalm' /\ FilesExact'
    BY <2>1, <2>3, OthersKept
  <2>5. ReadInv' /\ DoneInv'
    BY <2>1 DEF CalmInv, ReadInv, DoneInv, Unread, server, fetch
  <2>6. StoredInv'
    <3> SUFFICES ASSUME cur \in calm, NEW u \in uids
                 PROVE  eml'[cur][u] \in {Torn, epoch[cur]}
      BY <2>1 DEF StoredInv, server, fetch
    <3>1. u \notin Vanished /\ u \in Uids
      BY DEF Vanished, TypeOK, FetchOK
    <3> QED BY <2>1, <2>2, <3>1 DEF CalmInv, StoredInv
  <2>7. NoStrayInv'
    <3>1. Stored(cur)' = Stored(cur) \ Vanished
      BY <2>1, <2>2 DEF Stored
    <3>2. Reset(cur, sel) => Stored(cur) \subseteq uids
      BY DEF CalmInv, NoStrayInv
    <3>3. ~Reset(cur, sel) /\ mirror => Stored(cur) \ Vanished \subseteq uids
      BY DEF Vanished
    <3> QED BY <2>1, <3>1, <3>2, <3>3 DEF NoStrayInv, Reset, fetch
  <2> QED BY <2>1, <2>4, <2>5, <2>6, <2>7, <1>n DEF CalmInv, server
<1>11. CASE WriteIndex
  <2> USE <1>11, <1>c DEF WriteIndex, ForgetFolder
  <2>1. /\ UNCHANGED <<server, eml, queue, mirror, calm>>
        /\ done' = done \cup {cur} /\ cur' = NoFolder
    OBVIOUS
  <2>2. \A f \in Folders : f # cur => index'[f] = index[f]
    BY DEF TypeOK, DiskOK
  <2>3. ASSUME NEW f \in calm PROVE Covered(f)'
    <3>1. CASE f = cur
      BY <3>1, <1>n, WrittenIsCovered
    <3>2. CASE f # cur
      <4>1. Covered(f)
        BY <3>2, <1>n DEF CalmInv, CoversWhenCalm, UpToDate
      <4> QED BY <2>1, <2>2, <3>2, <4>1, <1>n, Untouched DEF server
    <3> QED BY <3>1, <3>2
  <2>4. ASSUME NEW f \in done' \cap calm, mirror PROVE Exact(f)'
    <3>1. CASE f = cur
      BY <2>4, <3>1, <1>n, WrittenIsCovered
    <3>2. CASE f # cur
      <4>1. Exact(f)
        BY <2>1, <2>4, <3>2 DEF CalmInv, FilesExact, Exact
      <4> QED BY <2>1, <2>2, <3>2, <4>1, <1>n, Untouched DEF server
    <3> QED BY <3>1, <3>2
  <2>5. CoversWhenCalm' /\ FilesExact'
    BY <2>1, <2>3, <2>4 DEF CoversWhenCalm, UpToDate, FilesExact, Exact
  <2>6. DoneInv'
    BY <2>1, ConstantsOK DEF CalmInv, DoneInv, TypeOK, RunOK
  <2> QED BY <2>1, <2>5, <2>6, <1>n, <1>q DEF server
<1>12. CASE LastFolderDone \/ FoldersPruned \/ WriteManifest
  <2>1. /\ UNCHANGED <<server, eml, index, queue, done, mirror, calm, cur>>
        /\ pc' \notin InFolder \cup {"list"}
    BY <1>12 DEF LastFolderDone, FoldersPruned, WriteManifest, disk
  <2>2. CoversWhenCalm' /\ FilesExact'
    BY <2>1, FoldersKept
  <2>3. DoneInv'
    BY <2>1 DEF CalmInv, DoneInv
  <2> QED BY <2>1, <2>2, <2>3, <1>n, <1>q DEF server
<1>13. ASSUME NEW d \in Folders, PruneFolder(d)
      PROVE  CalmInv'
  <2> USE <1>13 DEF PruneFolder
  <2>1. UNCHANGED <<server, run, calm>> /\ pc' \notin InFolder
    BY DEF run
  <2>2. d \notin calm /\ d \notin done
    BY CalmIsNotPrunable
  <2>3. \A f \in Folders : f # d => eml'[f] = eml[f] /\ index'[f] = index[f]
    BY DEF TypeOK, DiskOK
  <2>4. CoversWhenCalm' /\ FilesExact'
    BY <2>1, <2>2, <2>3, OthersKept DEF run
  <2>5. DoneInv'
    BY <2>1 DEF CalmInv, DoneInv, run
  <2> QED BY <2>1, <2>4, <2>5, <1>n, <1>q DEF server
<1>14. CASE Fail \/ Stop \/ StopInManifest
  BY <1>14, HaltCalm DEF Fail, Stop, StopInManifest, disk
<1>15. ASSUME NEW S \in SUBSET Uids, StopRemoving(S)
      PROVE  CalmInv'
  <2>1. \A f \in Folders : f # cur => eml'[f] = eml[f] /\ index'[f] = index[f]
    BY <1>15 DEF StopRemoving, TypeOK, DiskOK
  <2> QED BY <1>15, <2>1, HaltCalm DEF StopRemoving
<1>16. ASSUME NEW w \in Uids, StopInBody(w)
      PROVE  CalmInv'
  <2>1. \A f \in Folders : f # cur => eml'[f] = eml[f] /\ index'[f] = index[f]
    BY <1>16 DEF StopInBody, TypeOK, DiskOK
  <2> QED BY <1>16, <2>1, HaltCalm DEF StopInBody
<1>17. CASE StopInIndex
  <2>1. \A f \in Folders : f # cur => eml'[f] = eml[f] /\ index'[f] = index[f]
    BY <1>17 DEF StopInIndex, TypeOK, DiskOK
  <2> QED BY <1>17, <2>1, HaltCalm DEF StopInIndex
<1>18. ASSUME NEW d \in Folders, NEW S \in SUBSET Uids, StopPruning(d, S)
      PROVE  CalmInv'
  <2>1. pc = "prune" /\ d \in Prunable /\ Halt
    BY <1>18 DEF StopPruning
  <2>2. d \notin calm
    BY <2>1, CalmIsNotPrunable
  <2>3. \A f \in Folders : f # d => eml'[f] = eml[f] /\ index'[f] = index[f]
    BY <1>18 DEF StopPruning, TypeOK, DiskOK
  <2> QED BY <2>1, <2>2, <2>3, HaltCalm
<1>19. ASSUME NEW f \in Folders, Other(f)
      PROVE  CalmInv'
  <2>1. /\ UNCHANGED <<eml, index, pc, mirror, queue, done, cur, fetch>>
        /\ calm' = calm \ {f}
    BY <1>19 DEF Other, disk, run
  <2>2. \A g \in Folders \ {f} :
          /\ epoch'[g] = epoch[g] /\ msgs'[g] = msgs[g] /\ seen'[g] = seen[g]
          /\ g \in live => g \in live'
    BY <1>19
    DEF Other, OtherClient, Deliver, ExpungeUid, ToggleSeen, DropFolder,
        RecreateFolder, TypeOK, ServerTypeOK
  <2>3. \A g \in Folders \ {f} : /\ Covered(g) => Covered(g)'
                                 /\ Exact(g) => Exact(g)'
    BY <2>1, <2>2, Untouched
  <2>4. CoversWhenCalm'
    BY <2>1, <2>3 DEF CalmInv, CoversWhenCalm, UpToDate
  <2>5. \A g \in done' \cap calm' : mirror' => Exact(g)'
    BY <2>1, <2>3, <1>n DEF CalmInv, FilesExact, Exact
  <2>6. FilesExact'
    BY <2>5 DEF FilesExact, Exact
  <2>7. ReadInv' /\ StoredInv' /\ DoneInv'
    BY <2>1, <2>2, <1>c DEF CalmInv, ReadInv, StoredInv, DoneInv, Unread, fetch
  <2>8. NoStrayInv'
    BY <2>1 DEF CalmInv, NoStrayInv, Reset, Stored, fetch
  <2>9. calm' \subseteq live' \ Noselect
    BY <2>1, <2>2, <1>n
  <2> QED BY <2>4, <2>6, <2>7, <2>8, <2>9 DEF CalmInv
<1>20. CASE UNCHANGED vars
  <2>1. UNCHANGED <<server, eml, index, run, fetch, calm>>
    BY <1>20 DEF vars, disk
  <2>2. CoversWhenCalm' /\ FilesExact'
    BY <2>1, FoldersKept DEF run
  <2>3. ReadInv' /\ StoredInv' /\ DoneInv'
    BY <2>1 DEF CalmInv, ReadInv, StoredInv, DoneInv, Unread, run, fetch, server
  <2>4. NoStrayInv'
    BY <2>1 DEF CalmInv, NoStrayInv, Reset, Stored, run, fetch
  <2> QED BY <2>1, <2>2, <2>3, <2>4, <1>n DEF CalmInv, server
<1> QED
  BY <1>1, <1>2, <1>3, <1>4, <1>5, <1>6, <1>7, <1>8, <1>9, <1>10, <1>11,
     <1>12, <1>13, <1>14, <1>15, <1>16, <1>17, <1>18, <1>19, <1>20
  DEF Next, RunStep, Cut

LEMMA CalmInvariant == Spec => []CalmInv
<1>1. TypeOK /\ LabelInv /\ KeepInv /\ CalmInv /\ [Next]_vars => CalmInv'
  BY CalmStep
<1>2. TypeOK /\ LabelInv /\ [Next]_vars => LabelInv'
  BY LabelStep
<1>3. TypeOK /\ LabelInv /\ KeepInv /\ [Next]_vars => KeepInv'
  BY KeepStepInv
<1> QED
  BY <1>1, <1>2, <1>3, CalmInit, LabelInit, KeepInit, TypeCorrect, PTL DEF Spec

\* From whatever state earlier runs left, a backup of a folder nobody changes
\* ends with a file and an up-to-date entry for each of its messages.
THEOREM CalmIsCovered == Spec => []CoversWhenCalm
<1>1. CalmInv => CoversWhenCalm
  BY DEF CalmInv
<1> QED BY <1>1, CalmInvariant, PTL

\* A folder a run has finished is not the one it is in: an exact one holds each
\* of its messages that is not torn.
LEMMA ExactIsHeld ==
  ASSUME TypeOK, CalmInv
  PROVE  MirrorIsExact
<1> SUFFICES ASSUME NEW f \in done \cap calm, mirror
             PROVE  /\ Exact(f)
                    /\ Held[f] = msgs[f] \ TornBodies(f)
  BY DEF MirrorIsExact, Exact
<1>1. f \in Folders /\ Exact(f)
  BY DEF CalmInv, FilesExact, TypeOK, RunOK
<1>2. f \in calm \ {cur}
  BY DEF CalmInv, DoneInv
<1>3. Covered(f)
  BY <1>1, <1>2 DEF CalmInv, CoversWhenCalm, UpToDate
<1>4. epoch[f] # Torn /\ epoch[f] # Absent
  BY <1>1, ConstantsOK DEF TypeOK, ServerTypeOK
<1>5. msgs[f] \subseteq Uids /\ Stored(f) = msgs[f]
  BY <1>1 DEF Exact, Stored
<1>6. \A u \in Uids : Restorable(f, u) <=> u \in msgs[f] \ TornBodies(f)
  BY <1>3, <1>4, <1>5 DEF Covered, Restorable, TornBodies, Stored
<1>7. Held[f] = {u \in Uids : Restorable(f, u)}
  BY <1>1 DEF Held
<1>8. {u \in Uids : Restorable(f, u)} = msgs[f] \ TornBodies(f)
  BY <1>5, <1>6
<1> QED BY <1>1, <1>7, <1>8

\* A mirror run leaves the files and entries of such a folder's messages and no
\* other, and restore makes each message of them again but the ones whose body
\* an earlier crash cut short.
THEOREM MirrorsAreExact == Spec => []MirrorIsExact
<1>1. TypeOK /\ CalmInv => MirrorIsExact
  BY ExactIsHeld
<1> QED BY <1>1, CalmInvariant, TypeCorrect, PTL

-----------------------------------------------------------------------------
\* The folders a run has finished are on disk, and its manifest names them.
ManifestInv ==
  /\ pc \in InFolder => cur \in dirs
  /\ \A f \in done : f \in dirs /\ index[f].status = "ok"
  /\ pc = "done" => manifest = [status |-> "ok", folders |-> done]

LEMMA ManifestStep ==
  ASSUME TypeOK, CalmInv, ManifestInv, [Next]_vars
  PROVE  ManifestInv'
<1> USE DEF InFolder
<1>c. pc \in InFolder => cur \in Folders
  BY CurFolder
<1>1. ASSUME NEW m \in Modes, NEW w \in Scopes, Start(m, w)
      PROVE  ManifestInv'
  BY <1>1 DEF Start, ManifestInv
<1>2. CASE \/ List \/ ClearFolder \/ FetchMeta \/ ScanMissing \/ FetchRaw
           \/ (\E w \in Uids : WriteBody(w)) \/ ChunkWritten \/ PruneMessages
           \/ LastFolderDone \/ FoldersPruned \/ WriteManifest
  <2>1. /\ UNCHANGED <<dirs, index, done, cur>>
        /\ pc' \in InFolder => pc \in InFolder
        /\ pc' = "done" => manifest' = [status |-> "ok", folders |-> done]
    BY <1>2
    DEF List, ClearFolder, FetchMeta, ScanMissing, FetchRaw, WriteBody,
        ChunkWritten, PruneMessages, LastFolderDone, FoldersPruned,
        WriteManifest, disk, run, PruneDue
  <2> QED BY <2>1 DEF ManifestInv
<1>3. ASSUME NEW f \in Folders, SelectFolder(f)
      PROVE  ManifestInv'
  BY <1>3 DEF SelectFolder, ManifestInv
<1>4. CASE WriteIndex
  <2>1. cur \in dirs /\ NewIndex.status = "ok"
    BY <1>4 DEF WriteIndex, ManifestInv, NewIndex, MirrorIndex, MergedIndex
  <2>2. \A f \in Folders : index'[f] = IF f = cur THEN NewIndex ELSE index[f]
    BY <1>4 DEF WriteIndex, TypeOK, DiskOK
  <2>3. done \subseteq Folders /\ cur \in Folders
    BY <1>4, <1>c DEF WriteIndex, TypeOK, RunOK
  <2> QED BY <1>4, <2>1, <2>2, <2>3 DEF WriteIndex, ManifestInv
<1>5. ASSUME NEW d \in Folders, PruneFolder(d)
      PROVE  ManifestInv'
  <2>1. d \notin done /\ pc = "prune" /\ UNCHANGED <<pc, done, cur>>
    BY <1>5 DEF PruneFolder, Prunable, run
  <2>2. \A f \in done : f \in dirs' /\ index'[f] = index[f]
    BY <1>5, <2>1 DEF PruneFolder, ManifestInv, TypeOK, DiskOK, RunOK
  <2> QED BY <2>1, <2>2 DEF ManifestInv
<1>6. CASE Fail \/ Cut
  BY <1>6 DEF Fail, Cut, Stop, StopRemoving, StopInBody, StopInIndex,
              StopInManifest, StopPruning, Halt, ManifestInv
<1>7. CASE (\E f \in Folders : Other(f)) \/ UNCHANGED vars
  BY <1>7 DEF Other, vars, disk, run, ManifestInv
<1> QED
  BY <1>1, <1>2, <1>3, <1>4, <1>5, <1>6, <1>7 DEF Next, RunStep

\* A finished run leaves a manifest all of whose folders have a readable index.
THEOREM ManifestIsReadable == Spec => []ManifestReadable
<1>1. Init => ManifestInv
  BY DEF Init, ManifestInv, InFolder
<1>2. TypeOK /\ CalmInv /\ ManifestInv /\ [Next]_vars => ManifestInv'
  BY ManifestStep
<1>3. ManifestInv => ManifestReadable
  BY DEF ManifestInv, ManifestReadable
<1> QED BY <1>1, <1>2, <1>3, CalmInvariant, TypeCorrect, PTL DEF Spec
=============================================================================
