------------------------------- MODULE Backup -------------------------------
(***************************************************************************)
(* "mailotron backup": internal/backup/backup.go copies the folders of a   *)
(* mailbox into a directory, one file per message, an index.json per       *)
(* folder and a manifest.json, while other clients keep changing the       *)
(* mailbox.  The process may be killed, or hit an error that ends the run, *)
(* between any two steps and in the middle of every loop over files and of *)
(* every os.WriteFile (which truncates the file before it writes it).      *)
(* Only one run uses the directory at a time, so a step that only touches  *)
(* the directory needs no finer grain than "done" or "cut short here".     *)
(*                                                                         *)
(* An .eml file is represented by the epoch of the message it holds (the   *)
(* folder and the UID are its path), an entry of index.json by the epoch   *)
(* of the message its metadata was read from and its \Seen flag.           *)
(***************************************************************************)
EXTENDS ImapClient

VARIABLES
  \* the backup directory
  dirs,      \* folders/<dir> that exist
  eml,       \* eml[f][u]: content of folders/f/<u>.eml
  index,     \* index[f]: content of folders/f/index.json
  manifest,  \* content of manifest.json
  \* the run
  pc,        \* where it stands
  mirror,    \* opts.Mirror
  want,      \* opts.Folders; {} is "all"
  queue,     \* folders still to back up
  done,      \* folders backed up by this run: keepDirs, manifest.Folders
  cur,       \* the folder being backed up, or NoFolder
  sel,       \* uidValidity of SelectInfo
  uids,      \* uids of SelectInfo
  metas,     \* metas[u]: epoch of the message FetchMeta described, or Absent
  mseen,     \* the UIDs whose metadata says \Seen
  todo,      \* UIDs the current FetchMeta or FetchRaw still has to ask for
  sess,      \* epoch selected by it
  buf,       \* UIDs of the last chunk whose body is not yet on disk
  \* auxiliary
  calm       \* folders nobody else has changed since the last SelectInfo
             \* of theirs, whose backup has not failed since either

CONSTANTS
  NoFolder,  \* cur outside backupFolder
  Modes,     \* the values of --mirror a user chooses from
  Scopes     \* the sets of --folder a user chooses from; {} is none given

ASSUME BackupAssumption ==
  /\ NoFolder \notin Folders
  /\ Modes \subseteq BOOLEAN
  /\ Scopes \subseteq SUBSET Folders

disk  == <<dirs, eml, index, manifest>>
fetch == <<sel, uids, metas, mseen, todo, sess, buf>>
run   == <<pc, mirror, want, queue, done, cur>>
vars  == <<server, disk, run, fetch, calm>>

-----------------------------------------------------------------------------
Absent == 0        \* no such file, no such metadata
Torn   == -1       \* a file cut short by a crash in os.WriteFile

Contents == {Absent, Torn} \cup Epochs

\* status "ok": readFolderIndex succeeds.  zero: there is an entry without a
\* UID or a file (the zero IndexEntry).
NoEntries == [u \in Uids |-> Absent]
NoIndex   == [status |-> "none", val |-> 0, zero |-> FALSE,
              entry |-> NoEntries, seen |-> {}]
TornIndex == [NoIndex EXCEPT !.status = "torn"]

IndexFiles ==
  [status : {"none", "torn", "ok"}, val : 0 .. MaxEpoch, zero : BOOLEAN,
   entry : [Uids -> 0 .. MaxEpoch], seen : SUBSET Uids]

ManifestFiles == [status : {"none", "torn", "ok"}, folders : SUBSET Folders]

Resting == {"idle", "done", "stopped"}
Working == {"list", "next", "clear", "meta", "raw", "write", "index",
            "prune", "manifest"}
InFolder == {"clear", "meta", "raw", "write", "index"}  \* in backupFolder

\* The files of folder f, and f's directory once S of them are removed.
Stored(f) == {u \in Uids : eml[f][u] # Absent}
Without(f, S) == [u \in Uids |-> IF u \in S THEN Absent ELSE eml[f][u]]

DiskOK ==
  /\ dirs \subseteq Folders
  /\ eml \in [Folders -> [Uids -> Contents]]
  /\ index \in [Folders -> IndexFiles]
  /\ manifest \in ManifestFiles

RunOK ==
  /\ pc \in Resting \cup Working
  /\ mirror \in BOOLEAN
  /\ want \subseteq Folders
  /\ queue \subseteq Folders
  /\ done \subseteq Folders
  /\ cur \in Folders \cup {NoFolder}
  /\ cur = NoFolder <=> pc \notin InFolder
  /\ calm \subseteq Folders

FetchOK ==
  /\ sel \in 0 .. MaxEpoch
  /\ uids \subseteq Uids
  /\ metas \in [Uids -> 0 .. MaxEpoch]
  /\ mseen \subseteq Uids
  /\ todo \subseteq uids
  /\ sess \in 0 .. MaxEpoch
  /\ buf \subseteq uids
  /\ buf # {} => pc = "write"
  /\ pc = "write" => sess \in Epochs

TypeOK == ServerTypeOK /\ DiskOK /\ RunOK /\ FetchOK

Init ==
  /\ ServerInit
  /\ dirs = {}
  /\ eml = [f \in Folders |-> NoEntries]
  /\ index = [f \in Folders |-> NoIndex]
  /\ manifest = [status |-> "none", folders |-> {}]
  /\ pc = "idle"
  /\ mirror = FALSE
  /\ want = {}
  /\ queue = {}
  /\ done = {}
  /\ cur = NoFolder
  /\ sel = 0 /\ uids = {} /\ metas = NoEntries /\ mseen = {}
  /\ todo = {} /\ sess = NoSession /\ buf = {}
  /\ calm = {}

-----------------------------------------------------------------------------
\* backupFolder's local variables go out of scope.
ForgetFolder ==
  /\ cur' = NoFolder
  /\ sel' = 0 /\ uids' = {} /\ metas' = NoEntries /\ mseen' = {}
  /\ todo' = {} /\ sess' = NoSession /\ buf' = {}

\* The user, or cron, starts a run.
Start(m, w) ==
  /\ pc \in Resting
  /\ pc' = "list"
  /\ mirror' = m
  /\ want' = w
  /\ queue' = {}
  /\ done' = {}
  /\ UNCHANGED <<server, disk, cur, fetch, calm>>

\* The folders a run backs up: the selectable ones that were asked for.
Selectable == {f \in live \ Noselect : want # {} => f \in want}

\* Run up to the loop over the folders.
List ==
  /\ pc = "list"
  /\ want # {} => Selectable # {}
  /\ queue' = Selectable
  /\ pc' = "next"
  /\ UNCHANGED <<server, disk, mirror, want, done, cur, fetch, calm>>

\* Seeded fault: the UIDVALIDITY is not compared.
ResetUnread(f, validity) == index[f].status # "ok"

\* prev == nil or another UIDVALIDITY.  index[f] is not written between the
\* moment it is read and the moment this is used.
Reset(f, validity) == index[f].status # "ok" \/ index[f].val # validity

\* backupFolder up to the decision to reset: SelectInfo, MkdirAll, read index.
SelectFolder(f) ==
  /\ pc = "next"
  /\ f \in queue
  /\ CanSelect(f)
  /\ cur' = f
  /\ queue' = queue \ {f}
  /\ LET info == SelectInfo(f) IN
       /\ sel' = info.uidValidity
       /\ uids' = info.uids
       /\ todo' = info.uids
       /\ pc' = IF Reset(f, info.uidValidity) THEN "clear" ELSE "meta"
  /\ metas' = NoEntries /\ mseen' = {} /\ sess' = NoSession
  /\ dirs' = dirs \cup {f}
  /\ calm' = calm \cup {f}
  /\ UNCHANGED <<server, eml, index, manifest, mirror, want, done, buf>>

\* removeMessageFiles
ClearFolder ==
  /\ pc = "clear"
  /\ eml' = [eml EXCEPT ![cur] = NoEntries]
  /\ pc' = "meta"
  /\ UNCHANGED <<server, dirs, index, manifest, mirror, want, queue, done,
                 cur, fetch, calm>>

\* FetchMeta, one chunk.
FetchMeta ==
  /\ pc = "meta"
  /\ todo # {}
  /\ CanFetch(cur, sess)
  /\ LET chunk == NextChunk(todo)
         got   == Answered(cur, chunk)
     IN /\ todo' = todo \ chunk
        /\ sess' = epoch[cur]
        /\ metas' = [u \in Uids |-> IF u \in got THEN epoch[cur] ELSE metas[u]]
        /\ mseen' = mseen \cup (got \cap seen[cur])
  /\ UNCHANGED <<server, disk, run, sel, uids, buf, calm>>

\* Seeded fault: every UID without a file is downloaded, listed or not.
MissingAnywhere == Uids \ Stored(cur)

\* The UIDs of the folder with no file on disk.
Missing == uids \ Stored(cur)

\* All metadata read: the bodies to download are those with no file at all.
ScanMissing ==
  /\ pc = "meta"
  /\ todo = {}
  /\ todo' = Missing
  /\ sess' = NoSession
  /\ pc' = "raw"
  /\ UNCHANGED <<server, disk, mirror, want, queue, done, cur,
                 sel, uids, metas, mseen, buf, calm>>

\* FetchRaw, one chunk into memory.
FetchRaw ==
  /\ pc = "raw"
  /\ todo # {}
  /\ CanFetch(cur, sess)
  /\ LET chunk == NextChunk(todo) IN
       /\ todo' = todo \ chunk
       /\ buf' = Answered(cur, chunk)
  /\ sess' = epoch[cur]
  /\ pc' = "write"
  /\ UNCHANGED <<server, disk, mirror, want, queue, done, cur,
                 sel, uids, metas, mseen, calm>>

\* The callback of FetchRaw writes the bodies one file at a time.
WriteBody(u) ==
  /\ pc = "write"
  /\ u \in buf
  /\ eml' = [eml EXCEPT ![cur][u] = sess]
  /\ buf' = buf \ {u}
  /\ UNCHANGED <<server, dirs, index, manifest, run,
                 sel, uids, metas, mseen, todo, sess, calm>>

ChunkWritten ==
  /\ pc = "write"
  /\ buf = {}
  /\ pc' = "raw"
  /\ UNCHANGED <<server, disk, mirror, want, queue, done, cur, fetch, calm>>

\* The files pruneMessages removes.
Vanished == IF mirror /\ ~Reset(cur, sel) THEN Stored(cur) \ uids ELSE {}

PruneMessages ==
  /\ pc = "raw"
  /\ todo = {}
  /\ eml' = [eml EXCEPT ![cur] = Without(cur, Vanished)]
  /\ pc' = "index"
  /\ UNCHANGED <<server, dirs, index, manifest, mirror, want, queue, done,
                 cur, fetch, calm>>

\* The index.json to write.  Mirror or reset: current[u] for every u of uids,
\* the zero entry where FetchMeta did not answer.  Additive: the previous
\* entries, overridden by the current ones.
MirrorIndex ==
  [status |-> "ok", val |-> sel, zero |-> \E u \in uids : metas[u] = Absent,
   entry |-> metas, seen |-> mseen]

\* Seeded fault: the previous entry wins over the current one.
StaleMergedIndex ==
  LET prev == index[cur] IN
  [status |-> "ok", val |-> sel, zero |-> prev.zero,
   entry |-> [u \in Uids |->
                IF prev.entry[u] # Absent THEN prev.entry[u] ELSE metas[u]],
   seen |-> prev.seen \cup {u \in mseen : prev.entry[u] = Absent}]

MergedIndex ==
  LET prev == index[cur] IN
  [status |-> "ok", val |-> sel, zero |-> prev.zero,
   entry |-> [u \in Uids |->
                IF metas[u] # Absent THEN metas[u] ELSE prev.entry[u]],
   seen |-> mseen \cup {u \in prev.seen : metas[u] = Absent}]

NewIndex == IF mirror \/ Reset(cur, sel) THEN MirrorIndex ELSE MergedIndex

WriteIndex ==
  /\ pc = "index"
  /\ index' = [index EXCEPT ![cur] = NewIndex]
  /\ done' = done \cup {cur}
  /\ pc' = "next"
  /\ ForgetFolder
  /\ UNCHANGED <<server, dirs, eml, manifest, mirror, want, queue, calm>>

\* Seeded fault: a scoped mirror prunes folders.
PruneDueScoped == mirror

\* Only a full mirror prunes folders.
PruneDue == mirror /\ want = {}

\* Every folder is done.
LastFolderDone ==
  /\ pc = "next"
  /\ queue = {}
  /\ pc' = IF PruneDue THEN "prune" ELSE "manifest"
  /\ UNCHANGED <<server, disk, mirror, want, queue, done, cur, fetch, calm>>

\* Seeded fault: keepDirs is not consulted.
PrunableAny == dirs

\* The directories pruneFolders removes: those not in keepDirs.
Prunable == dirs \ done

\* pruneFolders, one os.RemoveAll.
PruneFolder(d) ==
  /\ pc = "prune"
  /\ d \in Prunable
  /\ dirs' = dirs \ {d}
  /\ eml' = [eml EXCEPT ![d] = NoEntries]
  /\ index' = [index EXCEPT ![d] = NoIndex]
  /\ UNCHANGED <<server, manifest, run, fetch, calm>>

FoldersPruned ==
  /\ pc = "prune"
  /\ Prunable = {}
  /\ pc' = "manifest"
  /\ UNCHANGED <<server, disk, mirror, want, queue, done, cur, fetch, calm>>

WriteManifest ==
  /\ pc = "manifest"
  /\ manifest' = [status |-> "ok", folders |-> done]
  /\ pc' = "done"
  /\ UNCHANGED <<server, dirs, eml, index, mirror, want, queue, done, cur,
                 fetch, calm>>

-----------------------------------------------------------------------------
(***************************************************************************)
(* A run that ends early: an error is returned, or the process is killed.  *)
(***************************************************************************)
Halt ==
  /\ pc' = "stopped"
  /\ ForgetFolder
  /\ mirror' = FALSE /\ want' = {} /\ queue' = {} /\ done' = {}
  /\ calm' = calm \ {cur}
  /\ UNCHANGED server

\* Between two steps.
Stop == pc \in Working /\ Halt /\ UNCHANGED disk

\* In the middle of removeMessageFiles or pruneMessages: S is gone.
StopRemoving(S) ==
  /\ \/ pc = "clear" /\ S \subseteq Stored(cur)
     \/ pc = "raw" /\ todo = {} /\ S \subseteq Vanished
  /\ eml' = [eml EXCEPT ![cur] = Without(cur, S)]
  /\ Halt
  /\ UNCHANGED <<dirs, index, manifest>>

\* In the middle of os.WriteFile of a body, an index, the manifest.
StopInBody(u) ==
  /\ pc = "write"
  /\ u \in buf
  /\ eml' = [eml EXCEPT ![cur][u] = Torn]
  /\ Halt
  /\ UNCHANGED <<dirs, index, manifest>>

StopInIndex ==
  /\ pc = "index"
  /\ index' = [index EXCEPT ![cur] = TornIndex]
  /\ Halt
  /\ UNCHANGED <<dirs, eml, manifest>>

StopInManifest ==
  /\ pc = "manifest"
  /\ manifest' = [status |-> "torn", folders |-> {}]
  /\ Halt
  /\ UNCHANGED <<dirs, eml, index>>

\* In the middle of os.RemoveAll of d: S is gone, and maybe the index.
StopPruning(d, S) ==
  /\ pc = "prune"
  /\ d \in Prunable
  /\ S \subseteq Stored(d)
  /\ eml' = [eml EXCEPT ![d] = Without(d, S)]
  /\ index' \in {index, [index EXCEPT ![d] = NoIndex]}
  /\ Halt
  /\ UNCHANGED <<dirs, manifest>>

\* An IMAP command the run is about to send can only fail.
ErrorNext ==
  \/ pc = "list" /\ want # {} /\ Selectable = {}
  \/ pc = "next" /\ \E f \in queue : ~CanSelect(f)
  \/ pc \in {"meta", "raw"} /\ todo # {} /\ ~CanFetch(cur, sess)

Fail == ErrorNext /\ Halt /\ UNCHANGED disk

Cut ==
  \/ Stop
  \/ \E S \in SUBSET Uids : StopRemoving(S)
  \/ \E u \in Uids : StopInBody(u)
  \/ StopInIndex
  \/ StopInManifest
  \/ \E d \in Folders, S \in SUBSET Uids : StopPruning(d, S)

\* One step of a run that goes well, or ends with an error of the server's.
RunStep ==
  \/ List
  \/ \E f \in Folders : SelectFolder(f)
  \/ ClearFolder
  \/ FetchMeta
  \/ ScanMissing
  \/ FetchRaw
  \/ \E u \in Uids : WriteBody(u)
  \/ ChunkWritten
  \/ PruneMessages
  \/ WriteIndex
  \/ LastFolderDone
  \/ \E d \in Folders : PruneFolder(d)
  \/ FoldersPruned
  \/ WriteManifest
  \/ Fail

\* Another client changes folder f.
Other(f) ==
  /\ OtherClient(f)
  /\ calm' = calm \ {f}
  /\ UNCHANGED <<disk, run, fetch>>

Next ==
  \/ \E m \in Modes, w \in Scopes : Start(m, w)
  \/ RunStep
  \/ Cut
  \/ \E f \in Folders : Other(f)

Spec == Init /\ [][Next]_vars

\* The process runs on unless it is stopped; nothing makes the user start one
\* or other clients act.
FairSpec == Spec /\ WF_vars(RunStep)
-----------------------------------------------------------------------------
(***************************************************************************)
(* Properties                                                              *)
(***************************************************************************)

\* The label of an index can be trusted: when index.json carries the folder's
\* present UIDVALIDITY, no file and no entry beside it is of an earlier
\* incarnation of the folder, whatever crashes and re-creations led here
\* (backupFolder trusts it to reuse every file it finds).
LabelTrusted ==
  \A f \in Folders :
    index[f].status = "ok" /\ index[f].val = epoch[f] =>
      \A u \in Uids : /\ eml[f][u] \in {Absent, Torn, epoch[f]}
                      /\ index[f].entry[u] \in {Absent, epoch[f]}

\* f's last backup finished its folder and nobody changed f meanwhile.
UpToDate(f) == f \in calm \ {cur}

\* Every message of f has a file, whole or torn, and an up-to-date entry.
Covered(f) ==
  /\ index[f].status = "ok"
  /\ index[f].val = epoch[f]
  /\ \A u \in msgs[f] : /\ eml[f][u] \in {Torn, epoch[f]}
                        /\ index[f].entry[u] = epoch[f]
                        /\ u \in index[f].seen <=> u \in seen[f]

\* From whatever an earlier run left behind, a backupFolder that runs to its
\* end while the folder does not change covers the folder; later runs, also
\* interrupted ones and pruning ones, do not undo that.  A torn body counts as
\* a file here, as it does in the code.
CoversWhenCalm == \A f \in Folders : UpToDate(f) => Covered(f)

\* The backup holds message u of f's present incarnation, and restore finds it.
Restorable(f, u) ==
  /\ index[f].status = "ok"
  /\ index[f].val = epoch[f]
  /\ index[f].entry[u] = epoch[f]
  /\ eml[f][u] = epoch[f]

Held == [f \in Folders |-> {u \in Uids : Restorable(f, u)}]

\* The bodies of f a crash inside os.WriteFile cut short: os.Stat takes such a
\* file for the message (backup.go:144), so that no later run writes it again
\* while the UIDVALIDITY stays.
TornBodies(f) == {u \in Uids : eml[f][u] = Torn}

\* What a mirror run leaves of a folder nobody changed: as many files, entries
\* and read marks as the server has, no more, and each message restorable but
\* the torn ones.  They are the exception: an earlier run that was killed inside
\* a body leaves a mirror that README.md:143 "an exact point-in-time copy" is
\* not true of.
MirrorIsExact ==
  \A f \in done \cap calm :
    mirror => /\ Stored(f) = msgs[f]
              /\ Held[f] = msgs[f] \ TornBodies(f)
              /\ {u \in Uids : index[f].entry[u] # Absent} = msgs[f]
              /\ index[f].seen = seen[f]
              /\ ~index[f].zero

\* Through every step of every run, also one that is cut short, the backup is
\* a copy of the mailbox (MailCopy): what can be restored was delivered; an
\* additive run keeps all of it, a mirror run what is still on the server.  The
\* exceptions are the documented one, a new UIDVALIDITY, and a crash inside the
\* write of index.json (backup.go:164-187).
TornFolders == {f \in Folders : index[f] = TornIndex}

Copy == INSTANCE MailCopy WITH held <- Held, waived <- TornFolders

BackupIsCopy == Copy!Spec

\* A finished run leaves a manifest whose folders all have a readable index
\* (what RestoreRun reads first).
ManifestReadable ==
  pc = "done" => /\ manifest.status = "ok"
                 /\ \A f \in manifest.folders :
                      f \in dirs /\ index[f].status = "ok"

\* A run that was started ends, whatever other clients do meanwhile.
RunEnds == pc \in Working ~> pc \in Resting

-----------------------------------------------------------------------------
(***************************************************************************)
(* What the documentation says and the code does not do.                   *)
(***************************************************************************)
\* README.md:142 "messages deleted on the server are kept": an additive run
\* does not remove the file of a deleted message of a folder that a finished
\* run has recorded, unless the UIDVALIDITY changed.
AdditiveKeeps ==
  [][\A f \in Folders, u \in Uids :
       /\ pc \in Working /\ ~mirror
       /\ manifest.status = "ok" /\ f \in manifest.folders
       /\ index[f].status = "ok" => index[f].val = epoch[f]
       /\ eml[f][u] = epoch[f] /\ u \notin msgs[f]
       => eml'[f][u] = eml[f][u]]_vars
=============================================================================
