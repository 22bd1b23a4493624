------------------------------ MODULE Restore ------------------------------
(***************************************************************************)
(* "mailotron restore": internal/backup/restore.go appends the messages of *)
(* a backup directory to the folders of a mailbox, skipping those whose    *)
(* Message-ID it finds there, while other clients use the mailbox.  The    *)
(* process may be killed, or stopped by an error, between any two steps;   *)
(* the user then runs it again.  Runs do not overlap.                      *)
(*                                                                         *)
(* The directory is what mailotron backup left: a manifest and an index    *)
(* may be torn, and an entry's file may be torn or missing (see Backup).  A*)
(* message is represented by its Message-ID, a target folder by how many   *)
(* copies of each it holds, where 2 stands for "several"; the prefix is the*)
(* same in all runs, so that a folder of the backup names its target.      *)
(***************************************************************************)
EXTENDS Integers, Sequences, FiniteSets

CONSTANTS
  Folders,   \* the folders a manifest may name
  Mids,      \* Message-IDs
  NoMid,     \* a message without one, or with a piece of one
  NoFolder,  \* cur outside the loop over the folders
  Archives,  \* the backup directories considered
  Scopes,    \* the sets of --folder a user chooses from; {} is none given
  Foreign    \* the <<f, m>> such that others may put message m into f

Ids   == Mids \cup {NoMid}

\* Message-ID and .eml of an entry; a crash of the backup cut a torn one short.
Entry == [mid : Ids, file : {"whole", "torn", "none"}]

ArchiveDirs ==
  [readable : BOOLEAN,                 \* manifest.json can be read
   refs     : SUBSET Folders,          \* the folders it names
   indexed  : SUBSET Folders,          \* those whose index.json can be read
   entries  : [Folders -> Seq(Entry)]]

ASSUME RestoreAssumption ==
  /\ NoMid \notin Mids
  /\ NoFolder \notin Folders
  /\ Archives \subseteq ArchiveDirs
  /\ Scopes \subseteq SUBSET Folders
  /\ Foreign \subseteq Folders \X Ids

VARIABLES
  \* the target mailbox
  exists,    \* the target folders that exist
  box,       \* box[f][m]: copies of m in f's target folder
  \* the backup directory
  archive,
  \* the run
  pc,        \* where it stands
  dry,       \* opts.DryRun
  want,      \* opts.Folders
  queue,     \* manifest folders still to restore
  cur,       \* the folder being restored, or NoFolder
  existing,  \* Message-IDs taken to be in cur's target
  pos,       \* the entry of cur's index that comes next
  report,    \* report[f]: t.Restored
  \* auxiliary
  calm,      \* folders nobody else has changed since this run read them
  blind      \* folders a run could not read although they existed

mailbox == <<exists, box>>
ofRun   == <<pc, dry, want, queue, cur, existing, pos, report>>
history == <<calm, blind>>
vars    == <<mailbox, archive, ofRun, history>>

-----------------------------------------------------------------------------
Copies == 0 .. 2
Empty  == [m \in Ids |-> 0]

Resting  == {"idle", "done", "failed", "stopped"}
InFolder == {"ensure", "create", "read", "entries"}
Working  == {"manifest", "next"} \cup InFolder

\* The folders of the manifest this run restores.
Chosen == {f \in archive.refs : want # {} => f \in want}

Entries(f) == archive.entries[f]

\* The Message-IDs found in f's target.
Present(f) == {m \in Mids : box[f][m] > 0}

MailboxOK ==
  /\ exists \subseteq Folders
  /\ box \in [Folders -> [Ids -> Copies]]
  /\ \A f \in Folders \ exists : box[f] = Empty

RunOK ==
  /\ pc \in Resting \cup Working
  /\ dry \in BOOLEAN
  /\ want \subseteq Folders
  /\ queue \subseteq Chosen
  /\ pc \in Resting => queue = {}
  /\ cur \in Chosen \cup {NoFolder}
  /\ cur = NoFolder <=> pc \notin InFolder
  /\ existing \subseteq Mids
  /\ pos \in Nat \ {0}
  /\ pc # "entries" => pos = 1
  /\ pc = "entries" => pos <= Len(Entries(cur)) + 1
  /\ report \in [Folders -> Nat]
  /\ calm \subseteq Folders
  /\ blind \subseteq Folders

TypeOK == MailboxOK /\ archive \in Archives /\ RunOK

\* Some folders exist.  What is in them was restored by earlier runs, or put
\* there by others.
Init ==
  /\ exists \in SUBSET Folders
  /\ box = [f \in Folders |-> Empty]
  /\ archive \in Archives
  /\ pc = "idle"
  /\ dry = FALSE
  /\ want = {}
  /\ queue = {}
  /\ cur = NoFolder
  /\ existing = {}
  /\ pos = 1
  /\ report = [f \in Folders |-> 0]
  /\ calm = {} /\ blind = {}

-----------------------------------------------------------------------------
ForgetFolder == cur' = NoFolder /\ existing' = {} /\ pos' = 1

More(n) == IF n = 0 THEN 1 ELSE 2

\* One more copy of m in f's target.
Store(f, m) == box' = [box EXCEPT ![f][m] = More(@)]

Start(d, w) ==
  /\ pc \in Resting
  /\ pc' = "manifest"
  /\ dry' = d
  /\ want' = w
  /\ queue' = {}
  /\ report' = [f \in Folders |-> 0]
  /\ calm' = {}
  /\ UNCHANGED <<mailbox, archive, cur, existing, pos, blind>>

ReadManifest ==
  /\ pc = "manifest"
  /\ archive.readable
  /\ queue' = Chosen
  /\ pc' = "next"
  /\ UNCHANGED <<mailbox, archive, dry, want, cur, existing, pos, report,
                 history>>

\* Seeded fault: the loop stays at folder f.
RestStill(f) == queue

\* The folders that come after f.
Rest(f) == queue \ {f}

\* The loop over the manifest's folders: read the folder's index.
OpenFolder(f) ==
  /\ pc = "next"
  /\ f \in queue
  /\ f \in archive.indexed
  /\ cur' = f
  /\ queue' = Rest(f)
  /\ pc' = IF dry THEN "read" ELSE "ensure"
  /\ UNCHANGED <<mailbox, archive, dry, want, existing, pos, report, history>>

\* EnsureFolder: ListFolders.
EnsureFolder ==
  /\ pc = "ensure"
  /\ pc' = IF cur \in exists THEN "read" ELSE "create"
  /\ UNCHANGED <<mailbox, archive, dry, want, queue, cur, existing, pos,
                 report, history>>

\* EnsureFolder: CreateFolder.
CreateFolder ==
  /\ pc = "create"
  /\ cur \notin exists
  /\ exists' = exists \cup {cur}
  /\ pc' = "read"
  /\ UNCHANGED <<box, archive, dry, want, queue, cur, existing, pos, report,
                 history>>

\* Seeded fault: a dry run does not ask the server.
MessageIDsUnread(f) == IF dry THEN {} ELSE Present(f)

\* What MessageIDIndex returns when its SELECT succeeds.
MessageIDs(f) == Present(f)

MessageIDIndex ==
  /\ pc = "read"
  /\ existing' = IF cur \in exists THEN MessageIDs(cur) ELSE {}
  /\ calm' = calm \cup {cur}
  /\ pc' = "entries"
  /\ UNCHANGED <<mailbox, archive, dry, want, queue, cur, pos, report, blind>>

\* MessageIDIndex when its SELECT fails for another reason than a missing
\* folder: no Message-ID either.
MessageIDIndexBlind ==
  /\ pc = "read"
  /\ cur \in exists
  /\ existing' = {}
  /\ blind' = blind \cup {cur}
  /\ calm' = calm \cup {cur}
  /\ pc' = "entries"
  /\ UNCHANGED <<mailbox, archive, dry, want, queue, cur, pos, report>>

-----------------------------------------------------------------------------
\* The loop over the entries of cur's index.
AtEntry == pc = "entries" /\ pos <= Len(Entries(cur))
Mid     == Entries(cur)[pos].mid

\* Seeded fault: a message without Message-ID is skipped as well.
SkippableAnon == Mid = NoMid \/ Mid \in existing

\* The entry's Message-ID is there already.
Skippable == Mid # NoMid /\ Mid \in existing

Skip ==
  /\ AtEntry
  /\ Skippable
  /\ pos' = pos + 1
  /\ UNCHANGED <<mailbox, archive, pc, dry, want, queue, cur, existing, report,
                 history>>

CountOnly ==
  /\ AtEntry
  /\ ~Skippable
  /\ dry
  /\ report' = [report EXCEPT ![cur] = @ + 1]
  /\ pos' = pos + 1
  /\ UNCHANGED <<mailbox, archive, pc, dry, want, queue, cur, existing,
                 history>>

\* The Message-ID the entry's file has in the mailbox: a torn one is sent as it
\* is, and the cut may have been before the end of that header.
ArrivesAs == IF Entries(cur)[pos].file = "torn" THEN {Mid, NoMid} ELSE {Mid}

\* The entry's file is read and APPEND sent; the server has stored it.
Appended ==
  /\ AtEntry
  /\ ~Skippable
  /\ ~dry
  /\ Entries(cur)[pos].file # "none"
  /\ cur \in exists
  /\ \E id \in ArrivesAs : Store(cur, id)

\* Seeded fault: a missing Message-ID is noted too.
NotedAlways == existing \cup {Mid}

\* Seeded fault: an appended Message-ID is not noted.
NotedNone == existing

\* existing after the current entry was appended.
Noted == IF Mid = NoMid THEN existing ELSE existing \cup {Mid}

AppendEntry ==
  /\ Appended
  /\ existing' = Noted
  /\ report' = [report EXCEPT ![cur] = @ + 1]
  /\ pos' = pos + 1
  /\ UNCHANGED <<exists, archive, pc, dry, want, queue, cur, history>>

FolderDone ==
  /\ pc = "entries"
  /\ pos > Len(Entries(cur))
  /\ pc' = "next"
  /\ ForgetFolder
  /\ UNCHANGED <<mailbox, archive, dry, want, queue, report, history>>

Finish ==
  /\ pc = "next"
  /\ queue = {}
  /\ pc' = "done"
  /\ UNCHANGED <<mailbox, archive, dry, want, queue, cur, existing, pos,
                 report, history>>

-----------------------------------------------------------------------------
(***************************************************************************)
(* A run that ends early: an error is returned, or the process is killed.  *)
(***************************************************************************)
Halt ==
  /\ ForgetFolder
  /\ queue' = {}
  /\ UNCHANGED <<archive, dry, want, report, history>>

Stop ==
  /\ pc \in Working
  /\ pc' = "stopped"
  /\ Halt
  /\ UNCHANGED mailbox

\* The connection breaks after the server has stored the message and before
\* its answer arrives.
AppendUnanswered ==
  /\ Appended
  /\ pc' = "failed"
  /\ Halt
  /\ UNCHANGED exists

\* The next step of the run can only fail.
ErrorNext ==
  \/ pc = "manifest" /\ ~archive.readable
  \/ pc = "next" /\ \E f \in queue : f \notin archive.indexed
  \/ pc = "create" /\ cur \in exists
  \/ /\ AtEntry /\ ~Skippable /\ ~dry
     /\ Entries(cur)[pos].file = "none" \/ cur \notin exists

Fail ==
  /\ ErrorNext
  /\ pc' = "failed"
  /\ Halt
  /\ UNCHANGED mailbox

RunStep ==
  \/ ReadManifest
  \/ \E f \in Folders : OpenFolder(f)
  \/ EnsureFolder
  \/ CreateFolder
  \/ MessageIDIndex
  \/ MessageIDIndexBlind
  \/ Skip
  \/ CountOnly
  \/ AppendEntry
  \/ FolderDone
  \/ Finish
  \/ Fail

-----------------------------------------------------------------------------
(***************************************************************************)
(* Other clients of the mailbox.                                           *)
(***************************************************************************)
PutMessage(f, m) ==
  /\ f \in exists
  /\ <<f, m>> \in Foreign
  /\ Store(f, m)
  /\ UNCHANGED exists

RemoveMessage(f, m) ==
  /\ box[f][m] > 0
  /\ \E left \in IF box[f][m] = 1 THEN {0} ELSE {1, 2} :
       box' = [box EXCEPT ![f][m] = left]
  /\ UNCHANGED exists

MakeFolder(f) ==
  /\ f \notin exists
  /\ exists' = exists \cup {f}
  /\ UNCHANGED box

DropFolder(f) ==
  /\ f \in exists
  /\ exists' = exists \ {f}
  /\ box' = [box EXCEPT ![f] = Empty]

Other(f) ==
  /\ \/ \E m \in Ids : PutMessage(f, m) \/ RemoveMessage(f, m)
     \/ MakeFolder(f)
     \/ DropFolder(f)
  /\ calm' = calm \ {f}
  /\ UNCHANGED <<archive, ofRun, blind>>

Next ==
  \/ \E d \in BOOLEAN, w \in Scopes : Start(d, w)
  \/ RunStep
  \/ Stop
  \/ AppendUnanswered
  \/ \E f \in Folders : Other(f)

Spec == Init /\ [][Next]_vars

\* The process runs on unless it is stopped; nothing makes the user start one
\* or other clients act.
FairSpec == Spec /\ WF_vars(RunStep)
-----------------------------------------------------------------------------
(***************************************************************************)
(* Properties                                                              *)
(***************************************************************************)

\* However many runs there were and wherever they were cut off, also between
\* an APPEND and its answer, restore never makes a second copy of a message
\* that has a Message-ID, in a folder it could read and to which nobody else
\* adds that message.  (What is left of one whose file was cut short before its
\* Message-ID counts as one that has none: every run appends it again.)
NoDuplicates ==
  \A f \in Folders \ blind, m \in Mids : <<f, m>> \notin Foreign => box[f][m] <= 1

\* The copies of messages without Message-ID that f's entries stand for.
Anonymous(f) == {i \in DOMAIN Entries(f) : Entries(f)[i].mid = NoMid}

\* The Message-IDs of f whose file was cut short.
Damaged(f) == {Entries(f)[i].mid : i \in {j \in DOMAIN Entries(f) : Entries(f)[j].file = "torn"}}

\* f's target holds the message, or what a crash of the backup left of it.
There(f, id) == box[f][id] > 0 \/ (id \in Damaged(f) /\ box[f][NoMid] > 0)

\* A finished run leaves every backed-up message of its folders in the mailbox,
\* unless somebody else changed the folder while it worked on it; of one whose
\* file was cut short, maybe just a message without its Message-ID.
Complete ==
  pc = "done" /\ ~dry => \A f \in Chosen \cap calm :
    /\ \A i \in DOMAIN Entries(f) : There(f, Entries(f)[i].mid)
    /\ \A i, j \in Anonymous(f) : i # j => box[f][NoMid] = 2

\* The entries of f a real run does not skip: their Message-ID is neither in the
\* target nor an earlier entry's; those without one never are.
Needed(f) ==
  {i \in DOMAIN Entries(f) :
     /\ Entries(f)[i].mid \notin Present(f)
     /\ Entries(f)[i].mid # NoMid =>
          \A j \in 1 .. i - 1 : Entries(f)[j].mid # Entries(f)[i].mid}

\* Those it appends, if the server takes them: at the first without a file it
\* ends with an error (restore.go:86-89).
Due(f) == {i \in Needed(f) : \A j \in Needed(f) : j <= i => Entries(f)[j].file # "none"}

\* No two entries of f share a Message-ID.
Distinct(f) ==
  \A i, j \in DOMAIN Entries(f) \ Anonymous(f) :
    Entries(f)[i].mid = Entries(f)[j].mid => i = j

\* No file a real run needs is missing.
Intact(f) == \A i \in Needed(f) : Entries(f)[i].file # "none"

\* A dry run never announces fewer messages than a real run would append to the
\* folder as it is then, and just as many if the backup names no Message-ID of
\* the folder twice (a real run appends one of them) and has the files.
DryRunHonest ==
  pc = "done" /\ dry => \A f \in (Chosen \cap calm) \ blind :
    /\ report[f] >= Cardinality(Due(f))
    /\ Distinct(f) /\ Intact(f) => report[f] = Cardinality(Due(f))

\* A run that was started ends, whatever other clients do meanwhile.
RestoreEnds == pc \in Working ~> pc \in Resting

-----------------------------------------------------------------------------
(***************************************************************************)
(* What the documentation says and the code does not do.                   *)
(***************************************************************************)

\* restore.go:39 "messages whose Message-ID already exists in the target
\* folder are skipped, so re-running never creates duplicates".
Idempotent ==
  \A f \in Folders, m \in Mids : <<f, m>> \notin Foreign => box[f][m] <= 1
=============================================================================
