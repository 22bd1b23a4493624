----------------------------- MODULE IndexSync -----------------------------
(***************************************************************************)
(* "mailotron index sync": internal/index/sync.go brings a SQLite database *)
(* in line with the mailbox, one transaction at a time, while other        *)
(* clients keep changing the mailbox.  Between any two transactions the    *)
(* process may be killed, or stopped by an error.                          *)
(*                                                                         *)
(* A row of table "messages" is represented by the epoch of the message    *)
(* whose text it holds and by its \Seen flag: the folder and the UID are   *)
(* its key.  The full-text table follows "messages" by triggers and adds   *)
(* no state of its own.                                                    *)
(*                                                                         *)
(* The database is shared and the run's variables are not, so that a       *)
(* second process is a second instance of this module (TwoSyncs).          *)
(***************************************************************************)
EXTENDS ImapClient

VARIABLES
  \* the database
  label,     \* label[f]: folders.uid_validity of f, or NoRow
  doc,       \* doc[f][u]: epoch of the message indexed as f/u, or NoRow
  dseen,     \* dseen[f]: indexed UIDs whose flags say \Seen
  \* the run
  pc,        \* where it stands
  exclude,   \* folders that match index.exclude_folders
  wanted,    \* the folders listed for this run (map "live")
  queue,     \* those still to sync
  cur,       \* the folder being synced, or NoFolder
  sel,       \* uidValidity of SelectInfo
  uids,      \* uids of SelectInfo
  prev,      \* prevValidity of FolderState, or NoRow
  known,     \* its UIDs ("indexed")
  byUID,     \* the UIDs FetchMeta described
  mseen,     \* those among them with \Seen
  todo,      \* UIDs the current FETCH loop still has to ask for
  large,     \* UIDs left for FetchPrefix
  sess,      \* epoch selected by the current FETCH loop
  buf,       \* messages of the last chunk that are not yet in the database
  gone,      \* folders PruneFolders has decided to drop
  \* auxiliary
  calm       \* folders nobody else has changed since the last SelectInfo of
             \* theirs, and that are not excluded or failed on since

CONSTANTS
  NoFolder,  \* cur outside syncFolder
  Excludes   \* the sets of folders a user may exclude

ASSUME IndexAssumption ==
  /\ NoFolder \notin Folders
  /\ Excludes \subseteq SUBSET Folders

db     == <<label, doc, dseen>>
ofRun  == <<pc, exclude, wanted, queue, cur>>
fetch  == <<sel, uids, prev, known, byUID, mseen, todo, large, sess, buf>>
vars   == <<server, db, ofRun, fetch, gone, calm>>

-----------------------------------------------------------------------------
NoRow  == 0
NoRows == [u \in Uids |-> NoRow]

Rows(f) == {u \in Uids : doc[f][u] # NoRow}

Resting  == {"idle", "done", "stopped"}
InFolder == {"state", "uids", "reset", "delete", "meta", "body", "put"}
Working  == {"list", "next", "prune"} \cup InFolder

DbOK ==
  /\ label \in [Folders -> 0 .. MaxEpoch]
  /\ doc \in [Folders -> [Uids -> 0 .. MaxEpoch]]
  /\ dseen \in [Folders -> SUBSET Uids]
  /\ \A f \in Folders : dseen[f] \subseteq Rows(f)

RunOK ==
  /\ pc \in Resting \cup Working
  /\ exclude \subseteq Folders
  /\ wanted \subseteq Folders
  /\ queue \subseteq wanted
  /\ cur \in Folders \cup {NoFolder}
  /\ cur = NoFolder <=> pc \notin InFolder
  /\ gone \subseteq Folders
  /\ calm \subseteq Folders

FetchOK ==
  /\ sel \in 0 .. MaxEpoch
  /\ uids \subseteq Uids
  /\ prev \in 0 .. MaxEpoch
  /\ known \subseteq Uids
  /\ byUID \subseteq uids
  /\ mseen \subseteq byUID
  /\ todo \subseteq uids
  /\ large \subseteq uids
  /\ sess \in 0 .. MaxEpoch
  /\ buf \subseteq uids
  /\ buf # {} => pc = "put"
  /\ pc = "put" => sess \in Epochs

TypeOK == ServerTypeOK /\ DbOK /\ RunOK /\ FetchOK

DbInit ==
  /\ label = [f \in Folders |-> NoRow]
  /\ doc = [f \in Folders |-> NoRows]
  /\ dseen = [f \in Folders |-> {}]

RunInit ==
  /\ pc = "idle"
  /\ exclude = {} /\ wanted = {} /\ queue = {} /\ gone = {}
  /\ cur = NoFolder
  /\ sel = 0 /\ uids = {} /\ prev = NoRow /\ known = {} /\ byUID = {}
  /\ mseen = {} /\ todo = {} /\ large = {} /\ sess = NoSession /\ buf = {}
  /\ calm = {}

Init == ServerInit /\ DbInit /\ RunInit

-----------------------------------------------------------------------------
\* syncFolder's local variables go out of scope.
ForgetFolder ==
  /\ cur' = NoFolder
  /\ sel' = 0 /\ uids' = {} /\ prev' = NoRow /\ known' = {} /\ byUID' = {}
  /\ mseen' = {} /\ todo' = {} /\ large' = {} /\ sess' = NoSession /\ buf' = {}

\* The user, or cron, starts a sync with the folders of x excluded.
Start(x) ==
  /\ pc \in Resting
  /\ pc' = "list"
  /\ exclude' = x
  /\ wanted' = {} /\ queue' = {} /\ gone' = {}
  /\ UNCHANGED <<server, db, cur, fetch, calm>>

\* Seeded fault: the exclusion is forgotten.
SyncableAll == live \ Noselect

\* The folders a sync covers.
Syncable == (live \ Noselect) \ exclude

\* ListFolders, and the filter at the head of the loop.
List ==
  /\ pc = "list"
  /\ wanted' = Syncable
  /\ queue' = Syncable
  /\ pc' = "next"
  /\ UNCHANGED <<server, db, exclude, cur, fetch, gone, calm>>

SelectFolder(f) ==
  /\ pc = "next"
  /\ f \in queue
  /\ CanSelect(f)
  /\ cur' = f
  /\ queue' = queue \ {f}
  /\ sel' = SelectInfo(f).uidValidity
  /\ uids' = SelectInfo(f).uids
  /\ prev' = NoRow /\ known' = {} /\ byUID' = {} /\ mseen' = {}
  /\ todo' = {} /\ large' = {} /\ sess' = NoSession
  /\ pc' = "state"
  /\ calm' = calm \cup {f}
  /\ UNCHANGED <<server, db, exclude, wanted, buf, gone>>

\* FolderState, its first query: no row is "found = false".
ReadLabel ==
  /\ pc = "state"
  /\ prev' = label[cur]
  /\ pc' = IF label[cur] = NoRow THEN "reset" ELSE "uids"
  /\ UNCHANGED <<server, db, exclude, wanted, queue, cur, sel, uids, known,
                 byUID, mseen, todo, large, sess, buf, gone, calm>>

\* The folder was indexed under another UIDVALIDITY.
Outdated == prev # sel

\* FolderState, its second query, and the decision to reset.
ReadUids ==
  /\ pc = "uids"
  /\ known' = Rows(cur)
  /\ pc' = IF Outdated THEN "reset" ELSE "delete"
  /\ UNCHANGED <<server, db, exclude, wanted, queue, cur, sel, uids, prev,
                 byUID, mseen, todo, large, sess, buf, gone, calm>>

\* Seeded fault: the old UIDVALIDITY is recorded again.
NewLabelOld == prev

\* The UIDVALIDITY a reset records.
NewLabel == sel

\* Seeded fault: the UIDVALIDITY is recorded and the old rows are left.
ResetLabelOnly ==
  /\ pc = "reset"
  /\ label' = [label EXCEPT ![cur] = NewLabel]
  /\ known' = {}
  /\ pc' = "delete"
  /\ UNCHANGED <<server, doc, dseen, exclude, wanted, queue, cur, sel, uids,
                 prev, byUID, mseen, todo, large, sess, buf, gone, calm>>

\* ResetFolder, one transaction.
ResetFolder ==
  /\ pc = "reset"
  /\ doc' = [doc EXCEPT ![cur] = NoRows]
  /\ dseen' = [dseen EXCEPT ![cur] = {}]
  /\ label' = [label EXCEPT ![cur] = NewLabel]
  /\ known' = {}
  /\ pc' = "delete"
  /\ UNCHANGED <<server, exclude, wanted, queue, cur, sel, uids, prev, byUID,
                 mseen, todo, large, sess, buf, gone, calm>>

\* Seeded fault: every indexed message is dropped before the new ones come.
VanishedAll == known

\* The indexed UIDs the server did not list.
Vanished == known \ uids

\* Delete, one transaction; then FetchMeta begins.
DeleteVanished ==
  /\ pc = "delete"
  /\ doc' = [doc EXCEPT ![cur] =
               [u \in Uids |-> IF u \in Vanished THEN NoRow ELSE @[u]]]
  /\ dseen' = [dseen EXCEPT ![cur] = @ \ Vanished]
  /\ todo' = uids
  /\ pc' = "meta"
  /\ UNCHANGED <<server, label, exclude, wanted, queue, cur, sel, uids, prev,
                 known, byUID, mseen, large, sess, buf, gone, calm>>

\* FetchMeta, one chunk.
FetchMeta ==
  /\ pc = "meta"
  /\ todo # {}
  /\ CanFetch(cur, sess)
  /\ LET got == Answered(cur, NextChunk(todo)) IN
       /\ byUID' = byUID \cup got
       /\ mseen' = mseen \cup (got \cap seen[cur])
  /\ todo' = todo \ NextChunk(todo)
  /\ sess' = epoch[cur]
  /\ UNCHANGED <<server, db, ofRun, sel, uids, prev, known, large, buf, gone,
                 calm>>

\* Seeded fault: the flags of indexed messages are left as they were.
RefreshedNone == {}

\* The indexed messages whose flags were fetched.
Refreshed == known \cap byUID

\* SetFlags, one transaction, and the split of the missing messages by size
\* (a size is known only of a message FetchMeta described).
SetFlags ==
  /\ pc = "meta"
  /\ todo = {}
  /\ dseen' = [dseen EXCEPT ![cur] =
                 (@ \ Refreshed) \cup (mseen \cap Refreshed \cap Rows(cur))]
  /\ \E big \in SUBSET ((uids \ known) \cap byUID) :
       /\ large' = big
       /\ todo' = (uids \ known) \ big
  /\ sess' = NoSession
  /\ pc' = "body"
  /\ UNCHANGED <<server, label, doc, exclude, wanted, queue, cur, sel, uids,
                 prev, known, byUID, mseen, buf, gone, calm>>

\* fetchBodies, one chunk into memory.
FetchBody ==
  /\ pc = "body"
  /\ todo # {}
  /\ CanFetch(cur, sess)
  /\ buf' = Answered(cur, NextChunk(todo))
  /\ todo' = todo \ NextChunk(todo)
  /\ sess' = epoch[cur]
  /\ pc' = "put"
  /\ UNCHANGED <<server, db, exclude, wanted, queue, cur, sel, uids, prev,
                 known, byUID, mseen, large, gone, calm>>

\* The callback "add": one message parsed and Put, one transaction each.
Put(u) ==
  /\ pc = "put"
  /\ u \in buf
  /\ doc' = [doc EXCEPT ![cur][u] = sess]
  /\ dseen' = [dseen EXCEPT ![cur] =
                 IF u \in mseen THEN @ \cup {u} ELSE @ \ {u}]
  /\ buf' = buf \ {u}
  /\ UNCHANGED <<server, label, ofRun, sel, uids, prev, known, byUID, mseen,
                 todo, large, sess, gone, calm>>

ChunkPut ==
  /\ pc = "put"
  /\ buf = {}
  /\ pc' = "body"
  /\ UNCHANGED <<server, db, exclude, wanted, queue, cur, fetch, gone, calm>>

\* FetchRaw has returned: on to FetchPrefix.
FetchLarge ==
  /\ pc = "body"
  /\ todo = {}
  /\ large # {}
  /\ todo' = large
  /\ large' = {}
  /\ sess' = NoSession
  /\ UNCHANGED <<server, db, ofRun, sel, uids, prev, known, byUID, mseen, buf,
                 gone, calm>>

FolderDone ==
  /\ pc = "body"
  /\ todo = {} /\ large = {}
  /\ pc' = "next"
  /\ ForgetFolder
  /\ UNCHANGED <<server, db, exclude, wanted, queue, gone, calm>>

\* The indexed folders this run did not list.
Unwanted == {f \in Folders : label[f] # NoRow} \ wanted

\* PruneFolders, the query that precedes its transaction.
ReadNames ==
  /\ pc = "next"
  /\ queue = {}
  /\ gone' = Unwanted
  /\ pc' = "prune"
  /\ UNCHANGED <<server, db, exclude, wanted, queue, cur, fetch, calm>>

\* PruneFolders, its transaction.
PruneFolders ==
  /\ pc = "prune"
  /\ doc' = [f \in Folders |-> IF f \in gone THEN NoRows ELSE doc[f]]
  /\ dseen' = [f \in Folders |-> IF f \in gone THEN {} ELSE dseen[f]]
  /\ label' = [f \in Folders |-> IF f \in gone THEN NoRow ELSE label[f]]
  /\ calm' = calm \ exclude
  /\ gone' = {}
  /\ pc' = "done"
  /\ UNCHANGED <<server, exclude, wanted, queue, cur, fetch>>

-----------------------------------------------------------------------------
\* A run that ends early: an error is returned, or the process is killed.
\* What it has committed stays, what it has not is rolled back.
Halt ==
  /\ pc' = "stopped"
  /\ ForgetFolder
  /\ exclude' = {} /\ wanted' = {} /\ queue' = {} /\ gone' = {}
  /\ calm' = calm \ {cur}
  /\ UNCHANGED <<server, db>>

Stop == pc \in Working /\ Halt

\* An IMAP command the run is about to send fails.
Fail ==
  /\ \/ pc = "next" /\ \E f \in queue : ~CanSelect(f)
     \/ pc \in {"meta", "body"} /\ todo # {} /\ ~CanFetch(cur, sess)
  /\ Halt

\* One step of a run that goes well, or ends with an error of the server's.
RunStep ==
  \/ List
  \/ \E f \in Folders : SelectFolder(f)
  \/ ReadLabel
  \/ ReadUids
  \/ ResetFolder
  \/ DeleteVanished
  \/ FetchMeta
  \/ SetFlags
  \/ FetchBody
  \/ \E u \in Uids : Put(u)
  \/ ChunkPut
  \/ FetchLarge
  \/ FolderDone
  \/ ReadNames
  \/ PruneFolders
  \/ Fail

\* Another client changes folder f.
Other(f) ==
  /\ OtherClient(f)
  /\ calm' = calm \ {f}
  /\ UNCHANGED <<db, ofRun, fetch, gone>>

Next ==
  \/ \E x \in Excludes : Start(x)
  \/ RunStep
  \/ Stop
  \/ \E f \in Folders : Other(f)

Spec == Init /\ [][Next]_vars

\* The process runs on unless it is stopped; nothing makes the user start one
\* or other clients act.
FairSpec == Spec /\ WF_vars(RunStep)
-----------------------------------------------------------------------------
(***************************************************************************)
(* Properties                                                              *)
(***************************************************************************)

\* A folder indexed under its present UIDVALIDITY holds no message of an
\* earlier incarnation: syncFolder would never fetch such a UID again.
LabelTrusted ==
  \A f \in Folders : label[f] = epoch[f] =>
    \A u \in Uids : doc[f][u] \in {NoRow, epoch[f]}

\* Messages belong to a folder that PruneFolders can see, so that they go when
\* the folder goes.
NoOrphans == \A f \in Folders : Rows(f) # {} => label[f] # NoRow

\* The index of f is the mailbox.
Exact(f) ==
  /\ label[f] = epoch[f]
  /\ Rows(f) = msgs[f]
  /\ \A u \in msgs[f] : doc[f][u] = epoch[f]
  /\ dseen[f] = seen[f]

\* From whatever earlier, interrupted, runs left behind, a syncFolder that
\* runs to its end while nobody changes the folder brings it in line with the
\* mailbox, flags included, and no later run undoes that.
InLine == \A f \in calm \ {cur} : Exact(f)

\* After a sync the index holds no folder that is excluded or was not on the
\* server when the sync began.
OnlyWanted ==
  pc = "done" => \A f \in Folders : label[f] # NoRow => f \in wanted \ exclude

\* Through every step of every sync, also one that is cut short, the index is a
\* copy of the mailbox (MailCopy): what it holds under the folder's present
\* UIDVALIDITY was delivered, and it gives up no message that is still on the
\* server, unless the folder is excluded (sync.go:76-118).
Indexed == [f \in Folders |->
              {u \in Uids : label[f] = epoch[f] /\ doc[f][u] = epoch[f]}]

Copy == INSTANCE MailCopy WITH held <- Indexed, mirror <- TRUE, waived <- exclude

IndexIsCopy == Copy!Spec

\* A sync that was started ends, whatever other clients do meanwhile.
SyncEnds == pc \in Working ~> pc \in Resting
=============================================================================
