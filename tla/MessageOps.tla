----------------------------- MODULE MessageOps -----------------------------
(***************************************************************************)
(* "mailotron message ...", "draft" and "folder ...": the commands of      *)
(* internal/cli that work on one message or folder, each an IMAP session   *)
(* of its own (internal/imapclient/messages.go, thread.go, client.go).     *)
(* The user reads a message in one command and names it by folder and UID  *)
(* in a later one; other clients use the mailbox all the time.  A command  *)
(* is several IMAP commands: it may be killed, or stopped by an error,     *)
(* between any two of them, and the answer to one that the server carried  *)
(* out may be lost.  The user then runs it again, or does something else.  *)
(*                                                                         *)
(* The mailbox is external.  Unlike ImapServer it tells the contents of    *)
(* messages apart and knows \Deleted:                                      *)
(*   - a UID command that names no message of the folder succeeds;         *)
(*   - COPY and MOVE keep the flags, and fail for a missing folder;        *)
(*   - EXPUNGE removes every message marked \Deleted, whoever marked it;   *)
(*   - RENAME of INBOX moves its messages and leaves INBOX behind.         *)
(***************************************************************************)
EXTENDS Integers, Sequences, FiniteSets

CONSTANTS
  Folders,   \* the names a folder may have
  Inbox,     \* --folder, --reply-folder when not given
  Trash,     \* the account's trash folder
  Drafts,    \* the account's folder for drafts
  Dests,     \* the folders named by --to-folder
  Others,    \* the folders other clients change
  Flagging,  \* bound: the folders where the user flags messages
  Messages,  \* the contents delivered
  Draft,     \* the content of a draft
  None,      \* no message
  MaxUid,    \* bound: UIDs handed out per epoch
  MaxEpoch   \* bound: UIDVALIDITY values of one folder

ASSUME MailboxAssumption ==
  /\ {Inbox, Trash, Drafts} \cup Dests \cup Others \subseteq Folders
  /\ Draft \notin Messages
  /\ None \notin Messages \cup {Draft}
  /\ MaxUid \in Nat \ {0}
  /\ MaxEpoch \in Nat \ {0}

Uids   == 1 .. MaxUid
Epochs == 1 .. MaxEpoch
Places == Folders \X Uids

VARIABLES
  \* the mailbox
  live,      \* the folders that exist
  epoch,     \* epoch[f]: UIDVALIDITY of f, or the last one f had
  uidnext,   \* uidnext[f]: next UID to assign
  box,       \* box[f][u]: the message under UID u of f, or NoMail
  hasMove,   \* the server has the MOVE extension
  \* the user
  look,      \* the message a list or show command printed last, or NoLook
  \* the command
  pc,        \* what it does next, or how the last one ended
  dest,      \* the folder it writes to
  sess,      \* the UIDVALIDITY of look's folder when it selected it
  reads,     \* what it has fetched so far
  \* auxiliary
  owed,      \* messages delivered and disposed of by nobody
  calm,      \* nobody else has changed the mailbox since the command began
  had        \* what look's UID and dest held when it began

mailbox == <<live, epoch, uidnext, box, hasMove>>
command == <<pc, dest, sess, reads>>
history == <<calm, had>>
vars    == <<mailbox, look, command, owed, history>>

-----------------------------------------------------------------------------
Items  == Messages \cup {Draft}
Mail   == [msg : Items \cup {None}, deleted : BOOLEAN, flagged : BOOLEAN]
NoMail == [msg |-> None, deleted |-> FALSE, flagged |-> FALSE]
Looks  == [folder : Folders, uid : Uids, epoch : Epochs, msg : Items \cup {None}]
NoLook == [folder |-> Inbox, uid |-> 1, epoch |-> 1, msg |-> None]
Reads  == [epoch : Epochs, msg : Items]
NoSession == 0

\* "ok": the last command reported success and is remembered; "idle": it
\* failed or was killed, has nothing to be checked, or there was none.
Resting == {"idle", "ok"}
Working == {"store", "expunge", "quote", "files", "append"}

Present(f) == {u \in Uids : box[f][u].msg # None}

\* The places that hold m, and those among them no EXPUNGE removes.
Copies(m) == {c \in Places : box[c[1]][c[2]].msg = m}
Safe(m)   == {c \in Copies(m) : ~box[c[1]][c[2]].deleted}

MailboxOK ==
  /\ Inbox \in live /\ live \subseteq Folders
  /\ epoch \in [Folders -> Epochs]
  /\ uidnext \in [Folders -> 1 .. MaxUid + 1]
  /\ box \in [Folders -> [Uids -> Mail]]
  /\ hasMove \in BOOLEAN
  /\ \A f \in Folders, u \in Uids :
       /\ u \in Present(f) => f \in live /\ u < uidnext[f]
       /\ u \notin Present(f) => box[f][u] = NoMail

CommandOK ==
  /\ look \in Looks
  /\ pc \in Resting \cup Working
  /\ dest \in Folders
  /\ sess \in Epochs \cup {NoSession}
  /\ reads \in Seq(Reads)

TypeOK ==
  /\ MailboxOK
  /\ CommandOK
  /\ owed \subseteq Messages
  /\ calm \in BOOLEAN
  /\ had \in [source : Items \cup {None}, at : SUBSET Uids]

NothingHad == [source |-> None, at |-> {}]

\* An empty mailbox, on a server with MOVE or without it.
Init ==
  /\ live \in {l \in SUBSET Folders : Inbox \in l}
  /\ epoch = [f \in Folders |-> 1]
  /\ uidnext = [f \in Folders |-> 1]
  /\ box = [f \in Folders |-> [u \in Uids |-> NoMail]]
  /\ hasMove \in BOOLEAN
  /\ look = NoLook
  /\ pc = "idle" /\ dest = Inbox /\ sess = NoSession /\ reads = <<>>
  /\ owed = {}
  /\ calm = FALSE /\ had = NothingHad

-----------------------------------------------------------------------------
(***************************************************************************)
(* What the server does for one IMAP command.                              *)
(***************************************************************************)
\* d takes one more message, and this is its UID.
NewUid(d) == uidnext[d]
Room(d)   == d \in live /\ uidnext[d] <= MaxUid
Takes(d)  == uidnext' = [uidnext EXCEPT ![d] = @ + 1]

Deposit(d, m) ==
  /\ Room(d) /\ Takes(d)
  /\ box' = [box EXCEPT ![d][NewUid(d)] = [NoMail EXCEPT !.msg = m]]

Nothing(d) == d \in live /\ UNCHANGED <<uidnext, box>>

UidCopy(f, u, d) ==
  IF u \in Present(f)
  THEN /\ Room(d) /\ Takes(d)
       /\ box' = [box EXCEPT ![d][NewUid(d)] = box[f][u]]
  ELSE Nothing(d)

UidMove(f, u, d) ==
  IF u \in Present(f)
  THEN /\ Room(d) /\ Takes(d)
       /\ box' = [box EXCEPT ![f][u] = NoMail, ![d][NewUid(d)] = box[f][u]]
  ELSE Nothing(d)

Expunge(f) ==
  /\ box' = [box EXCEPT ![f] =
               [u \in Uids |-> IF box[f][u].deleted THEN NoMail ELSE box[f][u]]]
  /\ UNCHANGED uidnext

\* Folder f comes into being.
Made(f) ==
  /\ f \notin live
  /\ epoch[f] < MaxEpoch
  /\ live' = live \cup {f}
  /\ epoch' = [epoch EXCEPT ![f] = @ + 1]
  /\ uidnext' = [uidnext EXCEPT ![f] = 1]
  /\ UNCHANGED box

\* Folder f and its messages go.
Dropped(f) ==
  /\ f \in live \ {Inbox}
  /\ live' = live \ {f}
  /\ box' = [box EXCEPT ![f] = [u \in Uids |-> NoMail]]
  /\ owed' = owed \ {box[f][u].msg : u \in Uids}
  /\ UNCHANGED <<epoch, uidnext>>

-----------------------------------------------------------------------------
(***************************************************************************)
(* What the user does between commands, or in one that only reads: list,   *)
(* show, and download --attachments-only.                                  *)
(***************************************************************************)
NoHistory == calm' = FALSE /\ had' = NothingHad

\* The process ends, and what it knew is gone.
Quit == pc' = "idle" /\ dest' = Inbox /\ sess' = NoSession /\ reads' = <<>> /\ NoHistory

\* A message is printed with its folder, UID and UIDVALIDITY; a list shows
\* messages marked \Deleted too.
Look(f, u) ==
  /\ pc \in Resting
  /\ u \in Present(f)
  /\ look' = [folder |-> f, uid |-> u, epoch |-> epoch[f], msg |-> box[f][u].msg]
  /\ Quit
  /\ UNCHANGED <<mailbox, owed>>

\* A folder command is one IMAP command.  Its answer may be lost.
FolderCommand == pc \in Resting /\ Quit /\ UNCHANGED <<hasMove, look>>

FolderCreate(f) == FolderCommand /\ Made(f) /\ UNCHANGED owed

FolderDelete(f) == FolderCommand /\ Dropped(f)

\* Messages keep their UIDs; the name gets a UIDVALIDITY it never had.
FolderRename(f, g) ==
  /\ FolderCommand
  /\ f \in live /\ g \notin live
  /\ epoch[g] < MaxEpoch
  /\ live' = (live \ ({f} \ {Inbox})) \cup {g}
  /\ epoch' = [epoch EXCEPT ![g] = @ + 1]
  /\ uidnext' = [uidnext EXCEPT ![g] = uidnext[f]]
  /\ box' = [box EXCEPT ![g] = box[f], ![f] = [u \in Uids |-> NoMail]]
  /\ UNCHANGED owed

-----------------------------------------------------------------------------
(***************************************************************************)
(* The commands about look's folder and UID.  The options, the connection, *)
(* the SELECT and the first IMAP command are one step: what happens between*)
(* them happens before them, and an error there changes nothing.           *)
(***************************************************************************)
\* A command begins, by an IMAP command that names a message.
First == pc \in Resting /\ look # NoLook /\ look.folder \in live

\* It goes on in the folder it selected then.
Later(where) ==
  /\ pc = where
  /\ look.folder \in live
  /\ sess = epoch[look.folder]

\* The IMAP command is answered.  (Where its answer is lost: Quit.)
Answered(next, d) ==
  /\ pc' = next
  /\ dest' = d
  /\ sess' = IF next \in {"store", "expunge"} THEN epoch[look.folder] ELSE NoSession

\* What a move is judged by later on.
Remember(d) ==
  /\ calm' = TRUE
  /\ had' = LET m == box[look.folder][look.uid].msg
            IN  [source |-> m, at |-> {v \in Present(d) : box[d][v].msg = m}]

\* Seeded fault: STORE instead of UID STORE, the UID taken for a position.
StoreFlagByNumber(f, u, mail) ==
  LET nth == {v \in Present(f) : Cardinality({w \in Present(f) : w <= v}) = u}
  IN  /\ box' = [box EXCEPT ![f] = [v \in Uids |->
                   IF v \in nth THEN [box[f][v] EXCEPT !.deleted = mail.deleted]
                                ELSE box[f][v]]]
      /\ UNCHANGED uidnext

\* STORE +FLAGS or -FLAGS for one UID.
StoreFlag(f, u, mail) ==
  /\ box' = IF u \in Present(f) THEN [box EXCEPT ![f][u] = mail] ELSE box
  /\ UNCHANGED uidnext

MarkDeleted(f, u) == StoreFlag(f, u, [box[f][u] EXCEPT !.deleted = TRUE])

\* MOVE, where the server has it.
MoveMessage(d) ==
  /\ First /\ hasMove
  /\ UidMove(look.folder, look.uid, d)
  /\ \/ Answered("ok", d) /\ Remember(d) /\ reads' = <<>>
     \/ Quit
  /\ UNCHANGED owed

\* Seeded fault: the error of COPY is ignored.
MoveUnchecked(d) ==
  /\ First /\ ~hasMove
  /\ UidCopy(look.folder, look.uid, d) \/ UNCHANGED <<uidnext, box>>
  /\ \/ Answered("store", d) /\ Remember(d) /\ reads' = <<>>
     \/ Quit
  /\ UNCHANGED owed

\* Otherwise COPY,
MoveByCopy(d) ==
  /\ First /\ ~hasMove
  /\ UidCopy(look.folder, look.uid, d)
  /\ \/ Answered("store", d) /\ Remember(d) /\ reads' = <<>>
     \/ Quit
  /\ UNCHANGED owed

\* STORE +FLAGS \Deleted.  Under another UIDVALIDITY than the user's, the
\* message may have come after the COPY, which found none and succeeded; the
\* user was told to list the folder again and answers for it.
MoveByStore ==
  /\ Later("store")
  /\ MarkDeleted(look.folder, look.uid)
  /\ owed' = IF sess = look.epoch THEN owed
             ELSE owed \ {box[look.folder][look.uid].msg}
  /\ \/ Answered("expunge", dest) /\ UNCHANGED <<reads, history>>
     \/ Quit

\* Seeded fault: the message stays, marked \Deleted.
ExpungeNothing ==
  /\ Later("expunge")
  /\ \/ Answered("ok", dest) /\ UNCHANGED <<reads, history>>
     \/ Quit
  /\ UNCHANGED <<uidnext, box, owed>>

\* and EXPUNGE; delete --hard ends like this too.
ExpungeFolder ==
  /\ Later("expunge")
  /\ Expunge(look.folder)
  /\ \/ Answered("ok", dest) /\ UNCHANGED <<reads, history>>
     \/ Quit
  /\ UNCHANGED owed

\* delete --hard.  The user wants the message gone.
DeleteHard ==
  /\ First
  /\ MarkDeleted(look.folder, look.uid)
  /\ owed' = owed \ {box[look.folder][look.uid].msg}
  /\ \/ Answered("expunge", Inbox) /\ reads' = <<>> /\ NoHistory
     \/ Quit

\* delete without --hard is a move.
DeleteMessage == MoveMessage(Trash) \/ MoveByCopy(Trash) \/ DeleteHard

CopyMessage(d) == First /\ UidCopy(look.folder, look.uid, d) /\ Quit /\ UNCHANGED owed

FlagMessage(add) ==
  /\ First /\ look.folder \in Flagging
  /\ StoreFlag(look.folder, look.uid, [box[look.folder][look.uid] EXCEPT !.flagged = add])
  /\ Quit
  /\ UNCHANGED owed

\* Seeded fault: an empty answer is taken for a message.
FetchUnchecked(f, before, next, d) ==
  /\ f \in live
  /\ reads' = Append(before, [epoch |-> epoch[f], msg |-> box[f][look.uid].msg])
  /\ Answered(next, d)
  /\ NoHistory
  /\ UNCHANGED <<uidnext, box, owed>>

\* SELECT and FETCH of one UID of f, after what was read before.  A UID that is
\* not answered is an error.
FetchOne(f, before, next, d) ==
  /\ f \in live
  /\ look.uid \in Present(f)
  /\ reads' = Append(before, [epoch |-> epoch[f], msg |-> box[f][look.uid].msg])
  /\ Answered(next, d)
  /\ NoHistory
  /\ UNCHANGED <<uidnext, box, owed>>

\* download: the attachments are written, then the body is fetched.
FetchAttachments == First /\ FetchOne(look.folder, <<>>, "files", Inbox)

\* draft --reply-uid: the headers of the answered message; "append" is next
\* with --no-quote.
Thread ==
  /\ First
  /\ \E next \in {"quote", "append"} : FetchOne(look.folder, <<>>, next, Drafts)

\* Seeded fault: the quoted text comes from the default folder.
QuotedInbox == Inbox

\* The folder the second fetch goes to: --reply-folder, or download's --folder.
QuotedFolder == look.folder

\* It has a SELECT of its own, and brings the text to quote or to write.
ShowMessage ==
  \/ pc = "quote" /\ FetchOne(QuotedFolder, reads, "append", dest)
  \/ pc = "files" /\ FetchOne(QuotedFolder, reads, "ok", dest)

\* A draft that answers no message comes here at once.
AppendMessage ==
  /\ \/ pc = "append" /\ Deposit(dest, Draft)
     \/ pc \in Resting /\ Deposit(Drafts, Draft)
  /\ Quit
  /\ UNCHANGED owed

CommandStep ==
  /\ \/ \E d \in Dests : MoveMessage(d) \/ MoveByCopy(d) \/ CopyMessage(d)
     \/ MoveByStore \/ ExpungeFolder \/ DeleteMessage
     \/ \E add \in BOOLEAN : FlagMessage(add)
     \/ FetchAttachments \/ Thread \/ ShowMessage \/ AppendMessage
  /\ UNCHANGED <<live, epoch, hasMove, look>>

\* The process is killed, the connection breaks, the server refuses, or a UID
\* is not answered.
Stop ==
  /\ pc \in Working
  /\ Quit
  /\ UNCHANGED <<mailbox, look, owed>>

-----------------------------------------------------------------------------
(***************************************************************************)
(* Other clients and the delivery agent.                                   *)
(***************************************************************************)
Deliver(f, m) ==
  /\ m \notin owed
  /\ Deposit(f, m)
  /\ owed' = owed \cup {m}
  /\ UNCHANGED <<live, epoch>>

\* Somebody marks a message for deletion, or thinks better of it.
ToggleDeleted(f, u) ==
  /\ u \in Present(f)
  /\ box' = [box EXCEPT ![f][u].deleted = ~@]
  /\ owed' = IF box[f][u].deleted THEN owed ELSE owed \ {box[f][u].msg}
  /\ UNCHANGED <<live, epoch, uidnext>>

ExpungeByOther(f) ==
  /\ \E u \in Uids : box[f][u].deleted
  /\ Expunge(f)
  /\ UNCHANGED <<live, epoch, owed>>

Other(f) ==
  /\ \/ \E m \in Messages : Deliver(f, m)
     \/ \E u \in Uids : ToggleDeleted(f, u)
     \/ ExpungeByOther(f)
     \/ Dropped(f)
     \/ Made(f) /\ UNCHANGED owed
  /\ NoHistory
  /\ UNCHANGED <<hasMove, look, command>>

Next ==
  \/ \E f \in Folders, u \in Uids : Look(f, u)
  \/ \E f \in Folders : FolderCreate(f) \/ FolderDelete(f)
  \/ \E f, g \in Folders : FolderRename(f, g)
  \/ CommandStep
  \/ Stop
  \/ \E f \in Others : Other(f)

Spec == Init /\ [][Next]_vars

-----------------------------------------------------------------------------
(***************************************************************************)
(* Properties.                                                             *)
(***************************************************************************)
\* A message that was delivered, and that neither the user nor anybody else
\* marked for deletion or deleted with its folder, is still in some folder,
\* where no EXPUNGE removes it: wherever moves and trashings were cut off and
\* whatever was repeated (messages.go:138-146 copies before it removes).
NothingLost == \A m \in owed : Safe(m) # {}

\* A move or a trashing reported as done, while nobody else changed anything,
\* took the message from its folder and put one more copy into the other,
\* after any number of failed attempts (commands_imap.go:283-286, 360-367).
MovedOnce ==
  pc = "ok" /\ calm /\ had.source # None /\ dest # look.folder
    => /\ look.uid \notin Present(look.folder)
       /\ Cardinality({v \in Present(dest) : box[dest][v].msg = had.source}
                      \ had.at) = 1

\* The text a draft quotes is that of the message it answers, and a download
\* writes the parts of one message: two fetches under one UIDVALIDITY saw the
\* same message, the one the user read if the UIDVALIDITY is still that one
\* (commands_compose.go:219, 240; commands_imap.go:387, 405).
OneSource ==
  \A i \in DOMAIN reads :
    /\ reads[i].epoch = look.epoch => reads[i].msg = look.msg
    /\ \A j \in DOMAIN reads : reads[i].epoch = reads[j].epoch => reads[i] = reads[j]

\* A command changes or removes no message but the one the user read, as long
\* as the folder's UIDVALIDITY is the one the user saw, and what was marked
\* \Deleted before its EXPUNGE (AGENT_GUIDE.md:189-190).
Changed(f, u) == u \in Present(f) /\ box'[f][u] # box[f][u]
ActsOnMeant ==
  [][CommandStep =>
       \A f \in Folders, u \in Uids :
         Changed(f, u) =>
           \/ pc = "expunge" /\ box[f][u].deleted
           \/ /\ f = look.folder /\ u = look.uid
              /\ epoch[f] = look.epoch => box[f][u].msg = look.msg]_vars

-----------------------------------------------------------------------------
(***************************************************************************)
(* What a comment says and the code does not do.                           *)
(***************************************************************************)
\* delete --hard and a move without MOVE remove their own message only:
\* "DeleteMessage [...] marks \Deleted and expunges it" (messages.go:169-170).
RemovesOnlyNamed ==
  [][CommandStep =>
       \A f \in Folders, u \in Uids :
         u \in Present(f) /\ box'[f][u] = NoMail
           => f = look.folder /\ u = look.uid]_vars
=============================================================================
