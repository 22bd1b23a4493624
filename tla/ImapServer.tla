----------------------------- MODULE ImapServer -----------------------------
(***************************************************************************)
(* The mailbox a mailotron command talks to: an IMAP server that other     *)
(* clients and the delivery agent change at any moment between two of our  *)
(* commands.  The server is not in the repository; this module states what *)
(* internal/imapclient relies on:                                          *)
(*   - a folder has a UIDVALIDITY ("epoch") that a re-creation raises;     *)
(*   - within one epoch a UID is handed out once and never reused;         *)
(*   - a UID FETCH silently omits the UIDs that do not exist (any more);   *)
(*   - a session that selected a folder is broken off when the folder is   *)
(*     deleted, so it never reads two epochs.                              *)
(* A message is therefore identified by <<folder, epoch, uid>>, and where  *)
(* the folder and the UID are known its epoch stands for its content.      *)
(***************************************************************************)
EXTENDS Integers, FiniteSets

CONSTANTS
  Folders,      \* the names a folder of this mailbox may have
  Noselect,     \* those listed with \Noselect: they hold no messages
  MaxUid,       \* bound: UIDs handed out per epoch
  MaxEpoch,     \* bound: UIDVALIDITY values of one folder
  FlagsChange   \* bound: whether other clients set and clear \Seen

ASSUME ServerAssumption ==
  /\ Noselect \subseteq Folders
  /\ MaxUid \in Nat
  /\ MaxEpoch \in Nat \ {0}
  /\ FlagsChange \in BOOLEAN

Uids   == 1 .. MaxUid
Epochs == 1 .. MaxEpoch

VARIABLES
  live,     \* the folders that exist
  epoch,    \* epoch[f]: UIDVALIDITY of f, or the last one f had
  uidnext,  \* uidnext[f]: next UID to assign
  msgs,     \* msgs[f]: UIDs present in f
  seen      \* seen[f]: the UIDs among them that carry \Seen

server == <<live, epoch, uidnext, msgs, seen>>

ServerTypeOK ==
  /\ live \subseteq Folders
  /\ epoch \in [Folders -> Epochs]
  /\ uidnext \in [Folders -> 1 .. MaxUid + 1]
  /\ msgs \in [Folders -> SUBSET Uids]
  /\ seen \in [Folders -> SUBSET Uids]
  /\ \A f \in Folders : /\ seen[f] \subseteq msgs[f]
                        /\ \A u \in msgs[f] : u < uidnext[f]
                        /\ f \notin live \ Noselect => msgs[f] = {}

ServerInit ==
  /\ live = Folders
  /\ epoch = [f \in Folders |-> 1]
  /\ uidnext = [f \in Folders |-> 1]
  /\ msgs = [f \in Folders |-> {}]
  /\ seen = [f \in Folders |-> {}]

(***************************************************************************)
(* What the rest of the world does to folder f.                            *)
(***************************************************************************)
Deliver(f) ==
  /\ f \in live \ Noselect
  /\ uidnext[f] <= MaxUid
  /\ msgs' = [msgs EXCEPT ![f] = @ \cup {uidnext[f]}]
  /\ uidnext' = [uidnext EXCEPT ![f] = @ + 1]
  /\ UNCHANGED <<live, epoch, seen>>

ExpungeUid(f, u) ==
  /\ u \in msgs[f]
  /\ msgs' = [msgs EXCEPT ![f] = @ \ {u}]
  /\ seen' = [seen EXCEPT ![f] = @ \ {u}]
  /\ UNCHANGED <<live, epoch, uidnext>>

ToggleSeen(f, u) ==
  /\ FlagsChange
  /\ u \in msgs[f]
  /\ seen' = [seen EXCEPT ![f] = IF u \in @ THEN @ \ {u} ELSE @ \cup {u}]
  /\ UNCHANGED <<live, epoch, uidnext, msgs>>

DropFolder(f) ==
  /\ f \in live
  /\ live' = live \ {f}
  /\ msgs' = [msgs EXCEPT ![f] = {}]
  /\ seen' = [seen EXCEPT ![f] = {}]
  /\ UNCHANGED <<epoch, uidnext>>

RecreateFolder(f) ==
  /\ f \in Folders \ live
  /\ epoch[f] < MaxEpoch
  /\ live' = live \cup {f}
  /\ epoch' = [epoch EXCEPT ![f] = @ + 1]
  /\ uidnext' = [uidnext EXCEPT ![f] = 1]
  /\ UNCHANGED <<msgs, seen>>

\* One change to folder f made by somebody else.
OtherClient(f) ==
  \/ Deliver(f)
  \/ \E u \in Uids : ExpungeUid(f, u) \/ ToggleSeen(f, u)
  \/ DropFolder(f)
  \/ RecreateFolder(f)
=============================================================================
