------------------------------ MODULE MailCopy ------------------------------
(***************************************************************************)
(* What mailotron promises of a copy of the mailbox, be it the directory   *)
(* of a backup or the database of the index, in terms of the mailbox and   *)
(* of the messages the copy holds.  How they are fetched and stored, and   *)
(* in which steps, is not said here: Backup and IndexSync each implement   *)
(* this specification, crashes included.                                   *)
(***************************************************************************)
EXTENDS Integers

CONSTANT Folders

VARIABLES
  epoch,    \* epoch[f]: UIDVALIDITY of f
  uidnext,  \* uidnext[f]: next UID to assign
  msgs,     \* msgs[f]: UIDs present in f
  held,     \* held[f]: the messages of f's present incarnation in the copy
  mirror,   \* the copy gives up what the mailbox has lost
  waived    \* folders nothing is promised for

mailbox == <<epoch, uidnext, msgs>>
vars    == <<mailbox, held, mirror, waived>>

\* The UIDs handed out in f's present incarnation.
Delivered(f) == 1 .. uidnext[f] - 1

Init ==
  /\ \A f \in Folders : msgs[f] \subseteq Delivered(f)
  /\ held = [f \in Folders |-> {}]

\* Messages come to and go from f, or f is created again, and of its new
\* incarnation the copy has nothing.
MailboxChanges(f) ==
  /\ \A g \in Folders \ {f} : /\ epoch'[g] = epoch[g]
                              /\ uidnext'[g] = uidnext[g]
                              /\ msgs'[g] = msgs[g]
  /\ \/ /\ epoch'[f] = epoch[f]
        /\ uidnext'[f] >= uidnext[f]
        /\ msgs'[f] \ msgs[f] \subseteq uidnext[f] .. uidnext'[f] - 1
        /\ held' = held
     \/ /\ epoch'[f] > epoch[f]
        /\ held' = [held EXCEPT ![f] = {}]
  /\ UNCHANGED <<mirror, waived>>

\* The copy takes up messages the mailbox has had, and loses only what it may.
MayLose(f, u) ==
  \/ mirror /\ u \notin msgs[f]
  \/ f \in waived \cup waived'

Work ==
  /\ UNCHANGED mailbox
  /\ \A f \in Folders :
       /\ held'[f] \subseteq Delivered(f)
       /\ \A u \in held[f] \ held'[f] : MayLose(f, u)

Next == Work \/ \E f \in Folders : MailboxChanges(f)

Spec == Init /\ [][Next]_vars
=============================================================================
