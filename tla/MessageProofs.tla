--------------------------- MODULE MessageProofs ---------------------------
(***************************************************************************)
(* Proofs about MessageOps: type correctness; that a command acts on the   *)
(* message the user read and on no other (ActsOnMeant, OneSource); that no *)
(* message is lost on the way between two folders (NothingLost); and that  *)
(* a finished move has made one copy (MovedOnce).                          *)
(***************************************************************************)
EXTENDS MessageOps, FiniteSetTheorems, TLAPS

USE DEF Uids, Epochs, Places, NoSession

LEMMA MessageConstants ==
  /\ Inbox \in Folders /\ Trash \in Folders /\ Drafts \in Folders
  /\ Dests \subseteq Folders /\ Others \subseteq Folders
  /\ NoMail \in Mail /\ NoMail.msg = None /\ ~NoMail.deleted
  /\ NoLook \in Looks /\ NoLook.msg = None
  /\ None \notin Items
  /\ 1 \in Uids /\ 1 \in Epochs
  BY MailboxAssumption DEF Mail, NoMail, Items, Looks, NoLook

\* Writing one place, and one item of the message in it.
LEMMA OnePlace ==
  ASSUME NEW b \in [Folders -> [Uids -> Mail]], NEW f \in Folders, NEW u \in Uids,
         NEW mail \in Mail
  PROVE  /\ [b EXCEPT ![f][u] = mail] \in [Folders -> [Uids -> Mail]]
         /\ \A g \in Folders, v \in Uids :
              [b EXCEPT ![f][u] = mail][g][v] = IF g = f /\ v = u THEN mail ELSE b[g][v]
  OBVIOUS

LEMMA NewMail ==
  ASSUME NEW m \in Items
  PROVE  /\ [NoMail EXCEPT !.msg = m] \in Mail
         /\ [NoMail EXCEPT !.msg = m].msg = m
         /\ ~[NoMail EXCEPT !.msg = m].deleted
         /\ m # None
  BY MessageConstants DEF Mail, NoMail

-----------------------------------------------------------------------------
(***************************************************************************)
(* What a step does to the mailbox, whoever takes it.                      *)
(***************************************************************************)
\* A folder keeps its UIDVALIDITY, and then a UID that was handed out keeps
\* its message or loses it, or it gets a larger one.
Forward ==
  \A f \in Folders :
    \/ epoch[f] < epoch'[f]
    \/ /\ epoch'[f] = epoch[f] /\ uidnext[f] <= uidnext'[f]
       /\ \A u \in Uids : u < uidnext[f] => box'[f][u].msg \in {None, box[f][u].msg}

\* Messages stay where they are, and unmarked ones unmarked, but for those in S.
Stays(S) ==
  \A f \in Folders, u \in Uids :
    box[f][u].msg # None /\ box[f][u].msg \notin S =>
      \/ box[f][u].deleted
      \/ box'[f][u].msg = box[f][u].msg /\ ~box'[f][u].deleted

\* Messages have a safe place if they had one, but for those in S.
Kept(S) == \A m \in Messages \ S : Safe(m) # {} => Safe(m)' # {}

LEMMA SafePlaces ==
  ASSUME NEW m \in Messages
  PROVE  \A f \in Folders, u \in Uids :
           /\ <<f, u>> \in Safe(m) <=> box[f][u].msg = m /\ ~box[f][u].deleted
           /\ <<f, u>> \in Safe(m)' <=> box'[f][u].msg = m /\ ~box'[f][u].deleted
  BY DEF Safe, Copies

LEMMA StaysKept ==
  ASSUME NEW S, Stays(S)
  PROVE  Kept(S)
  <1> SUFFICES ASSUME NEW m \in Messages \ S, NEW c \in Safe(m)
               PROVE  c \in Safe(m)'
    BY DEF Kept
  <1>1. PICK f \in Folders, u \in Uids : c = <<f, u>>
    BY DEF Safe, Copies
  <1>2. box[f][u].msg = m /\ ~box[f][u].deleted
    BY <1>1, SafePlaces
  <1>3. m # None
    BY MailboxAssumption
  <1>4. box'[f][u].msg = m /\ ~box'[f][u].deleted
    BY <1>2, <1>3 DEF Stays
  <1>q. QED BY <1>1, <1>4, SafePlaces

LEMMA UnchangedBox ==
  ASSUME TypeOK, UNCHANGED mailbox
  PROVE  MailboxOK' /\ Forward /\ Stays({})
  BY DEF TypeOK, MailboxOK, Forward, Stays, Present, Mail, mailbox

\* The next UID of d is free, and what d's UIDs become when it is taken.
LEMMA NextUid ==
  ASSUME TypeOK, NEW d \in Folders, Room(d), Takes(d)
  PROVE  /\ d \in live /\ uidnext[d] \in Uids /\ box[d][uidnext[d]].msg = None
         /\ uidnext' \in [Folders -> 1 .. MaxUid + 1]
         /\ uidnext'[d] = uidnext[d] + 1
         /\ \A g \in Folders : /\ uidnext[g] <= uidnext'[g]
                               /\ uidnext[g] \in Nat /\ uidnext'[g] \in Nat
  <1>1. d \in live /\ uidnext[d] \in Uids
    BY MailboxAssumption DEF Room, TypeOK, MailboxOK
  <1>2. uidnext[d] \notin Present(d)
    BY <1>1 DEF TypeOK, MailboxOK
  <1>3. /\ uidnext' \in [Folders -> 1 .. MaxUid + 1]
        /\ uidnext'[d] = uidnext[d] + 1
        /\ \A g \in Folders : g # d => uidnext'[g] = uidnext[g]
    BY <1>1, MailboxAssumption DEF Takes, TypeOK, MailboxOK
  <1>4. \A g \in Folders : uidnext[g] \in Nat
    BY MailboxAssumption DEF TypeOK, MailboxOK
  <1>q. QED BY <1>1, <1>2, <1>3, <1>4 DEF Present

\* A message gets the next UID of d.
LEMMA PutStep ==
  ASSUME TypeOK, UNCHANGED <<live, epoch, hasMove>>,
         NEW d \in Folders, NEW mail \in Mail, mail.msg # None,
         Room(d), Takes(d), box' = [box EXCEPT ![d][NewUid(d)] = mail]
  PROVE  /\ MailboxOK' /\ Forward /\ Stays({})
         /\ uidnext[d] \in Uids /\ box[d][uidnext[d]].msg = None
         /\ box'[d][uidnext[d]] = mail
         /\ \A g \in Folders : \A v \in Present(g) : box'[g][v] = box[g][v]
  <1>1. /\ d \in live /\ uidnext[d] \in Uids /\ box[d][uidnext[d]].msg = None
        /\ uidnext' \in [Folders -> 1 .. MaxUid + 1]
        /\ uidnext'[d] = uidnext[d] + 1
        /\ \A g \in Folders : /\ uidnext[g] <= uidnext'[g]
                              /\ uidnext[g] \in Nat /\ uidnext'[g] \in Nat
    BY NextUid
  <1>2. /\ box' \in [Folders -> [Uids -> Mail]]
        /\ \A g \in Folders, v \in Uids :
             box'[g][v] = IF g = d /\ v = uidnext[d] THEN mail ELSE box[g][v]
    <2>1. box \in [Folders -> [Uids -> Mail]]
      BY DEF TypeOK, MailboxOK
    <2>q. QED BY <1>1, <2>1, OnePlace DEF NewUid
  <1>3. MailboxOK'
    <2>1. ASSUME NEW f \in Folders, NEW u \in Uids
          PROVE  /\ u \in Present(f)' => f \in live' /\ u < uidnext'[f]
                 /\ u \notin Present(f)' => box'[f][u] = NoMail
      <3>1. CASE f = d /\ u = uidnext[d]
        BY <3>1, <1>1, <1>2 DEF Present
      <3>2. CASE ~(f = d /\ u = uidnext[d])
        <4>1. box'[f][u] = box[f][u]
          BY <3>2, <1>2
        <4>2. u \in Present(f) => f \in live /\ u < uidnext[f]
          BY DEF TypeOK, MailboxOK
        <4>3. u \notin Present(f) => box[f][u] = NoMail
          BY DEF TypeOK, MailboxOK
        <4>q. QED BY <4>1, <4>2, <4>3, <1>1 DEF Present
      <3>q. QED BY <3>1, <3>2
    <2>q. QED BY <1>1, <1>2, <2>1 DEF TypeOK, MailboxOK
  <1>4. Forward
    BY <1>1, <1>2 DEF Forward
  <1>5. Stays({})
    BY <1>1, <1>2 DEF Stays
  <1>6. \A g \in Folders : \A v \in Present(g) : box'[g][v] = box[g][v]
    BY <1>1, <1>2 DEF Present
  <1>q. QED BY <1>1, <1>2, <1>3, <1>4, <1>5, <1>6

\* The message under UID u of f gets the next UID of d instead.
LEMMA MoveStep ==
  ASSUME TypeOK, UNCHANGED <<live, epoch, hasMove>>,
         NEW d \in Folders, NEW f \in Folders, NEW u \in Present(f),
         UidMove(f, u, d)
  PROVE  /\ MailboxOK' /\ Forward /\ Kept({})
         /\ \A g \in Folders, v \in Uids :
              v \in Present(g) /\ box'[g][v] # box[g][v] => g = f /\ v = u
  <1>1. /\ d \in live /\ uidnext[d] \in Uids /\ box[d][uidnext[d]].msg = None
        /\ uidnext' \in [Folders -> 1 .. MaxUid + 1]
        /\ uidnext'[d] = uidnext[d] + 1
        /\ \A g \in Folders : /\ uidnext[g] <= uidnext'[g]
                              /\ uidnext[g] \in Nat /\ uidnext'[g] \in Nat
    BY NextUid DEF UidMove
  <1>2. u \in Uids /\ box[f][u].msg # None /\ box[f][u] \in Mail
    BY DEF TypeOK, MailboxOK, Present
  <1>3. /\ box' \in [Folders -> [Uids -> Mail]]
        /\ \A g \in Folders, v \in Uids :
             box'[g][v] = IF g = d /\ v = uidnext[d] THEN box[f][u]
                          ELSE IF g = f /\ v = u THEN NoMail ELSE box[g][v]
    <2>1. box \in [Folders -> [Uids -> Mail]] /\ NoMail \in Mail
      BY MessageConstants DEF TypeOK, MailboxOK
    <2>2. box' = [box EXCEPT ![f][u] = NoMail, ![d][uidnext[d]] = box[f][u]]
      BY DEF UidMove, NewUid
    <2> DEFINE mail == box[f][u]
               place == uidnext[d]
    <2>3. box' = [box EXCEPT ![f][u] = NoMail, ![d][place] = mail]
      BY <2>2
    <2>5. mail \in Mail /\ place \in Uids
      BY <1>1, <1>2
    <2> HIDE DEF mail, place
    <2>4. /\ box' \in [Folders -> [Uids -> Mail]]
          /\ \A g \in Folders, v \in Uids :
               box'[g][v] = IF g = d /\ v = place THEN mail
                            ELSE IF g = f /\ v = u THEN NoMail ELSE box[g][v]
      <3>1. u \in Uids /\ NoMail \in Mail /\ box \in [Folders -> [Uids -> Mail]]
        BY <1>2, <2>1
      <3>2. /\ [box EXCEPT ![f][u] = NoMail, ![d][place] = mail] \in [Folders -> [Uids -> Mail]]
            /\ \A g \in Folders, v \in Uids :
                 [box EXCEPT ![f][u] = NoMail, ![d][place] = mail][g][v] =
                   IF g = d /\ v = place THEN mail
                   ELSE IF g = f /\ v = u THEN NoMail ELSE box[g][v]
        BY <3>1, <2>5
      <3>q. QED BY <3>2, <2>3
    <2>q. QED BY <2>4 DEF mail, place
  <1>4. NoMail.msg = None
    BY MessageConstants
  <1>5. MailboxOK'
    <2>1. ASSUME NEW g \in Folders, NEW v \in Uids
          PROVE  /\ v \in Present(g)' => g \in live' /\ v < uidnext'[g]
                 /\ v \notin Present(g)' => box'[g][v] = NoMail
      <3>1. CASE g = d /\ v = uidnext[d]
        <4>1. box'[g][v] = box[f][u] /\ box'[g][v].msg # None
          BY <3>1, <1>1, <1>2, <1>3
        <4>2. g \in live' /\ v < uidnext'[g]
          BY <3>1, <1>1
        <4>q. QED BY <4>1, <4>2 DEF Present
      <3>2. CASE ~(g = d /\ v = uidnext[d]) /\ g = f /\ v = u
        BY <3>2, <1>3, <1>4 DEF Present
      <3>3. CASE ~(g = d /\ v = uidnext[d]) /\ ~(g = f /\ v = u)
        <4>1. box'[g][v] = box[g][v]
          BY <3>3, <1>3
        <4>2. v \in Present(g) => g \in live /\ v < uidnext[g]
          BY DEF TypeOK, MailboxOK
        <4>3. v \notin Present(g) => box[g][v] = NoMail
          BY DEF TypeOK, MailboxOK
        <4>q. QED BY <4>1, <4>2, <4>3, <1>1 DEF Present
      <3>q. QED BY <3>1, <3>2, <3>3
    <2>q. QED BY <1>1, <1>3, <2>1 DEF TypeOK, MailboxOK
  <1>6. Forward
    <2>1. ASSUME NEW g \in Folders, NEW v \in Uids, v < uidnext[g]
          PROVE  box'[g][v].msg \in {None, box[g][v].msg}
      <3>1. ~(g = d /\ v = uidnext[d])
        BY <2>1, <1>1
      <3>q. QED BY <3>1, <1>3, <1>4
    <2>2. \A g \in Folders : epoch'[g] = epoch[g] /\ uidnext[g] <= uidnext'[g]
      BY <1>1
    <2>q. QED BY <2>1, <2>2 DEF Forward
  <1>7. Kept({})
    <2> SUFFICES ASSUME NEW m \in Messages, NEW c \in Safe(m)
                 PROVE  Safe(m)' # {}
      BY DEF Kept
    <2>1. PICK g \in Folders, v \in Uids : c = <<g, v>>
      BY DEF Safe, Copies
    <2>2. box[g][v].msg = m /\ ~box[g][v].deleted /\ m # None
      BY <2>1, SafePlaces, MailboxAssumption
    <2>3. CASE g = f /\ v = u
      <3>1. box'[d][uidnext[d]] = box[g][v]
        BY <2>3, <1>1, <1>3
      <3>2. <<d, uidnext[d]>> \in Safe(m)'
        BY <3>1, <2>2, <1>1, SafePlaces
      <3>q. QED BY <3>2
    <2>4. CASE ~(g = f /\ v = u)
      <3>1. box'[g][v] = box[g][v]
        BY <2>4, <2>2, <1>1, <1>3
      <3>2. <<g, v>> \in Safe(m)'
        BY <3>1, <2>2, SafePlaces
      <3>q. QED BY <3>2
    <2>q. QED BY <2>3, <2>4
  <1>8. \A g \in Folders, v \in Uids :
          v \in Present(g) /\ box'[g][v] # box[g][v] => g = f /\ v = u
    BY <1>1, <1>3 DEF Present
  <1>q. QED BY <1>5, <1>6, <1>7, <1>8

\* The flags of one message change.
LEMMA FlagStep ==
  ASSUME TypeOK, UNCHANGED <<live, epoch, uidnext, hasMove>>,
         NEW f \in Folders, NEW u \in Present(f), NEW mail \in Mail,
         mail.msg = box[f][u].msg, box' = [box EXCEPT ![f][u] = mail]
  PROVE  /\ MailboxOK' /\ Forward
         /\ \A g \in Folders, v \in Uids :
              /\ box'[g][v].msg = box[g][v].msg
              /\ box'[g][v] # box[g][v] => g = f /\ v = u /\ box'[g][v] = mail
  <1>1. u \in Uids /\ box[f][u].msg # None
    BY DEF Present
  <1>2. /\ box' \in [Folders -> [Uids -> Mail]]
        /\ \A g \in Folders, v \in Uids :
             box'[g][v] = IF g = f /\ v = u THEN mail ELSE box[g][v]
    <2>1. box \in [Folders -> [Uids -> Mail]]
      BY DEF TypeOK, MailboxOK
    <2>q. QED BY <1>1, <2>1, OnePlace
  <1>3. \A g \in Folders, v \in Uids :
          /\ box'[g][v].msg = box[g][v].msg
          /\ box'[g][v] # box[g][v] => g = f /\ v = u /\ box'[g][v] = mail
    BY <1>1, <1>2
  <1>4. MailboxOK'
    <2>1. \A g \in Folders : Present(g)' = Present(g)
      BY <1>3 DEF Present
    <2>2. \A g \in Folders, v \in Uids : v \notin Present(g) => box'[g][v] = NoMail
      BY <1>1, <1>3 DEF TypeOK, MailboxOK, Present
    <2>q. QED BY <1>2, <2>1, <2>2 DEF TypeOK, MailboxOK
  <1>5. Forward
    BY <1>3, MailboxAssumption DEF Forward, TypeOK, MailboxOK
  <1>q. QED BY <1>3, <1>4, <1>5

\* Messages disappear from f, or those of them that are marked \Deleted do.
LEMMA EmptyStep ==
  ASSUME TypeOK, UNCHANGED <<live, epoch, uidnext, hasMove>>,
         NEW f \in Folders, Expunge(f)
  PROVE  /\ MailboxOK' /\ Forward /\ Stays({})
         /\ \A g \in Folders, v \in Uids :
              box'[g][v] # box[g][v] => g = f /\ box[g][v].deleted
  <1>1. NoMail \in Mail /\ NoMail.msg = None
    BY MessageConstants
  <1>2. /\ box' \in [Folders -> [Uids -> Mail]]
        /\ \A g \in Folders, v \in Uids :
             box'[g][v] = IF g = f /\ box[g][v].deleted THEN NoMail ELSE box[g][v]
    BY <1>1 DEF Expunge, TypeOK, MailboxOK
  <1>3. MailboxOK'
    <2>1. \A g \in Folders, v \in Uids :
            /\ v \in Present(g)' => v \in Present(g)
            /\ v \notin Present(g)' => box'[g][v] = NoMail
      BY <1>1, <1>2 DEF TypeOK, MailboxOK, Present
    <2>q. QED BY <1>2, <2>1 DEF TypeOK, MailboxOK
  <1>4. Forward
    BY <1>1, <1>2, MailboxAssumption DEF Forward, TypeOK, MailboxOK
  <1>5. Stays({})
    BY <1>2 DEF Stays
  <1>q. QED BY <1>2, <1>3, <1>4, <1>5

LEMMA MadeStep ==
  ASSUME TypeOK, UNCHANGED hasMove, NEW f \in Folders, Made(f)
  PROVE  MailboxOK' /\ Forward /\ Stays({})
  <1>1. Present(f) = {}
    BY DEF Made, Present, TypeOK, MailboxOK
  <1>2. /\ epoch' \in [Folders -> Epochs] /\ epoch[f] < epoch'[f]
        /\ \A g \in Folders : g # f => epoch'[g] = epoch[g]
    BY MailboxAssumption DEF Made, TypeOK, MailboxOK
  <1>3. /\ uidnext' \in [Folders -> 1 .. MaxUid + 1]
        /\ \A g \in Folders : g # f => uidnext'[g] = uidnext[g]
    BY MailboxAssumption DEF Made, TypeOK, MailboxOK
  <1>4. MailboxOK'
    <2>1. \A g \in Folders : Present(g)' = Present(g)
      BY DEF Made, Present
    <2>q. QED BY <1>1, <1>2, <1>3, <2>1 DEF Made, TypeOK, MailboxOK
  <1>5. Forward
    BY <1>2, <1>3, MailboxAssumption DEF Made, Forward, TypeOK, MailboxOK
  <1>6. Stays({})
    BY DEF Made, Stays
  <1>q. QED BY <1>4, <1>5, <1>6

LEMMA DroppedStep ==
  ASSUME TypeOK, UNCHANGED hasMove, NEW f \in Folders, Dropped(f)
  PROVE  /\ MailboxOK' /\ Forward
         /\ Stays({box[f][u].msg : u \in Uids})
         /\ owed' = owed \ {box[f][u].msg : u \in Uids}
  <1>1. NoMail \in Mail /\ NoMail.msg = None
    BY MessageConstants
  <1>2. /\ box' \in [Folders -> [Uids -> Mail]]
        /\ \A g \in Folders, v \in Uids :
             box'[g][v] = IF g = f THEN NoMail ELSE box[g][v]
    BY <1>1 DEF Dropped, TypeOK, MailboxOK
  <1>3. MailboxOK'
    <2>1. \A g \in Folders : Present(g)' = IF g = f THEN {} ELSE Present(g)
      BY <1>1, <1>2 DEF Present
    <2>2. Inbox \in live' /\ live' \subseteq Folders
      BY DEF Dropped, TypeOK, MailboxOK
    <2>3. \A g \in Folders, v \in Uids : v \notin Present(g)' => box'[g][v] = NoMail
      BY <1>2, <2>1 DEF TypeOK, MailboxOK
    <2>4. \A g \in Folders, v \in Uids :
            v \in Present(g)' => g \in live' /\ v < uidnext'[g]
      BY <2>1 DEF Dropped, TypeOK, MailboxOK
    <2>q. QED BY <1>2, <2>2, <2>3, <2>4 DEF Dropped, TypeOK, MailboxOK
  <1>4. Forward
    BY <1>1, <1>2, MailboxAssumption DEF Dropped, Forward, TypeOK, MailboxOK
  <1>5. Stays({box[f][u].msg : u \in Uids})
    BY <1>2 DEF Stays
  <1>q. QED BY <1>3, <1>4, <1>5 DEF Dropped

LEMMA RenameStep ==
  ASSUME TypeOK, NEW f \in Folders, NEW g \in Folders, FolderRename(f, g)
  PROVE  MailboxOK' /\ Forward /\ Kept({})
  <1>1. NoMail \in Mail /\ NoMail.msg = None /\ Inbox \in Folders
    BY MessageConstants
  <1>2. f \in live /\ g \notin live /\ f # g /\ Inbox \in live /\ live \subseteq Folders
    BY DEF FolderRename, TypeOK, MailboxOK
  <1>3. /\ box' \in [Folders -> [Uids -> Mail]]
        /\ \A h \in Folders, v \in Uids :
             box'[h][v] = IF h = f THEN NoMail ELSE IF h = g THEN box[f][v] ELSE box[h][v]
    BY <1>1, <1>2 DEF FolderRename, TypeOK, MailboxOK
  <1>4. /\ epoch' \in [Folders -> Epochs] /\ epoch[g] < epoch'[g]
        /\ \A h \in Folders : h # g => epoch'[h] = epoch[h]
    BY MailboxAssumption DEF FolderRename, TypeOK, MailboxOK
  <1>5. /\ uidnext' \in [Folders -> 1 .. MaxUid + 1] /\ uidnext'[g] = uidnext[f]
        /\ \A h \in Folders : h # g => uidnext'[h] = uidnext[h]
    BY MailboxAssumption DEF FolderRename, TypeOK, MailboxOK
  <1>6. live' \subseteq Folders /\ Inbox \in live' /\ g \in live'
        /\ \A h \in Folders : h # f /\ h \in live => h \in live'
    BY <1>2 DEF FolderRename
  <1>7. MailboxOK'
    <2>1. ASSUME NEW h \in Folders, NEW v \in Uids
          PROVE  /\ v \in Present(h)' => h \in live' /\ v < uidnext'[h]
                 /\ v \notin Present(h)' => box'[h][v] = NoMail
      <3>1. CASE h = f
        BY <3>1, <1>1, <1>3 DEF Present
      <3>2. CASE h = g
        BY <3>2, <1>2, <1>3, <1>5, <1>6 DEF Present, TypeOK, MailboxOK
      <3>3. CASE h # f /\ h # g
        BY <3>3, <1>3, <1>5, <1>6 DEF Present, TypeOK, MailboxOK
      <3>q. QED BY <3>1, <3>2, <3>3
    <2>q. QED BY <1>3, <1>4, <1>5, <1>6, <2>1
             DEF FolderRename, FolderCommand, TypeOK, MailboxOK
  <1>8. Forward
    <2>1. \A h \in Folders, v \in Uids :
            h # g => box'[h][v].msg \in {None, box[h][v].msg}
      BY <1>1, <1>3
    <2>2. \A h \in Folders : uidnext[h] <= uidnext[h]
      BY MailboxAssumption DEF TypeOK, MailboxOK
    <2>q. QED BY <1>4, <1>5, <2>1, <2>2 DEF Forward
  <1>9. Kept({})
    <2> SUFFICES ASSUME NEW m \in Messages, NEW c \in Safe(m)
                 PROVE  Safe(m)' # {}
      BY DEF Kept
    <2>1. PICK h \in Folders, v \in Uids : c = <<h, v>>
      BY DEF Safe, Copies
    <2>2. box[h][v].msg = m /\ ~box[h][v].deleted /\ m # None
      BY <2>1, SafePlaces, MailboxAssumption
    <2>3. CASE h = f
      <3>1. <<g, v>> \in Safe(m)'
        BY <2>2, <2>3, <1>2, <1>3, SafePlaces
      <3>q. QED BY <3>1
    <2>4. CASE h # f
      <3>1. h # g
        BY <2>2, <1>2 DEF TypeOK, MailboxOK, Present
      <3>2. <<h, v>> \in Safe(m)'
        BY <2>2, <2>4, <3>1, <1>3, SafePlaces
      <3>q. QED BY <3>2
    <2>q. QED BY <2>3, <2>4
  <1>q. QED BY <1>7, <1>8, <1>9

\* A COPY touches no message, and puts the one it finds at a free place.
LEMMA CopyEffect ==
  ASSUME TypeOK, UNCHANGED <<live, epoch, hasMove>>,
         NEW d \in Folders, NEW f \in Folders, NEW u \in Uids, UidCopy(f, u, d)
  PROVE  /\ MailboxOK' /\ Forward /\ Stays({})
         /\ \A g \in Folders : \A v \in Present(g) : box'[g][v] = box[g][v]
         /\ u \in Present(f) =>
              /\ uidnext[d] \in Uids /\ box[d][uidnext[d]].msg = None
              /\ box'[d][uidnext[d]] = box[f][u]
         /\ u \notin Present(f) => box' = box
  <1>1. CASE u \in Present(f)
    <2>1. /\ box[f][u] \in Mail /\ box[f][u].msg # None
          /\ Room(d) /\ Takes(d) /\ box' = [box EXCEPT ![d][NewUid(d)] = box[f][u]]
      BY <1>1 DEF UidCopy, TypeOK, MailboxOK, Present
    <2>q. QED BY <1>1, <2>1, PutStep
  <1>2. CASE u \notin Present(f)
    <2>1. UNCHANGED mailbox
      BY <1>2 DEF UidCopy, Nothing, mailbox
    <2>q. QED BY <1>2, <2>1, UnchangedBox DEF mailbox
  <1>q. QED BY <1>1, <1>2

LEMMA MoveEffect ==
  ASSUME TypeOK, UNCHANGED <<live, epoch, hasMove>>,
         NEW d \in Folders, NEW f \in Folders, NEW u \in Uids, UidMove(f, u, d)
  PROVE  /\ MailboxOK' /\ Forward /\ Kept({})
         /\ \A g \in Folders : \A v \in Present(g) :
              box'[g][v] # box[g][v] => g = f /\ v = u
  <1>1. CASE u \in Present(f)
    BY <1>1, MoveStep DEF Present
  <1>2. CASE u \notin Present(f)
    <2>1. UNCHANGED mailbox
      BY <1>2 DEF UidMove, Nothing, mailbox
    <2>q. QED BY <2>1, UnchangedBox, StaysKept DEF mailbox
  <1>q. QED BY <1>1, <1>2

LEMMA StoreEffect ==
  ASSUME TypeOK, UNCHANGED <<live, epoch, hasMove>>,
         NEW f \in Folders, NEW u \in Uids, NEW mail \in Mail,
         mail.msg = box[f][u].msg, StoreFlag(f, u, mail)
  PROVE  /\ MailboxOK' /\ Forward
         /\ \A g \in Folders, v \in Uids :
              /\ box'[g][v].msg = box[g][v].msg
              /\ box'[g][v] # box[g][v] => g = f /\ v = u /\ box'[g][v] = mail
  <1>1. UNCHANGED uidnext
    BY DEF StoreFlag
  <1>2. CASE u \in Present(f)
    <2>1. box' = [box EXCEPT ![f][u] = mail]
      BY <1>2 DEF StoreFlag
    <2>q. QED BY <1>1, <1>2, <2>1, FlagStep
  <1>3. CASE u \notin Present(f)
    <2>1. UNCHANGED mailbox
      BY <1>1, <1>3 DEF StoreFlag, mailbox
    <2>q. QED BY <2>1, UnchangedBox DEF mailbox
  <1>q. QED BY <1>2, <1>3

LEMMA OthersStay ==
  ASSUME NEW f \in Folders, NEW u \in Uids,
         \A g \in Folders, v \in Uids : box'[g][v] # box[g][v] => g = f /\ v = u
  PROVE  Stays({box[f][u].msg})
  BY DEF Stays

\* What the two commands that store a flag write.
LEMMA StoredMail ==
  ASSUME TypeOK, NEW f \in Folders, NEW u \in Uids, NEW x \in BOOLEAN
  PROVE  /\ [box[f][u] EXCEPT !.deleted = x] \in Mail
         /\ [box[f][u] EXCEPT !.deleted = x].msg = box[f][u].msg
         /\ [box[f][u] EXCEPT !.deleted = x].deleted = x
         /\ [box[f][u] EXCEPT !.flagged = x] \in Mail
         /\ [box[f][u] EXCEPT !.flagged = x].msg = box[f][u].msg
         /\ [box[f][u] EXCEPT !.flagged = x].deleted = box[f][u].deleted
  <1>1. box \in [Folders -> [Uids -> Mail]]
    BY DEF TypeOK, MailboxOK
  <1>2. box[f][u] \in Mail
    BY <1>1
  <1>q. QED BY <1>2 DEF Mail

-----------------------------------------------------------------------------
(***************************************************************************)
(* Type correctness, and what every step means for the mailbox.            *)
(***************************************************************************)
LEMMA LookPlace ==
  ASSUME TypeOK
  PROVE  look \in Looks /\ look.folder \in Folders /\ look.uid \in Uids /\ look.epoch \in Epochs
  BY DEF TypeOK, CommandOK, Looks

\* The command's own state, however a step ends.
LEMMA QuitType ==
  ASSUME TypeOK, Quit, look' \in Looks, MailboxOK', owed' \subseteq Messages
  PROVE  TypeOK'
  <1>1. /\ pc' \in Resting \cup Working /\ dest' \in Folders
        /\ sess' \in Epochs \cup {NoSession} /\ reads' = <<>>
    BY MessageConstants DEF Quit, Resting
  <1>2. /\ calm' \in BOOLEAN
        /\ had' = [source |-> None, at |-> {}]
    BY DEF Quit, NoHistory, NothingHad
  <1>3. CommandOK'
    BY <1>1 DEF CommandOK
  <1>q. QED BY <1>2, <1>3 DEF TypeOK

LEMMA AnsweredType ==
  ASSUME TypeOK, NEW next \in Resting \cup Working, NEW d \in Folders, Answered(next, d)
  PROVE  pc' \in Resting \cup Working /\ dest' \in Folders
         /\ sess' \in Epochs \cup {NoSession}
  BY DEF Answered, TypeOK, MailboxOK, CommandOK, Looks

LEMMA HistoryType ==
  ASSUME TypeOK
  PROVE  /\ \A d \in Folders : Remember(d) =>
              calm' \in BOOLEAN /\ had' \in [source : Items \cup {None}, at : SUBSET Uids]
         /\ NoHistory =>
              calm' \in BOOLEAN /\ had' \in [source : Items \cup {None}, at : SUBSET Uids]
  <1>1. box[look.folder][look.uid].msg \in Items \cup {None}
    <2>1. box[look.folder][look.uid] \in Mail
      <3>1. box \in [Folders -> [Uids -> Mail]]
        BY DEF TypeOK, MailboxOK
      <3>2. look.folder \in Folders /\ look.uid \in Uids
        BY LookPlace
      <3>q. QED BY <3>1, <3>2
    <2>q. QED BY <2>1 DEF Mail
  <1>2. \A d \in Folders : {v \in Present(d) : box[d][v].msg = box[look.folder][look.uid].msg}
                             \in SUBSET Uids
    BY DEF Present
  <1>3. ASSUME NEW d \in Folders, Remember(d)
        PROVE  calm' \in BOOLEAN /\ had' \in [source : Items \cup {None}, at : SUBSET Uids]
    <2>1. had' = [source |-> box[look.folder][look.uid].msg,
                  at |-> {v \in Present(d) : box[d][v].msg = box[look.folder][look.uid].msg}]
      BY <1>3 DEF Remember
    <2>q. QED BY <1>1, <1>2, <1>3, <2>1 DEF Remember
  <1>4. ASSUME NoHistory
        PROVE  calm' \in BOOLEAN /\ had' \in [source : Items \cup {None}, at : SUBSET Uids]
    <2>1. calm' = FALSE /\ had' = [source |-> None, at |-> {}]
      BY <1>4 DEF NoHistory, NothingHad
    <2>q. QED BY <2>1
  <1>q. QED BY <1>3, <1>4

\* A fetch of look's UID, as the second of a command or as its first.
Fetch(before, next, d) == FetchOne(look.folder, before, next, d)

\* The commands, one by one.
LEMMA CommandCases ==
  ASSUME TypeOK, CommandStep
  PROVE  /\ UNCHANGED <<live, epoch, hasMove, look>>
         /\ \/ \E d \in Folders : MoveMessage(d)
            \/ \E d \in Folders : MoveByCopy(d)
            \/ \E d \in Folders : CopyMessage(d)
            \/ MoveByStore
            \/ ExpungeFolder
            \/ DeleteHard
            \/ \E add \in BOOLEAN : FlagMessage(add)
            \/ \E before \in {<<>>, reads}, next \in {"files", "quote", "append", "ok"},
                  d \in Folders :
                 Fetch(before, next, d) /\ (First \/ pc \in Working)
            \/ AppendMessage
  <1>1. UNCHANGED <<live, epoch, hasMove, look>> /\ dest \in Folders
    BY DEF CommandStep, TypeOK, CommandOK
  <1>2. DeleteMessage => (\E d \in Folders : MoveMessage(d) \/ MoveByCopy(d)) \/ DeleteHard
    BY MessageConstants DEF DeleteMessage
  <1>3. FetchAttachments => First /\ Fetch(<<>>, "files", Inbox)
    BY DEF FetchAttachments, Fetch
  <1>4. Thread => First /\ (Fetch(<<>>, "quote", Drafts) \/ Fetch(<<>>, "append", Drafts))
    BY DEF Thread, Fetch
  <1>5. ShowMessage => pc \in Working /\ (Fetch(reads, "append", dest) \/ Fetch(reads, "ok", dest))
    BY DEF ShowMessage, Fetch, QuotedFolder, Working
  <1>q. QED BY <1>1, <1>2, <1>3, <1>4, <1>5, MessageConstants DEF CommandStep

\* A command may change the message under look's UID, and what is marked
\* \Deleted in look's folder when it expunges it.
Touched ==
  \A f \in Folders : \A u \in Present(f) :
    box'[f][u] # box[f][u] =>
      \/ pc = "expunge" /\ box[f][u].deleted
      \/ /\ f = look.folder /\ u = look.uid
         /\ First \/ pc \in Working

LEMMA CommandEffect ==
  ASSUME TypeOK, CommandStep
  PROVE  TypeOK' /\ Forward /\ Touched
  <1>1. /\ look \in Looks /\ look.folder \in Folders /\ look.uid \in Uids
        /\ UNCHANGED <<live, epoch, hasMove, look>> /\ look' \in Looks
        /\ box[look.folder][look.uid] \in Mail
    <2>1. box \in [Folders -> [Uids -> Mail]]
      BY DEF TypeOK, MailboxOK
    <2>2. look \in Looks /\ look.folder \in Folders /\ look.uid \in Uids
      BY LookPlace
    <2>q. QED BY <2>1, <2>2, CommandCases
  <1>2. owed \subseteq Messages /\ <<>> \in Seq(Reads) /\ reads \in Seq(Reads)
    BY DEF TypeOK, CommandOK
  <1>3. ASSUME NEW d \in Folders, MoveMessage(d)
        PROVE  TypeOK' /\ Forward /\ Touched
    <2>1. /\ First /\ UidMove(look.folder, look.uid, d) /\ owed' = owed
          /\ (Answered("ok", d) /\ Remember(d) /\ reads' = <<>>) \/ Quit
      BY <1>3 DEF MoveMessage
    <2>2. /\ MailboxOK' /\ Forward
          /\ \A g \in Folders : \A v \in Present(g) :
               box'[g][v] # box[g][v] => g = look.folder /\ v = look.uid
      BY <1>1, <2>1, MoveEffect
    <2>3. TypeOK'
      <3>1. CASE Answered("ok", d) /\ Remember(d) /\ reads' = <<>>
        <4>1. "ok" \in Resting \cup Working
          BY DEF Resting
        <4>2. /\ pc' \in Resting \cup Working /\ dest' \in Folders
              /\ sess' \in Epochs \cup {NoSession}
          BY <3>1, <4>1, AnsweredType
        <4>q. QED BY <1>1, <1>2, <2>1, <2>2, <3>1, <4>2, HistoryType DEF TypeOK, CommandOK
      <3>2. CASE Quit
        BY <1>1, <1>2, <2>1, <2>2, <3>2, QuitType
      <3>q. QED BY <2>1, <3>1, <3>2
    <2>q. QED BY <2>1, <2>2, <2>3 DEF Touched
  <1>4. ASSUME NEW d \in Folders, MoveByCopy(d)
        PROVE  TypeOK' /\ Forward /\ Touched
    <2>1. /\ UidCopy(look.folder, look.uid, d) /\ owed' = owed
          /\ (Answered("store", d) /\ Remember(d) /\ reads' = <<>>) \/ Quit
      BY <1>4 DEF MoveByCopy
    <2>2. MailboxOK' /\ Forward /\ \A g \in Folders : \A v \in Present(g) : box'[g][v] = box[g][v]
      BY <1>1, <2>1, CopyEffect
    <2>3. TypeOK'
      <3>1. CASE Answered("store", d) /\ Remember(d) /\ reads' = <<>>
        <4>1. "store" \in Resting \cup Working
          BY DEF Working
        <4>2. /\ pc' \in Resting \cup Working /\ dest' \in Folders
              /\ sess' \in Epochs \cup {NoSession}
          BY <3>1, <4>1, AnsweredType
        <4>q. QED BY <1>1, <1>2, <2>1, <2>2, <3>1, <4>2, HistoryType DEF TypeOK, CommandOK
      <3>2. CASE Quit
        BY <1>1, <1>2, <2>1, <2>2, <3>2, QuitType
      <3>q. QED BY <2>1, <3>1, <3>2
    <2>q. QED BY <2>2, <2>3 DEF Touched
  <1>5. ASSUME NEW d \in Folders, CopyMessage(d)
        PROVE  TypeOK' /\ Forward /\ Touched
    <2>1. UidCopy(look.folder, look.uid, d) /\ owed' = owed /\ Quit
      BY <1>5 DEF CopyMessage
    <2>2. MailboxOK' /\ Forward /\ \A g \in Folders : \A v \in Present(g) : box'[g][v] = box[g][v]
      BY <1>1, <2>1, CopyEffect
    <2>q. QED BY <1>1, <1>2, <2>1, <2>2, QuitType DEF Touched
  <1>6. ASSUME MoveByStore
        PROVE  TypeOK' /\ Forward /\ Touched
    <2>1. /\ pc \in Working
          /\ StoreFlag(look.folder, look.uid, [box[look.folder][look.uid] EXCEPT !.deleted = TRUE])
          /\ owed' \subseteq owed
          /\ (Answered("expunge", dest) /\ UNCHANGED <<reads, history>>) \/ Quit
      BY <1>6 DEF MoveByStore, Later, Working, MarkDeleted
    <2>2. /\ MailboxOK' /\ Forward
          /\ \A g \in Folders, v \in Uids :
               box'[g][v] # box[g][v] => g = look.folder /\ v = look.uid
      <3> DEFINE mail == [box[look.folder][look.uid] EXCEPT !.deleted = TRUE]
      <3>1. /\ mail \in Mail /\ mail.msg = box[look.folder][look.uid].msg
            /\ StoreFlag(look.folder, look.uid, mail)
        BY <1>1, <2>1, StoredMail
      <3> HIDE DEF mail
      <3>q. QED BY <1>1, <3>1, StoreEffect
    <2>3. TypeOK'
      <3>1. CASE Answered("expunge", dest) /\ UNCHANGED <<reads, history>>
        <4>1. "expunge" \in Resting \cup Working /\ dest \in Folders
          BY DEF Working, TypeOK, CommandOK
        <4>2. /\ pc' \in Resting \cup Working /\ dest' \in Folders
              /\ sess' \in Epochs \cup {NoSession}
          BY <3>1, <4>1, AnsweredType
        <4>q. QED BY <1>1, <1>2, <2>1, <2>2, <3>1, <4>2 DEF TypeOK, CommandOK, history
      <3>2. CASE Quit
        BY <1>1, <1>2, <2>1, <2>2, <3>2, QuitType
      <3>q. QED BY <2>1, <3>1, <3>2
    <2>q. QED BY <2>1, <2>2, <2>3 DEF Touched, Present
  <1>7. ASSUME ExpungeFolder
        PROVE  TypeOK' /\ Forward /\ Touched
    <2>1. /\ pc = "expunge" /\ Expunge(look.folder) /\ owed' = owed
          /\ (Answered("ok", dest) /\ UNCHANGED <<reads, history>>) \/ Quit
      BY <1>7 DEF ExpungeFolder, Later
    <2>2. /\ MailboxOK' /\ Forward
          /\ \A g \in Folders, v \in Uids :
               box'[g][v] # box[g][v] => g = look.folder /\ box[g][v].deleted
      BY <1>1, <2>1, EmptyStep DEF Expunge
    <2>3. TypeOK'
      <3>1. CASE Answered("ok", dest) /\ UNCHANGED <<reads, history>>
        <4>1. "ok" \in Resting \cup Working /\ dest \in Folders
          BY DEF Resting, TypeOK, CommandOK
        <4>2. /\ pc' \in Resting \cup Working /\ dest' \in Folders
              /\ sess' \in Epochs \cup {NoSession}
          BY <3>1, <4>1, AnsweredType
        <4>q. QED BY <1>1, <1>2, <2>1, <2>2, <3>1, <4>2 DEF TypeOK, CommandOK, history
      <3>2. CASE Quit
        BY <1>1, <1>2, <2>1, <2>2, <3>2, QuitType
      <3>q. QED BY <2>1, <3>1, <3>2
    <2>q. QED BY <2>1, <2>2, <2>3 DEF Touched, Present
  <1>8. ASSUME DeleteHard
        PROVE  TypeOK' /\ Forward /\ Touched
    <2>1. /\ First
          /\ StoreFlag(look.folder, look.uid, [box[look.folder][look.uid] EXCEPT !.deleted = TRUE])
          /\ owed' \subseteq owed
          /\ (Answered("expunge", Inbox) /\ reads' = <<>> /\ NoHistory) \/ Quit
      BY <1>8 DEF DeleteHard, MarkDeleted
    <2>2. /\ MailboxOK' /\ Forward
          /\ \A g \in Folders, v \in Uids :
               box'[g][v] # box[g][v] => g = look.folder /\ v = look.uid
      <3> DEFINE mail == [box[look.folder][look.uid] EXCEPT !.deleted = TRUE]
      <3>1. /\ mail \in Mail /\ mail.msg = box[look.folder][look.uid].msg
            /\ StoreFlag(look.folder, look.uid, mail)
        BY <1>1, <2>1, StoredMail
      <3> HIDE DEF mail
      <3>q. QED BY <1>1, <3>1, StoreEffect
    <2>3. TypeOK'
      <3>1. CASE Answered("expunge", Inbox) /\ reads' = <<>> /\ NoHistory
        <4>1. "expunge" \in Resting \cup Working
          BY DEF Working
        <4>2. /\ pc' \in Resting \cup Working /\ dest' \in Folders
              /\ sess' \in Epochs \cup {NoSession}
          BY <3>1, <4>1, AnsweredType, MessageConstants
        <4>q. QED BY <1>1, <1>2, <2>1, <2>2, <3>1, <4>2, HistoryType DEF TypeOK, CommandOK
      <3>2. CASE Quit
        BY <1>1, <1>2, <2>1, <2>2, <3>2, QuitType
      <3>q. QED BY <2>1, <3>1, <3>2
    <2>q. QED BY <2>1, <2>2, <2>3 DEF Touched, Present
  <1>9. ASSUME NEW add \in BOOLEAN, FlagMessage(add)
        PROVE  TypeOK' /\ Forward /\ Touched
    <2>1. /\ First /\ owed' = owed /\ Quit
          /\ StoreFlag(look.folder, look.uid, [box[look.folder][look.uid] EXCEPT !.flagged = add])
      BY <1>9 DEF FlagMessage
    <2>2. /\ MailboxOK' /\ Forward
          /\ \A g \in Folders, v \in Uids :
               box'[g][v] # box[g][v] => g = look.folder /\ v = look.uid
      <3> DEFINE mail == [box[look.folder][look.uid] EXCEPT !.flagged = add]
      <3>1. mail \in Mail /\ mail.msg = box[look.folder][look.uid].msg
        BY <1>1 DEF Mail
      <3>2. StoreFlag(look.folder, look.uid, mail)
        BY <2>1
      <3> HIDE DEF mail
      <3>q. QED BY <1>1, <3>1, <3>2, StoreEffect
    <2>q. QED BY <1>1, <1>2, <2>1, <2>2, QuitType DEF Touched, Present
  <1>10. ASSUME NEW before \in {<<>>, reads}, NEW next \in {"files", "quote", "append", "ok"},
                NEW d \in Folders, Fetch(before, next, d)
         PROVE  TypeOK' /\ Forward /\ Touched
    <2>1. /\ UNCHANGED mailbox /\ owed' = owed /\ Answered(next, d) /\ NoHistory
          /\ look.uid \in Present(look.folder)
          /\ reads' = Append(before, [epoch |-> epoch[look.folder],
                                      msg |-> box[look.folder][look.uid].msg])
      BY <1>1, <1>10 DEF Fetch, FetchOne, mailbox
    <2>2. MailboxOK' /\ Forward
      BY <2>1, UnchangedBox
    <2>3. [epoch |-> epoch[look.folder], msg |-> box[look.folder][look.uid].msg] \in Reads
      <3>1. epoch[look.folder] \in Epochs
        BY <1>1 DEF TypeOK, MailboxOK
      <3>2. box[look.folder][look.uid].msg \in Items
        BY <1>1, <2>1 DEF Present, Mail
      <3>q. QED BY <3>1, <3>2 DEF Reads
    <2>4. reads' \in Seq(Reads)
      <3> DEFINE read == [epoch |-> epoch[look.folder], msg |-> box[look.folder][look.uid].msg]
      <3>1. before \in Seq(Reads) /\ read \in Reads /\ reads' = Append(before, read)
        BY <1>2, <2>1, <2>3
      <3> HIDE DEF read
      <3>q. QED BY <3>1
    <2>5. pc' \in Resting \cup Working /\ dest' \in Folders /\ sess' \in Epochs \cup {NoSession}
      <3>1. next \in Resting \cup Working
        BY DEF Resting, Working
      <3>q. QED BY <2>1, <3>1, AnsweredType
    <2>6. TypeOK'
      BY <1>1, <1>2, <2>1, <2>2, <2>4, <2>5, HistoryType DEF TypeOK, CommandOK
    <2>q. QED BY <2>1, <2>2, <2>6 DEF Touched, mailbox
  <1>11. ASSUME AppendMessage
         PROVE  TypeOK' /\ Forward /\ Touched
    <2>1. PICK d \in Folders : Deposit(d, Draft)
      BY <1>11, MessageConstants DEF AppendMessage, TypeOK, CommandOK
    <2>2. /\ Room(d) /\ Takes(d)
          /\ box' = [box EXCEPT ![d][NewUid(d)] = [NoMail EXCEPT !.msg = Draft]]
      BY <2>1 DEF Deposit
    <2>3. /\ [NoMail EXCEPT !.msg = Draft] \in Mail
          /\ [NoMail EXCEPT !.msg = Draft].msg # None
      BY NewMail DEF Items
    <2>4. MailboxOK' /\ Forward /\ \A g \in Folders : \A v \in Present(g) : box'[g][v] = box[g][v]
      BY <1>1, <2>2, <2>3, PutStep
    <2>5. Quit /\ owed' = owed
      BY <1>11 DEF AppendMessage
    <2>q. QED BY <1>1, <1>2, <2>4, <2>5, QuitType DEF Touched
  <1>q. QED
    BY <1>3, <1>4, <1>5, <1>6, <1>7, <1>8, <1>9, <1>10, <1>11, CommandCases

\* What another client does; the messages in S are those it disposes of.
OtherEffect(S, new) ==
  /\ MailboxOK' /\ Forward /\ Stays(S)
  /\ owed' = (owed \ S) \cup new
  /\ new \subseteq Messages
  /\ \A m \in new : m \notin owed /\
       \E d \in Folders : /\ uidnext[d] \in Uids /\ box[d][uidnext[d]].msg = None
                          /\ box'[d][uidnext[d]].msg = m /\ ~box'[d][uidnext[d]].deleted

LEMMA OtherCases ==
  ASSUME TypeOK, NEW f \in Others, Other(f)
  PROVE  \E S, new : OtherEffect(S, new)
  <1>1. f \in Folders /\ hasMove' = hasMove
    BY MessageConstants DEF Other
  <1>2. ASSUME NEW m \in Messages, Deliver(f, m)
        PROVE  OtherEffect({}, {m})
    <2> DEFINE mail == [NoMail EXCEPT !.msg = m]
    <2>1. /\ UNCHANGED <<live, epoch>> /\ m \notin owed /\ owed' = owed \cup {m}
          /\ Room(f) /\ Takes(f) /\ box' = [box EXCEPT ![f][NewUid(f)] = mail]
      BY <1>2 DEF Deliver, Deposit
    <2>2. mail \in Mail /\ mail.msg = m /\ ~mail.deleted /\ mail.msg # None
      BY NewMail DEF Items
    <2> HIDE DEF mail
    <2>3. /\ MailboxOK' /\ Forward /\ Stays({})
          /\ uidnext[f] \in Uids /\ box[f][uidnext[f]].msg = None
          /\ box'[f][uidnext[f]] = mail
      BY <1>1, <2>1, <2>2, PutStep
    <2>q. QED BY <1>1, <2>1, <2>2, <2>3 DEF OtherEffect
  <1>3. ASSUME NEW u \in Uids, ToggleDeleted(f, u)
        PROVE  \E S : OtherEffect(S, {})
    <2> DEFINE mail == [box[f][u] EXCEPT !.deleted = ~@]
    <2>1. /\ UNCHANGED <<live, epoch, uidnext>> /\ u \in Present(f)
          /\ box' = [box EXCEPT ![f][u] = mail]
      BY <1>3 DEF ToggleDeleted
    <2>2. box[f][u] \in Mail
      <3>1. box \in [Folders -> [Uids -> Mail]]
        BY DEF TypeOK, MailboxOK
      <3>q. QED BY <1>1, <3>1
    <2>3. mail \in Mail /\ mail.msg = box[f][u].msg /\ mail.deleted = ~box[f][u].deleted
      BY <2>2 DEF Mail
    <2> HIDE DEF mail
    <2>4. /\ MailboxOK' /\ Forward
          /\ \A g \in Folders, v \in Uids :
               /\ box'[g][v].msg = box[g][v].msg
               /\ box'[g][v] # box[g][v] => g = f /\ v = u /\ box'[g][v] = mail
      <3>1. TypeOK /\ f \in Folders /\ UNCHANGED <<live, epoch, uidnext, hasMove>>
        BY <1>1, <2>1
      <3>2. u \in Present(f) /\ box' = [box EXCEPT ![f][u] = mail]
        BY <2>1
      <3>3. mail \in Mail /\ mail.msg = box[f][u].msg
        BY <2>3
      <3>q. QED BY ONLY <3>1, <3>2, <3>3, FlagStep
    <2>5. CASE box[f][u].deleted
      <3>1. owed' = owed
        BY <1>3, <2>5 DEF ToggleDeleted
      <3>2. Stays({})
        BY <2>4, <2>5 DEF Stays
      <3>q. QED BY <2>4, <3>1, <3>2 DEF OtherEffect
    <2>6. CASE ~box[f][u].deleted
      <3>1. owed' = owed \ {box[f][u].msg}
        BY <1>3, <2>6 DEF ToggleDeleted
      <3>2. Stays({box[f][u].msg})
        BY <1>1, <2>4, OthersStay
      <3>q. QED BY <2>4, <3>1, <3>2 DEF OtherEffect
    <2>q. QED BY <2>5, <2>6
  <1>4. ASSUME ExpungeByOther(f)
        PROVE  OtherEffect({}, {})
    <2>1. Expunge(f) /\ UNCHANGED <<live, epoch, uidnext, owed>>
      BY <1>4 DEF ExpungeByOther, Expunge
    <2>q. QED BY <1>1, <2>1, EmptyStep DEF OtherEffect
  <1>5. ASSUME Dropped(f)
        PROVE  \E S : OtherEffect(S, {})
    <2>1. OtherEffect({box[f][u].msg : u \in Uids}, {})
      BY <1>1, <1>5, DroppedStep DEF OtherEffect
    <2>q. QED BY <2>1
  <1>6. ASSUME Made(f), UNCHANGED owed
        PROVE  OtherEffect({}, {})
    BY <1>1, <1>6, MadeStep DEF OtherEffect
  <1>q. QED BY <1>2, <1>3, <1>4, <1>5, <1>6 DEF Other

LEMMA TypeInit == Init => TypeOK
  <1> SUFFICES ASSUME Init PROVE TypeOK
    OBVIOUS
  <1>1. 1 \in Uids /\ 1 \in Epochs /\ 1 \in 1 .. MaxUid + 1 /\ NoMail \in Mail
        /\ NoMail.msg = None /\ NoLook \in Looks /\ Inbox \in Folders
    BY MessageConstants, MailboxAssumption
  <1>2. MailboxOK
    <2>1. \A f \in Folders, u \in Uids : box[f][u] = NoMail
      BY DEF Init
    <2>2. \A f \in Folders, u \in Uids : u \notin Present(f)
      BY <1>1, <2>1 DEF Present
    <2>q. QED BY <1>1, <2>1, <2>2 DEF Init, MailboxOK
  <1>3. CommandOK
    BY <1>1 DEF Init, CommandOK, Resting
  <1>q. QED BY <1>2, <1>3 DEF Init, TypeOK, NothingHad

LEMMA TypeStep ==
  ASSUME TypeOK, [Next]_vars
  PROVE  TypeOK' /\ Forward
  <1>1. look \in Looks /\ owed \subseteq Messages
    BY LookPlace DEF TypeOK
  <1>2. ASSUME NEW f \in Folders, NEW u \in Uids, Look(f, u)
        PROVE  TypeOK' /\ Forward
    <2>1. UNCHANGED mailbox /\ Quit /\ owed' = owed
      BY <1>2 DEF Look
    <2>2. MailboxOK' /\ Forward
      BY <2>1, UnchangedBox
    <2>3. look' \in Looks
      <3>1. box[f][u] \in Mail /\ epoch[f] \in Epochs
        BY DEF TypeOK, MailboxOK
      <3>q. QED BY <1>2, <3>1 DEF Look, Looks, Mail
    <2>q. QED BY <1>1, <2>1, <2>2, <2>3, QuitType
  <1>3. ASSUME NEW f \in Folders, FolderCreate(f)
        PROVE  TypeOK' /\ Forward
    <2>1. Made(f) /\ Quit /\ UNCHANGED <<hasMove, look, owed>>
      BY <1>3 DEF FolderCreate, FolderCommand
    <2>q. QED BY <1>1, <2>1, MadeStep, QuitType
  <1>4. ASSUME NEW f \in Folders, FolderDelete(f)
        PROVE  TypeOK' /\ Forward
    <2>1. Dropped(f) /\ Quit /\ UNCHANGED <<hasMove, look>>
      BY <1>4 DEF FolderDelete, FolderCommand
    <2>q. QED BY <1>1, <2>1, DroppedStep, QuitType
  <1>5. ASSUME NEW f \in Folders, NEW g \in Folders, FolderRename(f, g)
        PROVE  TypeOK' /\ Forward
    <2>1. Quit /\ UNCHANGED <<look, owed>>
      BY <1>5 DEF FolderRename, FolderCommand
    <2>q. QED BY <1>1, <1>5, <2>1, RenameStep, QuitType
  <1>6. ASSUME Stop
        PROVE  TypeOK' /\ Forward
    <2>1. UNCHANGED mailbox /\ Quit /\ UNCHANGED <<look, owed>>
      BY <1>6 DEF Stop
    <2>q. QED BY <1>1, <2>1, UnchangedBox, QuitType
  <1>7. ASSUME NEW f \in Others, Other(f)
        PROVE  TypeOK' /\ Forward
    <2>1. PICK S, new : OtherEffect(S, new)
      BY <1>7, OtherCases
    <2>2. MailboxOK' /\ Forward /\ owed' \subseteq Messages
      BY <1>1, <2>1 DEF OtherEffect
    <2>3. UNCHANGED <<look, command>> /\ NoHistory
      BY <1>7 DEF Other
    <2>4. CommandOK'
      BY <2>3 DEF TypeOK, CommandOK, command
    <2>q. QED BY <2>2, <2>3, <2>4, HistoryType DEF TypeOK
  <1>8. CASE UNCHANGED vars
    <2>1. UNCHANGED mailbox /\ UNCHANGED <<look, command, owed, history>>
      BY <1>8 DEF vars
    <2>2. CommandOK'
      BY <2>1 DEF TypeOK, CommandOK, command
    <2>q. QED BY <2>1, <2>2, UnchangedBox DEF TypeOK, history
  <1>9. CASE CommandStep
    BY <1>9, CommandEffect
  <1>q. QED
    BY <1>2, <1>3, <1>4, <1>5, <1>6, <1>7, <1>8, <1>9 DEF Next

\* Every state the program and the mailbox can reach is well typed.
THEOREM TypeCorrect == Spec => []TypeOK
  BY TypeInit, TypeStep, PTL DEF Spec

-----------------------------------------------------------------------------
(***************************************************************************)
(* The message under a UID, once seen under a UIDVALIDITY, is the only one *)
(* this UID names while the UIDVALIDITY lasts.                             *)
(***************************************************************************)
Seen(f, u, e, m) ==
  /\ e <= epoch[f]
  /\ e = epoch[f] => u < uidnext[f] /\ box[f][u].msg \in {None, m}

LEMMA SeenStep ==
  ASSUME TypeOK, TypeOK', Forward, NEW f \in Folders, NEW u \in Uids, NEW e \in Epochs,
         NEW m, Seen(f, u, e, m)
  PROVE  /\ e <= epoch'[f]
         /\ e = epoch'[f] => u < uidnext'[f] /\ box'[f][u].msg \in {None, m}
  <1>1. epoch[f] \in Nat /\ epoch'[f] \in Nat /\ uidnext[f] \in Nat /\ uidnext'[f] \in Nat
    BY MailboxAssumption DEF TypeOK, MailboxOK
  <1>q. QED BY <1>1 DEF Seen, Forward

\* A present message is one that is seen.
LEMMA SeeIt ==
  ASSUME TypeOK, NEW f \in Folders, NEW u \in Present(f)
  PROVE  Seen(f, u, epoch[f], box[f][u].msg) /\ u \in Uids
  BY MailboxAssumption DEF Seen, Present, TypeOK, MailboxOK

\* What the user read was seen, and a command that goes on is about it.
LookInv ==
  \/ look = NoLook /\ pc \in Resting
  \/ Seen(look.folder, look.uid, look.epoch, look.msg)

\* So was what the command fetched.
ReadInv ==
  \A i \in DOMAIN reads : Seen(look.folder, look.uid, reads[i].epoch, reads[i].msg)

\* A step that leaves look alone and does not begin a command without it.
LEMMA LookKept ==
  ASSUME TypeOK, TypeOK', Forward, LookInv, look' = look,
         pc' = pc \/ pc' \in Resting \/ First \/ pc \in Working
  PROVE  LookInv'
  <1>1. CASE look = NoLook /\ pc \in Resting
    BY <1>1 DEF LookInv, First, Resting, Working
  <1>2. CASE Seen(look.folder, look.uid, look.epoch, look.msg)
    BY <1>2, LookPlace, SeenStep DEF LookInv, Seen
  <1>q. QED BY <1>1, <1>2 DEF LookInv

LEMMA ReadsKept ==
  ASSUME TypeOK, TypeOK', Forward, ReadInv, look' = look, reads' = reads
  PROVE  ReadInv'
  <1> SUFFICES ASSUME NEW i \in DOMAIN reads
               PROVE  Seen(look.folder, look.uid, reads[i].epoch, reads[i].msg)'
    BY DEF ReadInv
  <1>1. reads[i].epoch \in Epochs
    <2>1. reads \in Seq(Reads)
      BY DEF TypeOK, CommandOK
    <2>2. reads[i] \in Reads
      BY <2>1
    <2>q. QED BY <2>2 DEF Reads
  <1>2. Seen(look.folder, look.uid, reads[i].epoch, reads[i].msg)
    BY DEF ReadInv
  <1>3. look.folder \in Folders /\ look.uid \in Uids
    BY LookPlace
  <1>4. /\ reads[i].epoch <= epoch'[look.folder]
        /\ reads[i].epoch = epoch'[look.folder] =>
             /\ look.uid < uidnext'[look.folder]
             /\ box'[look.folder][look.uid].msg \in {None, reads[i].msg}
    BY <1>1, <1>2, <1>3, SeenStep
  <1>q. QED BY <1>4 DEF Seen

\* What a step does to the user's knowledge and the command's.
LEMMA KnowledgeCases ==
  ASSUME TypeOK, [Next]_vars
  PROVE  \/ \E f \in Folders, u \in Uids : Look(f, u)
         \/ /\ look' = look
            /\ pc' = pc \/ pc' \in Resting \/ First \/ pc \in Working
            /\ \/ reads' \in {<<>>, reads}
               \/ \E before \in {<<>>, reads}, next \in {"files", "quote", "append", "ok"},
                     d \in Folders :
                    Fetch(before, next, d) /\ (First \/ pc \in Working)
  <1>1. Quit => pc' \in Resting /\ reads' = <<>>
    BY DEF Quit, Resting
  <1>2. ASSUME NEW f \in Folders,
               \/ FolderCreate(f) \/ FolderDelete(f)
               \/ \E g \in Folders : FolderRename(f, g)
        PROVE  look' = look /\ Quit
    BY <1>2 DEF FolderCreate, FolderDelete, FolderRename, FolderCommand
  <1>3. ASSUME NEW f \in Others, Other(f)
        PROVE  look' = look /\ pc' = pc /\ reads' = reads
    BY <1>3 DEF Other, command
  <1>4. UNCHANGED vars => look' = look /\ pc' = pc /\ reads' = reads
    BY DEF vars, command
  <1>5. Stop => look' = look /\ Quit
    BY DEF Stop
  <1>6. ASSUME CommandStep
        PROVE  /\ look' = look
               /\ pc' = pc \/ pc' \in Resting \/ First \/ pc \in Working
               /\ \/ reads' \in {<<>>, reads}
                  \/ \E before \in {<<>>, reads}, next \in {"files", "quote", "append", "ok"},
                        d \in Folders :
                       Fetch(before, next, d) /\ (First \/ pc \in Working)
    <2>1. \A d \in Folders : MoveMessage(d) \/ MoveByCopy(d) \/ CopyMessage(d) =>
            First /\ reads' = <<>>
      BY <1>1 DEF MoveMessage, MoveByCopy, CopyMessage
    <2>2. MoveByStore \/ ExpungeFolder => pc \in Working /\ reads' \in {<<>>, reads}
      BY <1>1 DEF MoveByStore, ExpungeFolder, Later, Working
    <2>3. DeleteHard => First /\ reads' = <<>>
      BY <1>1 DEF DeleteHard
    <2>4. \A add \in BOOLEAN : FlagMessage(add) => First /\ reads' = <<>>
      BY <1>1 DEF FlagMessage
    <2>5. AppendMessage => pc' \in Resting /\ reads' = <<>>
      BY <1>1 DEF AppendMessage
    <2>q. QED BY <1>6, <2>1, <2>2, <2>3, <2>4, <2>5, CommandCases
  <1>q. QED BY <1>1, <1>2, <1>3, <1>4, <1>5, <1>6 DEF Next

\* A fetch appends what it has seen.
LEMMA FetchReads ==
  ASSUME TypeOK, TypeOK', NEW before \in {<<>>, reads}, NEW next, NEW d, Fetch(before, next, d)
  PROVE  /\ look.uid \in Present(look.folder)
         /\ \A i \in DOMAIN reads' :
              \/ /\ reads'[i].epoch = epoch[look.folder]
                 /\ reads'[i].msg = box[look.folder][look.uid].msg
              \/ i \in DOMAIN reads /\ reads'[i] = reads[i]
         /\ \A i \in DOMAIN reads' : reads'[i] \in Reads
  <1>1. reads \in Seq(Reads) /\ reads' \in Seq(Reads)
    BY DEF TypeOK, CommandOK
  <1> DEFINE read == [epoch |-> epoch[look.folder], msg |-> box[look.folder][look.uid].msg]
  <1>2. read.epoch = epoch[look.folder] /\ read.msg = box[look.folder][look.uid].msg
    OBVIOUS
  <1>3. /\ look.uid \in Present(look.folder) /\ reads' = Append(before, read)
    BY DEF Fetch, FetchOne
  <1> HIDE DEF read
  <1>4. \A i \in DOMAIN reads' : reads'[i] = read \/ (i \in DOMAIN reads /\ reads'[i] = reads[i])
    <2>1. before \in Seq(Reads)
      <3>1. <<>> \in Seq(Reads)
        OBVIOUS
      <3>q. QED BY <1>1, <3>1
    <2>2. Len(before) \in Nat /\ DOMAIN before = 1 .. Len(before)
      BY <2>1
    <2>3. /\ DOMAIN Append(before, read) = 1 .. Len(before) + 1
          /\ \A i \in 1 .. Len(before) + 1 :
               Append(before, read)[i] = IF i <= Len(before) THEN before[i] ELSE read
      BY <2>1
    <2>4. \A i \in DOMAIN reads' : reads'[i] = read \/ (i \in DOMAIN before /\ reads'[i] = before[i])
      BY <1>3, <2>2, <2>3
    <2>q. QED BY <2>4
  <1>5. \A i \in DOMAIN reads' : reads'[i] \in Reads
    BY <1>1
  <1>q. QED BY <1>2, <1>3, <1>4, <1>5

LEMMA KnowledgeStep ==
  ASSUME TypeOK, LookInv, ReadInv, [Next]_vars
  PROVE  LookInv' /\ ReadInv'
  <1>1. TypeOK' /\ Forward
    BY TypeStep
  <1>2. ASSUME NEW f \in Folders, NEW u \in Uids, Look(f, u)
        PROVE  LookInv' /\ ReadInv'
    <2>1. /\ UNCHANGED mailbox /\ u \in Present(f) /\ reads' = <<>>
          /\ look' = [folder |-> f, uid |-> u, epoch |-> epoch[f], msg |-> box[f][u].msg]
      BY <1>2 DEF Look, Quit
    <2>2. Seen(f, u, epoch[f], box[f][u].msg)
      BY <2>1, SeeIt
    <2>3. LookInv'
      BY <2>1, <2>2 DEF LookInv, Seen, mailbox
    <2>q. QED BY <2>1, <2>3 DEF ReadInv
  <1>3. ASSUME look' = look, pc' = pc \/ pc' \in Resting \/ First \/ pc \in Working,
               reads' \in {<<>>, reads}
        PROVE  LookInv' /\ ReadInv'
    <2>1. LookInv'
      BY <1>1, <1>3, LookKept
    <2>2. CASE reads' = <<>>
      BY <2>1, <2>2 DEF ReadInv
    <2>3. CASE reads' = reads
      BY <1>1, <1>3, <2>1, <2>3, ReadsKept
    <2>q. QED BY <1>3, <2>2, <2>3
  <1>4. ASSUME look' = look, pc' = pc \/ pc' \in Resting \/ First \/ pc \in Working,
               NEW before \in {<<>>, reads}, NEW next, NEW d, Fetch(before, next, d)
        PROVE  LookInv' /\ ReadInv'
    <2>1. LookInv'
      BY <1>1, <1>4, LookKept
    <2>2. /\ look.uid \in Present(look.folder)
          /\ \A i \in DOMAIN reads' :
               \/ /\ reads'[i].epoch = epoch[look.folder]
                  /\ reads'[i].msg = box[look.folder][look.uid].msg
               \/ i \in DOMAIN reads /\ reads'[i] = reads[i]
          /\ \A i \in DOMAIN reads' : reads'[i] \in Reads
      BY <1>1, <1>4, FetchReads
    <2>3. ASSUME NEW i \in DOMAIN reads'
          PROVE  Seen(look.folder, look.uid, reads'[i].epoch, reads'[i].msg)
      <3>1. CASE /\ reads'[i].epoch = epoch[look.folder]
                 /\ reads'[i].msg = box[look.folder][look.uid].msg
        BY <2>2, <3>1, LookPlace, SeeIt
      <3>2. CASE i \in DOMAIN reads /\ reads'[i] = reads[i]
        BY <3>2 DEF ReadInv
      <3>q. QED BY <2>2, <3>1, <3>2
    <2>4. ASSUME NEW i \in DOMAIN reads'
          PROVE  Seen(look.folder, look.uid, reads[i].epoch, reads[i].msg)'
      <3>1. reads'[i].epoch \in Epochs
        BY <2>2 DEF Reads
      <3>2. PICK e \in Epochs, m \in {reads'[i].msg} : e = reads'[i].epoch /\ m = reads'[i].msg
        BY <3>1
      <3>3. look.folder \in Folders /\ look.uid \in Uids
        BY LookPlace
      <3>4. Seen(look.folder, look.uid, e, m)
        BY <2>3, <3>2
      <3>5. /\ e <= epoch'[look.folder]
            /\ e = epoch'[look.folder] =>
                 look.uid < uidnext'[look.folder] /\ box'[look.folder][look.uid].msg \in {None, m}
        BY <1>1, <3>3, <3>4, SeenStep
      <3>q. QED BY <1>4, <3>2, <3>5 DEF Seen
    <2>q. QED BY <2>1, <2>4 DEF ReadInv
  <1>q. QED BY <1>2, <1>3, <1>4, KnowledgeCases

LEMMA KnowledgeInit == Init => LookInv /\ ReadInv
  BY DEF Init, LookInv, ReadInv, Resting

\* Two fetches under one UIDVALIDITY brought the same message.
LEMMA OneSourceStep ==
  ASSUME TypeOK, LookInv, ReadInv, OneSource, [Next]_vars
  PROVE  OneSource'
  <1>1. TypeOK' /\ Forward
    BY TypeStep
  <1>2. CASE reads' = <<>>
    BY <1>2 DEF OneSource
  <1>3. CASE look' = look /\ reads' = reads
    BY <1>3 DEF OneSource
  <1>4. ASSUME look' = look, First \/ pc \in Working,
               NEW before \in {<<>>, reads}, NEW next, NEW d, Fetch(before, next, d)
        PROVE  OneSource'
    <2>1. /\ look.uid \in Present(look.folder)
          /\ \A i \in DOMAIN reads' :
               \/ /\ reads'[i].epoch = epoch[look.folder]
                  /\ reads'[i].msg = box[look.folder][look.uid].msg
               \/ i \in DOMAIN reads /\ reads'[i] = reads[i]
          /\ \A i \in DOMAIN reads' : reads'[i] \in Reads
      BY <1>1, <1>4, FetchReads
    <2>2. box[look.folder][look.uid].msg # None
      BY <2>1 DEF Present
    <2>3. Seen(look.folder, look.uid, look.epoch, look.msg)
      BY <1>4 DEF LookInv, First, Resting, Working
    <2>4. \A i \in DOMAIN reads' :
            reads'[i].epoch = epoch[look.folder] =>
              reads'[i].msg = box[look.folder][look.uid].msg
      BY <2>1, <2>2 DEF ReadInv, Seen
    <2>5. look.epoch = epoch[look.folder] => look.msg = box[look.folder][look.uid].msg
      BY <2>2, <2>3 DEF Seen
    <2>6. ASSUME NEW i \in DOMAIN reads', reads'[i].epoch = look.epoch
          PROVE  reads'[i].msg = look.msg
      BY <2>1, <2>4, <2>5, <2>6 DEF OneSource
    <2>7. ASSUME NEW i \in DOMAIN reads', NEW j \in DOMAIN reads',
                 reads'[i].epoch = reads'[j].epoch
          PROVE  reads'[i] = reads'[j]
      <3>1. reads'[i].msg = reads'[j].msg
        BY <2>1, <2>4, <2>7 DEF OneSource
      <3>q. QED BY <2>1, <2>7, <3>1 DEF Reads
    <2>q. QED BY <1>4, <2>6, <2>7 DEF OneSource
  <1>5. (\E f \in Folders, u \in Uids : Look(f, u)) => reads' = <<>>
    BY DEF Look, Quit
  <1>q. QED BY <1>2, <1>3, <1>4, <1>5, KnowledgeCases

\* The text a draft quotes is that of the message it answers, and a download
\* writes the parts of one message, as long as the UIDVALIDITY lasts.
THEOREM OneMessageIsQuoted == Spec => []OneSource
  <1>1. Init => OneSource
    BY DEF Init, OneSource
  <1>q. QED
    BY <1>1, TypeInit, TypeStep, KnowledgeInit, KnowledgeStep, OneSourceStep, PTL DEF Spec

\* A command changes or removes no message but the one the user read and those
\* marked \Deleted, as long as the UIDVALIDITY lasts.
THEOREM CommandsActOnMeant == Spec => ActsOnMeant
  <1>1. ASSUME TypeOK, LookInv, CommandStep
        PROVE  \A f \in Folders, u \in Uids :
                 Changed(f, u) =>
                   \/ pc = "expunge" /\ box[f][u].deleted
                   \/ /\ f = look.folder /\ u = look.uid
                      /\ epoch[f] = look.epoch => box[f][u].msg = look.msg
    <2> SUFFICES ASSUME NEW f \in Folders, NEW u \in Uids, Changed(f, u),
                        ~(pc = "expunge" /\ box[f][u].deleted)
                 PROVE  /\ f = look.folder /\ u = look.uid
                        /\ epoch[f] = look.epoch => box[f][u].msg = look.msg
      OBVIOUS
    <2>1. f = look.folder /\ u = look.uid /\ (First \/ pc \in Working)
      BY <1>1, CommandEffect DEF Touched, Changed
    <2>2. Seen(look.folder, look.uid, look.epoch, look.msg)
      BY <1>1, <2>1 DEF LookInv, First, Resting, Working
    <2>q. QED BY <2>1, <2>2 DEF Seen, Changed, Present
  <1>2. TypeOK /\ LookInv /\ [Next]_vars => [CommandStep =>
               \A f \in Folders, u \in Uids :
                 Changed(f, u) =>
                   \/ pc = "expunge" /\ box[f][u].deleted
                   \/ /\ f = look.folder /\ u = look.uid
                      /\ epoch[f] = look.epoch => box[f][u].msg = look.msg]_vars
    BY <1>1
  <1>q. QED
    BY <1>2, TypeInit, TypeStep, KnowledgeInit, KnowledgeStep, PTL DEF Spec, ActsOnMeant

-----------------------------------------------------------------------------
(***************************************************************************)
(* No message is lost.                                                     *)
(***************************************************************************)
\* Between the COPY of a move and its STORE the message has a second place.
StoreInv ==
  pc = "store" /\ sess = epoch[look.folder] /\ sess = look.epoch =>
    \A m \in owed :
      box[look.folder][look.uid].msg = m =>
        \E c \in Safe(m) : c # <<look.folder, look.uid>>

LEMMA KeptNothingLost ==
  ASSUME TypeOK, NothingLost, Kept({}), owed' \subseteq owed
  PROVE  NothingLost'
  BY DEF NothingLost, Kept, TypeOK

LEMMA StaysNothingLost ==
  ASSUME TypeOK, NothingLost, NEW m1, Stays({m1}), owed' \subseteq owed \ {m1}
  PROVE  NothingLost'
  <1>1. Kept({m1})
    BY StaysKept
  <1>q. QED BY <1>1 DEF NothingLost, Kept, TypeOK

\* A safe place that stays.
LEMMA StaysAt ==
  ASSUME NEW m \in Messages, NEW S, Stays(S), m \notin S,
         NEW f \in Folders, NEW u \in Uids, <<f, u>> \in Safe(m)
  PROVE  <<f, u>> \in Safe(m)'
  BY SafePlaces, MailboxAssumption DEF Stays

\* The STORE of a move.
LEMMA MoveByStoreKeeps ==
  ASSUME TypeOK, NothingLost, StoreInv, MoveByStore, UNCHANGED <<live, epoch, hasMove>>
  PROVE  NothingLost'
  <1> DEFINE f == look.folder
             u == look.uid
  <1>1. f \in Folders /\ u \in Uids /\ owed \subseteq Messages
    BY LookPlace DEF TypeOK
  <1>2. /\ pc = "store" /\ sess = epoch[f]
        /\ StoreFlag(f, u, [box[f][u] EXCEPT !.deleted = TRUE])
        /\ owed' = IF sess = look.epoch THEN owed ELSE owed \ {box[f][u].msg}
    BY DEF MoveByStore, Later, MarkDeleted
  <1>3. \A g \in Folders, v \in Uids : box'[g][v] # box[g][v] => g = f /\ v = u
    <2>1. CASE u \in Present(f)
      <3>1. box' = [box EXCEPT ![f][u] = [box[f][u] EXCEPT !.deleted = TRUE]]
        BY <1>2, <2>1 DEF StoreFlag
      <3>2. box \in [Folders -> [Uids -> Mail]]
        BY DEF TypeOK, MailboxOK
      <3>q. QED BY <1>1, <3>1, <3>2
    <2>2. CASE u \notin Present(f)
      BY <1>2, <2>2 DEF StoreFlag
    <2>q. QED BY <2>1, <2>2
  <1>4. CASE sess # look.epoch
    <2>1. Stays({box[f][u].msg})
      BY <1>1, <1>3, OthersStay
    <2>q. QED BY <1>2, <1>4, <2>1, StaysNothingLost
  <1>5. CASE sess = look.epoch
    <2> SUFFICES ASSUME NEW m \in owed
                 PROVE  Safe(m)' # {}
      BY <1>2, <1>5 DEF NothingLost
    <2>1. \E c \in Safe(m) : c # <<f, u>>
      <3>1. CASE box[f][u].msg = m
        BY <1>2, <1>5, <3>1 DEF StoreInv
      <3>2. CASE box[f][u].msg # m
        BY <1>1, <3>2, SafePlaces DEF NothingLost
      <3>q. QED BY <3>1, <3>2
    <2>2. PICK g \in Folders, v \in Uids : <<g, v>> \in Safe(m) /\ ~(g = f /\ v = u)
      BY <2>1 DEF Safe, Copies
    <2>3. <<g, v>> \in Safe(m)'
      BY <1>1, <1>3, <2>2, SafePlaces
    <2>q. QED BY <2>3
  <1>q. QED BY <1>4, <1>5

LEMMA OtherKeeps ==
  ASSUME TypeOK, NothingLost, NEW S, NEW new, OtherEffect(S, new)
  PROVE  NothingLost'
  <1> SUFFICES ASSUME NEW m \in owed'
               PROVE  Safe(m)' # {}
    BY DEF NothingLost
  <1>1. CASE m \in new
    <2>1. m \in Messages
      BY <1>1 DEF OtherEffect
    <2>2. PICK d \in Folders : /\ uidnext[d] \in Uids
                               /\ box'[d][uidnext[d]].msg = m /\ ~box'[d][uidnext[d]].deleted
      BY <1>1 DEF OtherEffect
    <2>3. <<d, uidnext[d]>> \in Safe(m)'
      BY <2>1, <2>2, SafePlaces
    <2>q. QED BY <2>3
  <1>2. CASE m \notin new
    <2>1. m \in owed /\ m \notin S /\ m \in Messages
      BY <1>2 DEF OtherEffect, TypeOK
    <2>2. Kept(S)
      BY StaysKept DEF OtherEffect
    <2>q. QED BY <2>1, <2>2 DEF NothingLost, Kept
  <1>q. QED BY <1>1, <1>2

LEMMA CommandKeeps ==
  ASSUME TypeOK, NothingLost, StoreInv, CommandStep
  PROVE  NothingLost'
  <1>1. /\ UNCHANGED <<live, epoch, hasMove>>
        /\ look.folder \in Folders /\ look.uid \in Uids
        /\ box \in [Folders -> [Uids -> Mail]]
    BY CommandCases, LookPlace DEF TypeOK, MailboxOK
  <1>2. ASSUME NEW d \in Folders, MoveMessage(d)
        PROVE  NothingLost'
    <2>1. UidMove(look.folder, look.uid, d) /\ owed' = owed
      BY <1>2 DEF MoveMessage
    <2>q. QED BY <1>1, <2>1, MoveEffect, KeptNothingLost
  <1>3. ASSUME NEW d \in Folders, MoveByCopy(d) \/ CopyMessage(d)
        PROVE  NothingLost'
    <2>1. UidCopy(look.folder, look.uid, d) /\ owed' = owed
      BY <1>3 DEF MoveByCopy, CopyMessage
    <2>2. Kept({})
      BY <1>1, <2>1, CopyEffect, StaysKept
    <2>q. QED BY <2>1, <2>2, KeptNothingLost
  <1>4. ASSUME MoveByStore
        PROVE  NothingLost'
    BY <1>1, <1>4, MoveByStoreKeeps
  <1>5. ASSUME ExpungeFolder
        PROVE  NothingLost'
    <2>1. Expunge(look.folder) /\ owed' = owed /\ UNCHANGED uidnext
      BY <1>5 DEF ExpungeFolder, Expunge
    <2>2. Kept({})
      BY <1>1, <2>1, EmptyStep, StaysKept
    <2>q. QED BY <2>1, <2>2, KeptNothingLost
  <1>6. ASSUME DeleteHard
        PROVE  NothingLost'
    <2> DEFINE mail == [box[look.folder][look.uid] EXCEPT !.deleted = TRUE]
    <2>1. /\ StoreFlag(look.folder, look.uid, mail)
          /\ owed' = owed \ {box[look.folder][look.uid].msg}
      BY <1>6 DEF DeleteHard, MarkDeleted
    <2>2. mail \in Mail /\ mail.msg = box[look.folder][look.uid].msg
      <3>1. box[look.folder][look.uid] \in Mail
        BY <1>1
      <3>q. QED BY <3>1 DEF Mail
    <2> HIDE DEF mail
    <2>3. \A g \in Folders, v \in Uids :
            box'[g][v] # box[g][v] => g = look.folder /\ v = look.uid
      BY <1>1, <2>1, <2>2, StoreEffect
    <2>4. Stays({box[look.folder][look.uid].msg})
      BY <1>1, <2>3, OthersStay
    <2>q. QED BY <2>1, <2>4, StaysNothingLost
  <1>7. ASSUME NEW add \in BOOLEAN, FlagMessage(add)
        PROVE  NothingLost'
    <2> DEFINE mail == [box[look.folder][look.uid] EXCEPT !.flagged = add]
    <2>1. StoreFlag(look.folder, look.uid, mail) /\ owed' = owed
      BY <1>7 DEF FlagMessage
    <2>2. /\ mail \in Mail /\ mail.msg = box[look.folder][look.uid].msg
          /\ mail.deleted = box[look.folder][look.uid].deleted
      <3>1. box[look.folder][look.uid] \in Mail
        BY <1>1
      <3>q. QED BY <3>1 DEF Mail
    <2> HIDE DEF mail
    <2>3. \A g \in Folders, v \in Uids :
            box'[g][v] # box[g][v] => g = look.folder /\ v = look.uid /\ box'[g][v] = mail
      BY <1>1, <2>1, <2>2, StoreEffect
    <2>4. Stays({})
      BY <2>2, <2>3 DEF Stays
    <2>5. Kept({})
      BY <2>4, StaysKept
    <2>q. QED BY <2>1, <2>5, KeptNothingLost
  <1>8. ASSUME NEW before, NEW next, NEW d, Fetch(before, next, d)
        PROVE  NothingLost'
    <2>1. UNCHANGED mailbox /\ owed' = owed
      BY <1>1, <1>8 DEF Fetch, FetchOne, mailbox
    <2>2. Kept({})
      BY <2>1, UnchangedBox, StaysKept
    <2>q. QED BY <2>1, <2>2, KeptNothingLost
  <1>9. ASSUME AppendMessage
        PROVE  NothingLost'
    <2>1. owed' = owed
      BY <1>9 DEF AppendMessage
    <2>2. PICK d \in Folders : Deposit(d, Draft)
      BY <1>9, MessageConstants DEF AppendMessage, TypeOK, CommandOK
    <2>3. /\ Room(d) /\ Takes(d)
          /\ box' = [box EXCEPT ![d][NewUid(d)] = [NoMail EXCEPT !.msg = Draft]]
      BY <2>2 DEF Deposit
    <2>4. [NoMail EXCEPT !.msg = Draft] \in Mail /\ [NoMail EXCEPT !.msg = Draft].msg # None
      BY NewMail DEF Items
    <2>5. Kept({})
      BY <1>1, <2>3, <2>4, PutStep, StaysKept
    <2>q. QED BY <2>1, <2>5, KeptNothingLost
  <1>q. QED
    BY <1>2, <1>3, <1>4, <1>5, <1>6, <1>7, <1>8, <1>9, CommandCases

LEMMA NothingLostStep ==
  ASSUME TypeOK, NothingLost, StoreInv, [Next]_vars
  PROVE  NothingLost'
  <1>1. ASSUME UNCHANGED mailbox, owed' = owed
        PROVE  NothingLost'
    <2>1. Kept({})
      BY <1>1, UnchangedBox, StaysKept
    <2>q. QED BY <1>1, <2>1, KeptNothingLost
  <1>2. ASSUME NEW f \in Folders, FolderCreate(f)
        PROVE  NothingLost'
    <2>1. Made(f) /\ UNCHANGED <<hasMove, owed>>
      BY <1>2 DEF FolderCreate, FolderCommand
    <2>2. Kept({})
      BY <2>1, MadeStep, StaysKept
    <2>q. QED BY <2>1, <2>2, KeptNothingLost
  <1>3. ASSUME NEW f \in Folders, FolderDelete(f)
        PROVE  NothingLost'
    <2>1. Dropped(f) /\ UNCHANGED hasMove
      BY <1>3 DEF FolderDelete, FolderCommand
    <2>2. OtherEffect({box[f][u].msg : u \in Uids}, {})
      BY <2>1, DroppedStep DEF OtherEffect
    <2>q. QED BY <2>2, OtherKeeps
  <1>4. ASSUME NEW f \in Folders, NEW g \in Folders, FolderRename(f, g)
        PROVE  NothingLost'
    <2>1. owed' = owed
      BY <1>4 DEF FolderRename
    <2>q. QED BY <1>4, <2>1, RenameStep, KeptNothingLost
  <1>5. ASSUME NEW f \in Others, Other(f)
        PROVE  NothingLost'
    BY <1>5, OtherCases, OtherKeeps
  <1>6. (\E f \in Folders, u \in Uids : Look(f, u)) \/ Stop \/ UNCHANGED vars =>
          UNCHANGED mailbox /\ owed' = owed
    BY DEF Look, Stop, vars
  <1>q. QED BY <1>1, <1>2, <1>3, <1>4, <1>5, <1>6, CommandKeeps DEF Next

\* Who brings a move to its STORE, or leaves it there.
LEMMA StoreCases ==
  ASSUME TypeOK, [Next]_vars, pc' = "store"
  PROVE  \/ \E d \in Folders : /\ MoveByCopy(d) /\ look' = look
                               /\ UNCHANGED <<live, epoch, hasMove>>
                               /\ sess' = epoch[look.folder]
         \/ /\ pc = "store" /\ sess' = sess /\ look' = look
            /\ (\E f \in Others : Other(f)) \/ UNCHANGED vars
  <1>1. ~Quit
    BY DEF Quit
  <1>2. CASE CommandStep
    <2>1. \A d \in Folders : ~MoveMessage(d) /\ ~CopyMessage(d)
      BY <1>1 DEF MoveMessage, CopyMessage, Answered
    <2>2. ~MoveByStore /\ ~ExpungeFolder /\ ~DeleteHard /\ ~AppendMessage
      BY <1>1 DEF MoveByStore, ExpungeFolder, DeleteHard, AppendMessage, Answered
    <2>3. \A add \in BOOLEAN : ~FlagMessage(add)
      BY <1>1 DEF FlagMessage
    <2>4. \A before \in {<<>>, reads}, next \in {"files", "quote", "append", "ok"},
             d \in Folders : ~Fetch(before, next, d)
      BY DEF Fetch, FetchOne, Answered
    <2>5. \A d \in Folders : MoveByCopy(d) => sess' = epoch[look.folder]
      BY <1>1 DEF MoveByCopy, Answered
    <2>q. QED BY <1>2, <2>1, <2>2, <2>3, <2>4, <2>5, CommandCases
  <1>3. CASE ~CommandStep
    <2>1. /\ \A f \in Folders, u \in Uids : ~Look(f, u)
          /\ \A f \in Folders : ~FolderCreate(f) /\ ~FolderDelete(f)
          /\ \A f, g \in Folders : ~FolderRename(f, g)
          /\ ~Stop
      BY <1>1 DEF Look, FolderCreate, FolderDelete, FolderRename, FolderCommand, Stop
    <2>2. (\E f \in Others : Other(f)) \/ UNCHANGED vars
      BY <1>3, <2>1 DEF Next
    <2>q. QED BY <2>2 DEF Other, command, vars
  <1>q. QED BY <1>2, <1>3

LEMMA StoreStep ==
  ASSUME TypeOK, LookInv, NothingLost, StoreInv, [Next]_vars
  PROVE  StoreInv'
  <1> SUFFICES ASSUME pc' = "store", sess' = epoch'[look'.folder], sess' = look'.epoch,
                      NEW m \in owed', box'[look'.folder][look'.uid].msg = m
               PROVE  \E c \in Safe(m)' : c # <<look'.folder, look'.uid>>
    BY DEF StoreInv
  <1> DEFINE f == look.folder
             u == look.uid
  <1>1. TypeOK' /\ Forward /\ look' = look /\ f \in Folders /\ u \in Uids
        /\ owed \subseteq Messages /\ m \in Messages /\ m # None
    BY TypeStep, StoreCases, LookPlace, MailboxAssumption DEF TypeOK
  <1>2. ASSUME NEW d \in Folders, MoveByCopy(d), UNCHANGED <<live, epoch, hasMove>>
        PROVE  \E c \in Safe(m)' : c # <<f, u>>
    <2>1. UidCopy(f, u, d) /\ owed' = owed
      BY <1>2 DEF MoveByCopy
    <2>2. /\ Stays({})
          /\ \A g \in Folders : \A v \in Present(g) : box'[g][v] = box[g][v]
          /\ u \in Present(f) =>
               /\ uidnext[d] \in Uids /\ box[d][uidnext[d]].msg = None
               /\ box'[d][uidnext[d]] = box[f][u]
          /\ u \notin Present(f) => box' = box
      BY <1>1, <1>2, <2>1, CopyEffect
    <2>3. u \in Present(f) /\ box[f][u].msg = m
      BY <1>1, <2>2 DEF Present
    <2>4. CASE box[f][u].deleted
      <3>1. PICK g \in Folders, v \in Uids : <<g, v>> \in Safe(m)
        BY <2>1 DEF NothingLost, Safe, Copies
      <3>2. ~(g = f /\ v = u)
        BY <1>1, <2>4, <3>1, SafePlaces
      <3>3. <<g, v>> \in Safe(m)'
        BY <1>1, <2>2, <3>1, StaysAt
      <3>q. QED BY <3>2, <3>3
    <2>5. CASE ~box[f][u].deleted
      <3>1. <<d, uidnext[d]>> \in Safe(m)'
        BY <1>1, <2>2, <2>3, <2>5, SafePlaces
      <3>2. ~(d = f /\ uidnext[d] = u)
        BY <1>1, <2>2, <2>3
      <3>q. QED BY <3>1, <3>2
    <2>q. QED BY <2>4, <2>5
  <1>3. ASSUME pc = "store", sess' = sess, NEW S, NEW new, OtherEffect(S, new)
        PROVE  \E c \in Safe(m)' : c # <<f, u>>
    <2>1. Seen(f, u, look.epoch, look.msg)
      BY <1>3 DEF LookInv, Resting
    <2>2. sess = look.epoch /\ sess = epoch[f] /\ epoch'[f] = epoch[f]
      <3>1. epoch[f] \in Nat /\ epoch'[f] \in Nat
        BY <1>1 DEF TypeOK, MailboxOK
      <3>2. look.epoch = epoch'[f] /\ sess = look.epoch
        BY <1>1, <1>3
      <3>3. look.epoch <= epoch[f]
        BY <2>1 DEF Seen
      <3>4. epoch[f] <= epoch'[f]
        BY <1>1, <3>1 DEF Forward
      <3>q. QED BY <3>1, <3>2, <3>3, <3>4
    <2>3. u < uidnext[f]
      BY <2>1, <2>2 DEF Seen
    <2>4. box[f][u].msg = m
      <3>1. epoch[f] \in Nat /\ box'[f][u].msg = m
        BY <1>1 DEF TypeOK, MailboxOK
      <3>2. box'[f][u].msg \in {None, box[f][u].msg}
        BY <1>1, <2>2, <2>3, <3>1 DEF Forward
      <3>q. QED BY <1>1, <3>1, <3>2
    <2>5. CASE m \in new
      <3>1. PICK d \in Folders : /\ uidnext[d] \in Uids /\ box[d][uidnext[d]].msg = None
                                 /\ box'[d][uidnext[d]].msg = m /\ ~box'[d][uidnext[d]].deleted
        BY <1>3, <2>5 DEF OtherEffect
      <3>2. <<d, uidnext[d]>> \in Safe(m)'
        BY <1>1, <3>1, SafePlaces
      <3>3. ~(d = f /\ uidnext[d] = u)
        BY <1>1, <2>4, <3>1
      <3>q. QED BY <3>2, <3>3
    <2>6. CASE m \notin new
      <3>1. m \in owed /\ m \notin S /\ Stays(S)
        BY <1>3, <2>6 DEF OtherEffect
      <3>2. \E c \in Safe(m) : c # <<f, u>>
        BY <1>3, <2>2, <2>4, <3>1 DEF StoreInv
      <3>3. PICK g \in Folders, v \in Uids : <<g, v>> \in Safe(m) /\ ~(g = f /\ v = u)
        BY <3>2 DEF Safe, Copies
      <3>4. <<g, v>> \in Safe(m)'
        BY <1>1, <3>1, <3>3, StaysAt
      <3>q. QED BY <3>3, <3>4
    <2>q. QED BY <2>5, <2>6
  <1>4. UNCHANGED vars => OtherEffect({}, {})
    BY UnchangedBox DEF OtherEffect, vars
  <1>q. QED BY <1>1, <1>2, <1>3, <1>4, StoreCases, OtherCases

\* A message that was delivered, and that neither the user nor anybody else
\* disposed of, is never lost: it keeps a place where no EXPUNGE removes it.
THEOREM NoMessageIsLost == Spec => []NothingLost
  <1>1. Init => NothingLost /\ StoreInv
    BY DEF Init, NothingLost, StoreInv
  <1>q. QED
    BY <1>1, TypeInit, TypeStep, KnowledgeInit, KnowledgeStep, NothingLostStep, StoreStep,
       PTL DEF Spec

-----------------------------------------------------------------------------
(***************************************************************************)
(* MovedOnce.  While a move nobody disturbs goes on, exactly one copy of   *)
(* its message has come into the other folder; its source is marked before *)
(* the EXPUNGE, and gone when the move reports success.                    *)
(***************************************************************************)
Arrived == {v \in Present(dest) : box[dest][v].msg = had.source} \ had.at

MoveInv ==
  calm /\ had.source # None /\ dest # look.folder =>
    /\ \E w \in Uids : Arrived = {w}
    /\ pc = "expunge" /\ look.uid \in Present(look.folder)
         => box[look.folder][look.uid].deleted
    /\ pc = "ok" => look.uid \notin Present(look.folder)

\* The steps of an undisturbed move.
LEMMA CalmCases ==
  ASSUME TypeOK, [Next]_vars, calm'
  PROVE  \/ /\ UNCHANGED <<live, epoch, hasMove, look>>
            /\ \/ \E d \in Folders : MoveMessage(d) /\ Answered("ok", d) /\ Remember(d)
               \/ \E d \in Folders : MoveByCopy(d) /\ Answered("store", d) /\ Remember(d)
               \/ /\ MoveByStore /\ pc' = "expunge" /\ dest' = dest
                  /\ UNCHANGED history
               \/ /\ ExpungeFolder /\ pc' = "ok" /\ dest' = dest
                  /\ UNCHANGED history
         \/ UNCHANGED vars
  <1>1. ~Quit /\ ~NoHistory
    BY DEF Quit, NoHistory
  <1>2. CASE CommandStep
    <2>1. /\ \A d \in Folders : ~CopyMessage(d)
          /\ \A add \in BOOLEAN : ~FlagMessage(add)
          /\ ~DeleteHard /\ ~AppendMessage
          /\ \A before \in {<<>>, reads}, next \in {"files", "quote", "append", "ok"},
                d \in Folders : ~Fetch(before, next, d)
      BY <1>1 DEF CopyMessage, FlagMessage, DeleteHard, AppendMessage, Fetch, FetchOne
    <2>2. /\ \A d \in Folders : MoveMessage(d) => Answered("ok", d) /\ Remember(d)
          /\ \A d \in Folders : MoveByCopy(d) => Answered("store", d) /\ Remember(d)
      BY <1>1 DEF MoveMessage, MoveByCopy
    <2>3. /\ MoveByStore => pc' = "expunge" /\ dest' = dest /\ UNCHANGED history
          /\ ExpungeFolder => pc' = "ok" /\ dest' = dest /\ UNCHANGED history
      BY <1>1 DEF MoveByStore, ExpungeFolder, Answered
    <2>q. QED BY <1>2, <2>1, <2>2, <2>3, CommandCases
  <1>3. CASE ~CommandStep
    <2>1. /\ \A f \in Folders, u \in Uids : ~Look(f, u)
          /\ \A f \in Folders : ~FolderCreate(f) /\ ~FolderDelete(f)
          /\ \A f, g \in Folders : ~FolderRename(f, g)
          /\ \A f \in Others : ~Other(f)
          /\ ~Stop
      BY <1>1 DEF Look, FolderCreate, FolderDelete, FolderRename, FolderCommand, Other, Stop
    <2>q. QED BY <1>3, <2>1 DEF Next
  <1>q. QED BY <1>2, <1>3

\* A new UID of d with the message is all that a copy adds.
LEMMA OneArrives ==
  ASSUME TypeOK, Remember(dest'), dest' \in Folders,
         NEW w \in Uids, w \notin Present(dest'),
         box'[dest'][w].msg = had'.source, had'.source # None,
         \A v \in Uids : v # w => box'[dest'][v] = box[dest'][v]
  PROVE  Arrived' = {w}
  <1>1. had'.at = {v \in Present(dest') : box[dest'][v].msg = had'.source}
    BY DEF Remember
  <1>2. Present(dest)' = Present(dest') \cup {w}
    BY DEF Present
  <1>3. Present(dest') \subseteq Uids
    BY DEF Present
  <1>q. QED BY <1>1, <1>2, <1>3 DEF Arrived

LEMMA MoveInvStep ==
  ASSUME TypeOK, MoveInv, [Next]_vars
  PROVE  MoveInv'
  <1> SUFFICES ASSUME calm', had'.source # None, dest' # look'.folder
               PROVE  /\ \E w \in Uids : Arrived' = {w}
                      /\ pc' = "expunge" /\ look'.uid \in Present(look.folder)'
                           => box'[look'.folder][look'.uid].deleted
                      /\ pc' = "ok" => look'.uid \notin Present(look.folder)'
    BY DEF MoveInv
  <1> DEFINE f == look.folder
             u == look.uid
  <1>1. f \in Folders /\ u \in Uids /\ box \in [Folders -> [Uids -> Mail]]
    BY LookPlace DEF TypeOK, MailboxOK
  <1>2. ASSUME look' = look, NEW d \in Folders, MoveMessage(d), Answered("ok", d), Remember(d)
        PROVE  MoveInv'
    <2>1. /\ dest' = d /\ pc' = "ok" /\ d # f /\ had'.source = box[f][u].msg
          /\ UidMove(f, u, d)
      BY <1>2 DEF Answered, Remember, MoveMessage
    <2>2. u \in Present(f)
      BY <1>1, <2>1 DEF Present
    <2>3. /\ Room(d) /\ Takes(d)
          /\ box' = [box EXCEPT ![f][u] = NoMail, ![d][NewUid(d)] = box[f][u]]
      BY <2>1, <2>2 DEF UidMove
    <2>4. uidnext[d] \in Uids /\ box[d][uidnext[d]].msg = None
      BY <2>3, NextUid
    <2>5. /\ box'[d][uidnext[d]] = box[f][u] /\ box'[f][u] = NoMail
          /\ \A v \in Uids : v # uidnext[d] => box'[d][v] = box[d][v]
      BY <1>1, <2>1, <2>3, <2>4 DEF NewUid
    <2>6. Arrived' = {uidnext[d]}
      BY <1>2, <2>1, <2>4, <2>5, OneArrives DEF Present
    <2>7. u \notin Present(f)'
      BY <1>2, <2>5, MessageConstants DEF Present
    <2>q. QED BY <1>2, <2>1, <2>4, <2>6, <2>7 DEF MoveInv
  <1>3. ASSUME look' = look, UNCHANGED <<live, epoch, hasMove>>,
               NEW d \in Folders, MoveByCopy(d), Answered("store", d), Remember(d)
        PROVE  MoveInv'
    <2>1. /\ dest' = d /\ pc' = "store" /\ d # f /\ had'.source = box[f][u].msg
          /\ UidCopy(f, u, d)
      BY <1>3 DEF Answered, Remember, MoveByCopy
    <2>2. u \in Present(f)
      BY <1>1, <2>1 DEF Present
    <2>3. /\ Room(d) /\ Takes(d) /\ box' = [box EXCEPT ![d][NewUid(d)] = box[f][u]]
      BY <2>1, <2>2 DEF UidCopy
    <2>4. uidnext[d] \in Uids /\ box[d][uidnext[d]].msg = None
      BY <2>3, NextUid
    <2>5. /\ box'[d][uidnext[d]] = box[f][u]
          /\ \A v \in Uids : v # uidnext[d] => box'[d][v] = box[d][v]
      BY <1>1, <2>3, <2>4 DEF NewUid
    <2>6. Arrived' = {uidnext[d]}
      BY <1>3, <2>1, <2>4, <2>5, OneArrives DEF Present
    <2>q. QED BY <2>1, <2>4, <2>6 DEF MoveInv
  <1>4. ASSUME look' = look, dest' = dest, UNCHANGED history, MoveByStore, pc' = "expunge"
        PROVE  MoveInv'
    <2>1. MarkDeleted(f, u)
      BY <1>4 DEF MoveByStore
    <2>2. /\ u \in Present(f)' => box'[f][u].deleted
          /\ \A g \in Folders : g # f => box'[g] = box[g]
      <3>1. CASE u \in Present(f)
        <4>1. box' = [box EXCEPT ![f][u] = [box[f][u] EXCEPT !.deleted = TRUE]]
          BY <2>1, <3>1 DEF MarkDeleted, StoreFlag
        <4>2. [box[f][u] EXCEPT !.deleted = TRUE].deleted
          BY <1>1, StoredMail
        <4>q. QED BY <1>1, <4>1, <4>2
      <3>2. CASE u \notin Present(f)
        BY <1>4, <2>1, <3>2 DEF MarkDeleted, StoreFlag, Present
      <3>q. QED BY <3>1, <3>2
    <2>3. Arrived' = Arrived
      BY <1>4, <2>2, <1>1 DEF Arrived, Present, history, TypeOK, CommandOK
    <2>q. QED BY <1>4, <2>2, <2>3 DEF MoveInv, history
  <1>5. ASSUME look' = look, dest' = dest, UNCHANGED history, ExpungeFolder, pc' = "ok"
        PROVE  MoveInv'
    <2>1. pc = "expunge" /\ Expunge(f)
      BY <1>5 DEF ExpungeFolder, Later
    <2>2. /\ \A g \in Folders : g # f => box'[g] = box[g]
          /\ box'[f][u] = IF box[f][u].deleted THEN NoMail ELSE box[f][u]
      BY <1>1, <2>1 DEF Expunge
    <2>3. u \notin Present(f)'
      BY <1>1, <1>5, <2>1, <2>2, MessageConstants DEF MoveInv, Present, history
    <2>4. Arrived' = Arrived
      BY <1>5, <2>2, <1>1 DEF Arrived, Present, history, TypeOK, CommandOK
    <2>q. QED BY <1>5, <2>3, <2>4 DEF MoveInv, history
  <1>6. CASE UNCHANGED vars
    BY <1>6 DEF vars, mailbox, command, history, MoveInv, Arrived, Present
  <1>q. QED BY <1>2, <1>3, <1>4, <1>5, <1>6, CalmCases DEF MoveInv

\* A move or a trashing reported as done, while nobody else changed anything,
\* took the message from its folder and put one more copy into the other, after
\* any number of failed attempts (MovedOnce; commands_imap.go:283-286).
THEOREM MovesAreDoneOnce == Spec => []MovedOnce
  <1>1. Init => MoveInv
    BY DEF Init, MoveInv
  <1>2. TypeOK /\ MoveInv /\ [Next]_vars => MoveInv'
    BY MoveInvStep
  <1>3. MoveInv => MovedOnce
    <2>1. \A w : Cardinality({w}) = 1
      BY FS_Singleton
    <2>q. QED BY <2>1 DEF MoveInv, MovedOnce, Arrived
  <1>q. QED BY <1>1, <1>2, <1>3, TypeCorrect, PTL DEF Spec
=============================================================================
