------------------------------ MODULE Listing ------------------------------
(***************************************************************************)
(* message list and message search: one folder is listed (ListMessages),   *)
(* or every selectable one, and of all found the newest are shown          *)
(* (SearchAll).  The commands SELECT, SEARCH and FETCH are answered one by *)
(* one, and between them messages arrive and disappear.                    *)
(*                                                                         *)
(* A message is known by its folder and UID; its date is what its sender   *)
(* wrote into it, which need not follow the order of arrival: a message    *)
(* that was moved or restored gets a new UID and keeps its date.           *)
(***************************************************************************)
EXTENDS Integers, Sequences, FiniteSets, SequencesExt, Ordering

CONSTANTS
  Boxes,        \* the selectable folders
  MaxMsgUid,    \* bound on UIDs
  Days,         \* the dates of messages
  Answers,      \* <<folder, UID>> of the messages that meet the criteria
  ListLimits    \* the values of --limit; 0: no limit

ASSUME ListingAssumption ==
  /\ IsFiniteSet(Boxes)
  /\ MaxMsgUid \in Nat /\ Days \subseteq Nat \ {0} /\ ListLimits \subseteq Nat

MsgUids == 1..MaxMsgUid
Gone == 0

VARIABLES
  box,      \* box[f][u]: the date of message u of f, or Gone
  uidnext,  \* uidnext[f]: the UID the next message of f will have
  asked,    \* crit: whether a criterion is given; in: the folders; all: SearchAll; limit
  stage,    \* where the command stands
  folders,  \* the folders yet to be listed, in the order of LIST
  numSet,   \* the messages to FETCH from the first of them
  shown,    \* the messages found so far, then those shown
  \* auxiliary
  stayed,   \* the messages that were there from the beginning
  expunged  \* some are not there any more

mails == <<box, uidnext>>
listingVars == <<mails, asked, stage, folders, numSet, shown, stayed, expunged>>

Message == [box : Boxes, uid : MsgUids, date : Days]
Nobody  == [crit |-> FALSE, in |-> {}, all |-> FALSE, limit |-> 0]

ListingTypeOK ==
  /\ box \in [Boxes -> [MsgUids -> Days \cup {Gone}]]
  /\ uidnext \in [Boxes -> 1..(MaxMsgUid + 1)]
  /\ asked \in [crit : BOOLEAN, in : SUBSET Boxes, all : BOOLEAN, limit : ListLimits \cup {0}]
  /\ stage \in {"start", "select", "search", "fetch", "merge", "done", "error"}
  /\ folders \in Seq(Boxes) /\ numSet \subseteq MsgUids
  /\ stage \in {"search", "fetch"} => folders # <<>>
  /\ shown \in Seq(Message)
  /\ stayed \subseteq Boxes \X MsgUids /\ expunged \in BOOLEAN

ListingInit ==
  /\ box = [f \in Boxes |-> [u \in MsgUids |-> Gone]]
  /\ uidnext = [f \in Boxes |-> 1]
  /\ asked = Nobody /\ stage = "start"
  /\ folders = <<>> /\ numSet = {} /\ shown = <<>>
  /\ stayed = {} /\ expunged = FALSE

-----------------------------------------------------------------------------
In(f) == {u \in MsgUids : box[f][u] # Gone}

\* A user lists one folder or all, whatever they hold.
StartListing ==
  /\ stage = "start"
  /\ \E crit \in BOOLEAN, limit \in ListLimits :
       \/ /\ asked' = [crit |-> crit, in |-> Boxes, all |-> TRUE, limit |-> limit]
          /\ folders' = SetToSeq(Boxes)
       \/ \E f \in Boxes :
            /\ asked' = [crit |-> crit, in |-> {f}, all |-> FALSE, limit |-> limit]
            /\ folders' = <<f>>
  /\ uidnext' \in {n \in [Boxes -> 1..(MaxMsgUid + 1)] : \A f \in Boxes \ asked'.in : n[f] = 1}
  /\ box' \in {c \in [Boxes -> [MsgUids -> Days \cup {Gone}]] :
                 \A f \in Boxes, u \in MsgUids : c[f][u] # Gone <=> u < uidnext'[f]}
  /\ stayed' = {m \in Boxes \X MsgUids : box'[m[1]][m[2]] # Gone}
  /\ stage' = IF folders' = <<>> THEN "merge" ELSE "select"
  /\ UNCHANGED <<numSet, shown, expunged>>

\* Seeded fault: the cut keeps the smallest.
Oldest(S, n) ==
  IF n = 0 THEN S ELSE {u \in S : Cardinality({v \in S : v < u}) < n}

\* The n largest of a set of UIDs; all of them for 0.
Newest(S, n) ==
  IF n = 0 THEN S ELSE {u \in S : Cardinality({v \in S : v > u}) < n}

Cut(S) == Newest(S, asked.limit)

\* The next folder, if there is one.
NextFolder ==
  /\ folders' = Tail(folders) /\ numSet' = {}
  /\ stage' = IF Tail(folders) = <<>> THEN "merge" ELSE "select"

\* SELECT.  Without a criterion the last messages of the folder are fetched by
\* their numbers, which the server keeps until the FETCH is answered.
ListSelect ==
  /\ stage = "select"
  /\ IF asked.crit
     THEN /\ stage' = "search" /\ UNCHANGED <<folders, numSet>>
     ELSE IF In(Head(folders)) = {}
     THEN NextFolder
     ELSE /\ numSet' = Cut(In(Head(folders)))
          /\ stage' = "fetch"
          /\ UNCHANGED folders
  /\ UNCHANGED <<mails, asked, shown, stayed, expunged>>

\* SEARCH
ListSearch ==
  /\ stage = "search"
  /\ LET f == Head(folders)
         uids == {u \in In(f) : <<f, u>> \in Answers}
     IN  IF uids = {}
         THEN NextFolder
         ELSE /\ numSet' = Cut(uids)
              /\ stage' = "fetch"
              /\ UNCHANGED folders
  /\ UNCHANGED <<mails, asked, shown, stayed, expunged>>

ByUid == {p \in MsgUids \X MsgUids : p[1] < p[2]}

\* FETCH: the summaries of those still there, by UID.
ListFetch ==
  /\ stage = "fetch"
  /\ LET f == Head(folders)
         uids == Arranged(numSet \cap In(f), ByUid)
     IN  shown' = shown \o [i \in DOMAIN uids |->
                              [box |-> f, uid |-> uids[i], date |-> box[f][uids[i]]]]
  /\ NextFolder
  /\ UNCHANGED <<mails, asked, stayed, expunged>>

\* SearchAll sorts what it has by date, stably, and keeps the end.
Earlier(s) ==
  {p \in (DOMAIN s) \X (DOMAIN s) :
     \/ s[p[1]].date < s[p[2]].date
     \/ s[p[1]].date = s[p[2]].date /\ p[1] < p[2]}

Sorted(s) ==
  LET order == Arranged(DOMAIN s, Earlier(s))
  IN  [i \in DOMAIN s |-> s[order[i]]]

Merge ==
  /\ stage = "merge"
  /\ shown' = IF ~asked.all THEN shown
              ELSE LET n == Len(shown) - asked.limit
                   IN  IF asked.limit > 0 /\ n > 0
                       THEN SubSeq(Sorted(shown), n + 1, Len(shown))
                       ELSE Sorted(shown)
  /\ stage' = "done"
  /\ UNCHANGED <<mails, asked, folders, numSet, stayed, expunged>>

\* The server refuses, or the connection breaks: nothing is shown.
ListFails ==
  /\ stage \in {"select", "search", "fetch"}
  /\ stage' = "error" /\ folders' = <<>> /\ numSet' = {} /\ shown' = <<>>
  /\ UNCHANGED <<mails, asked, stayed, expunged>>

-----------------------------------------------------------------------------
Running == stage \in {"select", "search", "fetch", "merge"}

\* A message arrives; it may bear any date.
Arrive(f, d) ==
  /\ Running
  /\ f \in asked.in /\ uidnext[f] \in MsgUids
  /\ box' = [box EXCEPT ![f][uidnext[f]] = d]
  /\ uidnext' = [uidnext EXCEPT ![f] = @ + 1]
  /\ UNCHANGED <<asked, stage, folders, numSet, shown, stayed, expunged>>

Disappear(f, u) ==
  /\ Running /\ ~expunged
  /\ box[f][u] # Gone
  /\ box' = [box EXCEPT ![f][u] = Gone]
  /\ stayed' = stayed \ {<<f, u>>} /\ expunged' = TRUE
  /\ UNCHANGED <<uidnext, asked, stage, folders, numSet, shown>>

ListingNext ==
  \/ StartListing \/ ListSelect \/ ListSearch \/ ListFetch \/ Merge \/ ListFails
  \/ \E f \in Boxes : \/ \E d \in Days : Arrive(f, d)
                      \/ \E u \in MsgUids : Disappear(f, u)

-----------------------------------------------------------------------------
(***************************************************************************)
(* Properties.                                                             *)
(***************************************************************************)
Wanted(f, u) ==
  /\ <<f, u>> \in stayed
  /\ asked.crit => <<f, u>> \in Answers
  /\ f \in asked.in

Shows(f, u) == \E i \in DOMAIN shown : shown[i].box = f /\ shown[i].uid = u

\* Messages of one folder are dated in the order of their UIDs.
InOrder ==
  \A f \in Boxes : \A u, v \in In(f) : u < v => box[f][u] <= box[f][v]

\* A message that is left out makes room for as many that are no older.
LeftOutForNewer ==
  \A f \in Boxes, u \in MsgUids : Wanted(f, u) /\ ~Shows(f, u) =>
    /\ asked.limit > 0 /\ Len(shown) = asked.limit
    /\ \A i \in DOMAIN shown : shown[i].date >= box[f][u]

\* A listing shows the newest messages overall, a search oldest first, if
\* each folder is in the order of the dates; messages that arrive meanwhile
\* push none out, and without a limit none of those that stayed is missed, even
\* while others disappear (search.go:10-11).
NewestShown ==
  stage = "done" =>
    /\ InOrder /\ (expunged => asked.limit = 0) => LeftOutForNewer
    /\ asked.all => \A i, j \in DOMAIN shown : i < j => shown[i].date <= shown[j].date
    /\ \A i, j \in DOMAIN shown : shown[i] = shown[j] => i = j
=============================================================================
