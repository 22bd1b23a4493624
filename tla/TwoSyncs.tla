------------------------------ MODULE TwoSyncs ------------------------------
(***************************************************************************)
(* Two "mailotron index sync" processes, say cron's and the user's, on the *)
(* database of one account.  Nothing keeps them apart: a transaction is    *)
(* atomic (a writer waits for the other's, busy_timeout), but what a run   *)
(* read before one is not read again in it.  The first process is IndexSync*)
(* itself, the second an instance of it on the same server and database.   *)
(***************************************************************************)
EXTENDS IndexSync

VARIABLES pc2, exclude2, wanted2, queue2, cur2, sel2, uids2, prev2, known2,
          byUID2, mseen2, todo2, large2, sess2, buf2, gone2, calm2,
          alone      \* no step of the second process since the first started

Second == INSTANCE IndexSync WITH
  pc <- pc2, exclude <- exclude2, wanted <- wanted2, queue <- queue2,
  cur <- cur2, sel <- sel2, uids <- uids2, prev <- prev2, known <- known2,
  byUID <- byUID2, mseen <- mseen2, todo <- todo2, large <- large2,
  sess <- sess2, buf <- buf2, gone <- gone2, calm <- calm2

local1 == <<ofRun, fetch, gone, calm>>
local2 == <<pc2, exclude2, wanted2, queue2, cur2, sel2, uids2, prev2, known2,
            byUID2, mseen2, todo2, large2, sess2, buf2, gone2, calm2>>

BothInit == Init /\ Second!RunInit /\ alone = TRUE

Begin ==
  /\ \E x \in Excludes : Start(x)
  /\ alone' = (pc2 \in Resting)
  /\ UNCHANGED local2

FirstRuns == RunStep /\ UNCHANGED <<local2, alone>>

FirstStops == Stop /\ UNCHANGED <<local2, alone>>

SecondActs ==
  /\ \/ \E x \in Excludes : Second!Start(x)
     \/ Second!RunStep
     \/ Second!Stop
  /\ alone' = FALSE
  /\ UNCHANGED local1

World ==
  /\ \E f \in Folders : Other(f) /\ calm2' = calm2 \ {f}
  /\ UNCHANGED <<pc2, exclude2, wanted2, queue2, cur2, sel2, uids2, prev2,
                 known2, byUID2, mseen2, todo2, large2, sess2, buf2, gone2,
                 alone>>

BothNext == Begin \/ FirstRuns \/ FirstStops \/ SecondActs \/ World

BothSpec == BothInit /\ [][BothNext]_<<vars, local2, alone>>
-----------------------------------------------------------------------------
\* Whatever two overlapping runs left behind, a run that overlaps no other
\* brings the folders nobody changes meanwhile in line again: their UIDs and
\* flags, and what is stored under a UID too if the folder was never created
\* anew.  (Where it was, two runs may have stored an old message under the new
\* UIDVALIDITY; Exact includes that none is.)
HealedAlone ==
  alone /\ pc = "done" =>
    \A f \in wanted \cap calm :
      /\ label[f] = epoch[f] /\ Rows(f) = msgs[f] /\ dseen[f] = seen[f]
      /\ epoch[f] = 1 => Exact(f)
=============================================================================
