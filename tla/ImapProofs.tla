----------------------------- MODULE ImapProofs -----------------------------
(***************************************************************************)
(* What the proofs about the users of ImapClient need of the server.       *)
(***************************************************************************)
EXTENDS ImapClient, TLAPS

\* What the assumptions on the constants say of the sets built from them.
LEMMA ServerConstants ==
  /\ MaxUid \in Nat
  /\ MaxEpoch \in Nat \ {0}
  /\ Uids \subseteq Nat
  /\ Epochs \subseteq Nat \ {0}
  /\ \A e \in Epochs : e \in 0 .. MaxEpoch
BY ServerAssumption DEF Uids, Epochs

\* Other clients keep the server's own invariant.
LEMMA ServerStep ==
  ASSUME ServerTypeOK, NEW f \in Folders, OtherClient(f)
  PROVE  ServerTypeOK'
<1> USE ServerConstants DEF ServerTypeOK
<1>1. CASE Deliver(f)
  <2> USE <1>1 DEF Deliver
  <2>1. uidnext[f] \in Uids
    BY DEF Uids
  <2>2. \A g \in Folders : /\ seen'[g] \subseteq msgs'[g]
                           /\ \A u \in msgs'[g] : u < uidnext'[g]
                           /\ g \notin live' \ Noselect => msgs'[g] = {}
    BY <2>1 DEF Uids
  <2> QED BY <2>1, <2>2 DEF Uids
<1>2. ASSUME NEW u \in Uids, ExpungeUid(f, u)
      PROVE  ServerTypeOK'
  BY <1>2 DEF ExpungeUid
<1>3. ASSUME NEW u \in Uids, ToggleSeen(f, u)
      PROVE  ServerTypeOK'
  BY <1>3 DEF ToggleSeen
<1>4. CASE DropFolder(f)
  BY <1>4 DEF DropFolder
<1>5. CASE RecreateFolder(f)
  <2> USE <1>5 DEF RecreateFolder
  <2>1. epoch' \in [Folders -> Epochs]
    BY DEF Epochs
  <2>2. uidnext' \in [Folders -> 1 .. MaxUid + 1]
    OBVIOUS
  <2> QED BY <2>1, <2>2
<1> QED BY <1>1, <1>2, <1>3, <1>4, <1>5 DEF OtherClient

\* A UIDVALIDITY never goes down.
LEMMA EpochGrows ==
  ASSUME ServerTypeOK, NEW f \in Folders, OtherClient(f)
  PROVE  \A g \in Folders : epoch[g] <= epoch'[g]
BY ServerConstants DEF ServerTypeOK, OtherClient, Deliver, ExpungeUid, ToggleSeen,
                   DropFolder, RecreateFolder, Epochs

\* A chunk is part of what is still to be fetched.
LEMMA ChunkSubset == \A S : NextChunk(S) \subseteq S
BY DEF NextChunk

\* Other clients change one folder at a time.
LEMMA OneFolderChanges ==
  ASSUME ServerTypeOK, NEW f \in Folders, OtherClient(f)
  PROVE  \A g \in Folders \ {f} :
           /\ epoch'[g] = epoch[g] /\ uidnext'[g] = uidnext[g]
           /\ msgs'[g] = msgs[g] /\ seen'[g] = seen[g]
           /\ g \in live <=> g \in live'
BY DEF ServerTypeOK, OtherClient, Deliver, ExpungeUid, ToggleSeen, DropFolder,
       RecreateFolder
=============================================================================
