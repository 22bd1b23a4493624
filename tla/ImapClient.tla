----------------------------- MODULE ImapClient -----------------------------
(***************************************************************************)
(* The bulk-read commands of internal/imapclient/backup.go that backup and *)
(* index share.  Each of them SELECTs its folder again, so the mailbox may *)
(* have changed, or been replaced, between one command and the next.       *)
(*                                                                         *)
(* SelectInfo takes one snapshot of the folder: the UIDs it enumerates by  *)
(* sequence number are those of the SELECT.  FetchMeta and FetchRaw go     *)
(* through their UIDs in chunks; "sess" is the epoch their SELECT found,   *)
(* NoSession before it.  The SELECT is taken together with the first chunk *)
(* (a change between the two is a change before both).                     *)
(***************************************************************************)
EXTENDS ImapServer

CONSTANT FetchChunk      \* UIDs per FETCH (fetchChunk, 50 in the code)

ASSUME ChunkAssumption == FetchChunk \in Nat \ {0}

NoSession == 0

\* SELECT of folder f succeeds.
CanSelect(f) == f \in live \ Noselect

\* What SelectInfo returns.
SelectInfo(f) == [uidValidity |-> epoch[f], uids |-> msgs[f]]

\* Seeded fault: a chunk ends one message early.
ShortChunk(todo) ==
  {u \in todo : Cardinality({v \in todo : v < u}) < FetchChunk - 1}

\* The next chunk of todo: its FetchChunk lowest UIDs.
NextChunk(todo) ==
  {u \in todo : Cardinality({v \in todo : v < u}) < FetchChunk}

\* A FETCH (the first of a command after its SELECT) succeeds.
CanFetch(f, sess) == CanSelect(f) /\ sess \in {NoSession, epoch[f]}

\* Seeded fault: the FETCH asks for every UID of the folder.
AnsweredAll(f, chunk) == msgs[f]

\* The UIDs of chunk the server answers for: expunged ones are left out.
Answered(f, chunk) == chunk \cap msgs[f]
=============================================================================
