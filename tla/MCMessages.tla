----------------------------- MODULE MCMessages -----------------------------
(***************************************************************************)
(* Instances of MessageOps for TLC.                                        *)
(***************************************************************************)
EXTENDS MessageOps, TLC

CONSTANTS inbox, trash, m1

TwoFolders == {inbox, trash}
OnlyTrash  == {trash}
OnlyInbox  == {inbox}
OneMail    == {m1}
=============================================================================
