----------------------------- MODULE MCRestore -----------------------------
(***************************************************************************)
(* Small instances of Restore for TLC.  The backups have one message in    *)
(* folder b and up to two in folder a.                                     *)
(***************************************************************************)
EXTENDS Restore

CONSTANTS a, b, m, n

TwoFolders == {a, b}
TwoMids    == {m, n}
AllOrB     == {{}, {b}}

Good(id) == [mid |-> id, file |-> "whole"]
Cut(id)  == [mid |-> id, file |-> "torn"]
Bad(id)  == [mid |-> id, file |-> "none"]

\* A backup with the entries s in folder a, read without error.
Backup(s) ==
  [readable |-> TRUE, refs |-> TwoFolders, indexed |-> TwoFolders,
   entries |-> [f \in TwoFolders |-> IF f = a THEN s ELSE <<Good(m)>>]]

\* Two different messages, twice the same, twice one without Message-ID, one
\* of each, a missing file, the same once torn; a torn index, a torn manifest, a
\* scoped manifest.
Backups ==
  {Backup(s) : s \in {<<Good(m), Good(n)>>, <<Good(m), Good(m)>>,
                      <<Good(NoMid), Good(NoMid)>>, <<Good(NoMid), Good(m)>>,
                      <<Good(m), Bad(NoMid)>>, <<Cut(m), Good(m)>>,
                      <<>>}}
  \cup {[Backup(<<Good(m)>>) EXCEPT !.indexed = {a}],
        [Backup(<<Good(m)>>) EXCEPT !.readable = FALSE],
        [Backup(<<Good(m)>>) EXCEPT !.refs = {a}]}

OthersPutN == {<<a, n>>}

OneBackup == {Backup(<<Good(m)>>)}
=============================================================================
