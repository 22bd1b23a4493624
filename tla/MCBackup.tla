------------------------------ MODULE MCBackup ------------------------------
(***************************************************************************)
(* Small instances of Backup for TLC.                                      *)
(***************************************************************************)
EXTENDS Backup

CONSTANTS a, b

OneFolder  == {a}
TwoFolders == {a, b}
None       == {}

AnyMode  == BOOLEAN
Unscoped == {{}}
AllOrA   == {{}, {a}}
=============================================================================
