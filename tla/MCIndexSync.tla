----------------------------- MODULE MCIndexSync -----------------------------
(***************************************************************************)
(* Small instances of IndexSync for TLC.                                   *)
(***************************************************************************)
EXTENDS IndexSync

CONSTANT a

OneFolder == {a}
None      == {}

MaybeA == {{}, {a}}
=============================================================================
