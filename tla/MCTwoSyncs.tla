------------------------------ MODULE MCTwoSyncs ------------------------------
(***************************************************************************)
(* Small instances of TwoSyncs for TLC.                                    *)
(***************************************************************************)
EXTENDS TwoSyncs

CONSTANT a

OneFolder == {a}
None      == {}

NothingExcluded == {{}}
=============================================================================
