------------------------------ MODULE MCStore ------------------------------
(***************************************************************************)
(* Instances of Store for TLC.                                             *)
(***************************************************************************)
EXTENDS Store, TLC

CONSTANTS t1, s1, s2

OneTemplate   == {t1}
TwoSignatures == {s1, s2}
Elsewhere     == {ConfigYaml}
Defaults      == <<t1, s1>>

\* The user's account names a template and a signature, and a default is set;
\* what is shipped has defaults only.
Written ==
  {[accTemplate |-> t1, accSignature |-> s2, template |-> NoName, signature |-> s1]}
=============================================================================
