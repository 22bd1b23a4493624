------------------------------ MODULE Ordering ------------------------------
(***************************************************************************)
(* What the sorting of the standard library and of SQLite does: the        *)
(* elements of a set are put in a row.  An order is the set of the pairs   *)
(* of which the first element comes before the second.                     *)
(***************************************************************************)
EXTENDS Integers, FiniteSets

\* The elements of S that come before x.
Ahead(x, S, R) == {y \in S : <<y, x>> \in R}

\* S in a strict total order R: each place goes to the element with as many
\* ahead of it.
Arranged(S, R) ==
  [n \in 1..Cardinality(S) |->
     CHOOSE x \in S : Cardinality(Ahead(x, S, R)) = n - 1]
=============================================================================
