---------------------------- MODULE MCOwningList ----------------------------
(***************************************************************************)
(* An instance of OwningList for TLC: up to four nodes, two values, two    *)
(* forward iterators and a reverse one.  Which node an allocation returns  *)
(* does not matter, nor which forward iterator is which.                   *)
(***************************************************************************)
EXTENDS OwningList, TLC

CONSTANTS a, b
OneOrTwo == {<<a>>, <<b, a>>}
NodesAlike == Permutations(Nodes) \cup Permutations(Fwd)
=============================================================================
