---------------------------- MODULE MCDispatcher ----------------------------
(***************************************************************************)
(* An instance of Dispatcher for TLC: two listeners that receive the event *)
(* and a simple one, registered up to four times together.                 *)
(***************************************************************************)
EXTENDS Dispatcher, TLC

CONSTANTS r1, r2, s1
SimpleOnes == {s1}
Alike == Permutations(Nodes) \cup Permutations({r1, r2})
=============================================================================
