------------------------------ MODULE MCRefcnt ------------------------------
(***************************************************************************)
(* An instance of Refcnt for TLC: plain objects, and one with on_delete.   *)
(***************************************************************************)
EXTENDS Refcnt, TLC

CONSTANTS o1, o2, d
WithOnDelete == {d}
Alike == Permutations(Objects \ Refcntd) \cup Permutations(Vars) \cup Permutations(Weaks) \cup Permutations(Storages)
=============================================================================
