---------------------------- MODULE MCErrorCode ----------------------------
(***************************************************************************)
(* Numbers of four bits in bytes of two: 0 takes one byte, the least       *)
(* number takes two, like a number beyond 63 in the code.  Nothing tells   *)
(* the objects, the Data objects or the categories apart.                  *)
(***************************************************************************)
EXTENDS ErrorCode, TLC

MCValues == {0, -8}
Alike == Permutations(Objs) \cup Permutations(Datas) \cup Permutations(Categories)
=============================================================================
