--------------------------- MODULE MCLogRegistry ---------------------------
(***************************************************************************)
(* Instances of LogRegistry for TLC: a chain of three modules, the two     *)
(* lower ones with the same local name; both threads log to the leaf, or   *)
(* only the one that changes nothing does.                                 *)
(***************************************************************************)
EXTENDS LogRegistry

CONSTANTS root, a, b, t1, t2
Names      == [m \in Mods |-> IF m = root THEN <<>> ELSE <<"m">>]
Chain      == [m \in Mods |-> IF m = root THEN Null ELSE IF m = a THEN root ELSE a]
TwoLevels  == 1..2
BothLog    == [t \in Threads |-> {b}]
OneLogs    == [t \in Threads |-> IF t = t2 THEN {b} ELSE {}]
=============================================================================
