---------------------------- MODULE MCCowString ----------------------------
(***************************************************************************)
(* Instances of CowString for TLC: two or three string objects, literals   *)
(* of up to two characters, an SSO buffer of one.                          *)
(***************************************************************************)
EXTENDS CowString, TLC

CONSTANTS x, y, z, tmp, e1, e2, empty, a, aa, ba

MCLitText ==
  [l \in Literals |-> CASE l = empty -> <<>>
                        [] l = a     -> <<"a">>
                        [] l = ba    -> <<"b", "a">>
                        [] l = aa    -> <<"a", "a">>]

OneAllocator  == [s \in Objs |-> "A"]
TwoAllocators == [s \in Objs |-> IF s = x THEN "B" ELSE "A"]

WholeAndParts == {<<0, 9>>, <<1, 1>>, <<1, 9>>, <<1, 0>>}
OneAlike    == Permutations({x, y})
OthersAlike == Permutations({y, z}) \cup Permutations({e1, e2})

Whole == {<<0, 9>>, <<1, 9>>}

\* What the theorems on values assume holds of every instance.
ASSUME ExactHere == Exact
=============================================================================
