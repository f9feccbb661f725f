---------------------------- MODULE MCStringView ----------------------------
(***************************************************************************)
(* All texts of up to three characters, three of them digits, and longer   *)
(* texts of digits with something before them.                             *)
(***************************************************************************)
EXTENDS StringView, SequencesExt, TLC

Chars == {0, 1, 2, Space, Minus}
Longer == {<<c, d>> \o s : c \in {0, 1, Minus}, d \in {1, Minus}, s \in [1 .. 2 -> {0, 1}]}

MCBlocks == SeqOf(Chars, 3) \cup Longer
Alike == Permutations(Views)
=============================================================================
