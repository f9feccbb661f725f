------------------------------- MODULE Search -------------------------------
(***************************************************************************)
(* Searching and comparing, as basic_string and basic_string_view do it:   *)
(* the two classes have the same text.  What is searched is a window       *)
(* w = [at, len] of a block, so that _str[p] is block[at + p + 1] and what *)
(* lies around the window can be read.                                     *)
(*                                                                         *)
(* Sizes and positions are unsigned numbers of Width bits; a pointer is an *)
(* offset from _str, and adding a size to a pointer wraps round.           *)
(***************************************************************************)
EXTENDS Integers, Sequences, FiniteSetsExt

CONSTANT Width    \* bits of size_t

Modulus == 2 ^ Width
npos    == Modulus - 1
Sizes   == 0 .. npos

Unsigned(n) == n % Modulus                                            \* as a size_t
Offset(n)   == IF n >= Modulus \div 2 THEN n - Modulus ELSE n    \* as a step of a pointer

\* _str[p].  Nothing is known of what lies outside the block: it equals no character.
Unknown == -1
At(block, w, p) == IF w.at + p + 1 \in DOMAIN block THEN block[w.at + p + 1] ELSE Unknown

\* A loop that goes up or down over the offsets until the test holds.
Least(offsets)    == IF offsets = {} THEN npos ELSE Unsigned(Min(offsets))
Greatest(offsets) == IF offsets = {} THEN npos ELSE Unsigned(Max(offsets))

Matches(block, w, p, s) == \A k \in DOMAIN s : At(block, w, p + k - 1) = s[k]

-----------------------------------------------------------------------------
(* Sequences of characters                                                 *)

find(block, w, s, pos) ==
    IF pos > w.len THEN npos
    ELSE IF s = <<>> THEN pos
    ELSE Least({p \in pos .. w.len - 1 :
                    /\ At(block, w, p) = Head(s)
                    /\ w.len - p >= Len(s)
                    /\ Matches(block, w, p, s)})

\* _length - count wraps when the needle is the longer one.
Room(w, s) == Unsigned(w.len - Len(s))

rfind(block, w, s, pos) ==
    LET from == Offset(IF pos >= Room(w, s) THEN Room(w, s) ELSE pos)
    IN  Greatest({p \in 0 .. from : Matches(block, w, p, s)})

find_first_of(block, w, s, pos) ==
    IF s = <<>> THEN npos
    ELSE Least({p \in Offset(pos) .. w.len - 1 : \E k \in DOMAIN s : s[k] = At(block, w, p)})

find_first_not_of(block, w, s, pos) ==
    IF s = <<>> THEN IF pos >= w.len THEN npos ELSE pos
    ELSE Least({p \in Offset(pos) .. w.len - 1 : \A k \in DOMAIN s : s[k] # At(block, w, p)})

\* Mutant: the search starts at end().
LastAtEnd(w, pos) == Offset(IF pos >= w.len THEN w.len ELSE pos)

\* Where the loops that go down start: _length - 1 wraps when the string is empty.
LastOffset(w, pos) == Offset(IF pos >= w.len THEN Unsigned(w.len - 1) ELSE pos)

find_last_of(block, w, s, pos) ==
    IF s = <<>> THEN npos
    ELSE Greatest({p \in 0 .. LastOffset(w, pos) : \E k \in DOMAIN s : s[k] = At(block, w, p)})

find_last_not_of(block, w, s, pos) ==
    IF s = <<>> THEN IF pos >= w.len THEN Unsigned(w.len - 1) ELSE pos
    ELSE Greatest({p \in 0 .. LastOffset(w, pos) : \A k \in DOMAIN s : s[k] # At(block, w, p)})

-----------------------------------------------------------------------------
(* One character                                                           *)

find_ch(block, w, ch, pos) ==
    IF pos >= w.len THEN npos
    ELSE Least({p \in pos .. w.len - 1 : At(block, w, p) = ch})

\* The loop decrements before it looks.
rfind_ch(block, w, ch, pos) ==
    LET past == IF pos >= w.len THEN w.len ELSE pos + 1
    IN  Greatest({p \in 0 .. past - 1 : At(block, w, p) = ch})

find_first_not_of_ch(block, w, ch, pos) ==
    Least({p \in Offset(pos) .. w.len - 1 : At(block, w, p) # ch})

find_last_not_of_ch(block, w, ch, pos) ==
    Greatest({p \in 0 .. LastOffset(w, pos) : At(block, w, p) # ch})

-----------------------------------------------------------------------------
(* Comparing                                                               *)

\* traits_type::compare over the shorter length; then the lengths decide.
_compare(block, w, s) ==
    LET both == 1 .. (IF w.len < Len(s) THEN w.len ELSE Len(s))
        differ == {k \in both : At(block, w, k - 1) # s[k]}
    IN  IF differ # {}
        THEN IF At(block, w, Min(differ) - 1) < s[Min(differ)] THEN -1 ELSE 1
        ELSE IF w.len < Len(s) THEN -1 ELSE IF w.len > Len(s) THEN 1 ELSE 0

\* The part of the window from pos on, of count characters at most; pos is inside.
Part(w, pos, count) ==
    [at |-> w.at + pos, len |-> IF count > w.len - pos THEN w.len - pos ELSE count]

compare(block, w, pos, count, s) == _compare(block, Part(w, pos, count), s)
=============================================================================
