----------------------------- MODULE StringView -----------------------------
(***************************************************************************)
(* Views over one block of characters (basic_string_view.h): what narrows  *)
(* and exchanges them, what a search of one for the other finds, and the   *)
(* number that the text of one stands for.                                 *)
(***************************************************************************)
EXTENDS Search, Numbers

CONSTANTS Blocks,    \* the texts that are viewed
          Views,
          Bases      \* of numbers, between 2 and 36

ASSUME ViewAssumption ==
    /\ Width \in Nat \ {0} /\ Bits \in Nat \ {0}
    /\ Bases \subseteq 2 .. 36
    /\ \A b \in Blocks : 2 * Len(b) < Modulus

VARIABLES block, view

vars == <<block, view>>

Whole == [at |-> 0, len |-> Len(block)]

Init == block \in Blocks /\ view = [a \in Views |-> Whole]

RemovePrefix(a, n) ==
    /\ n <= view[a].len
    /\ view' = [view EXCEPT ![a] = [at |-> @.at + n, len |-> @.len - n]]
    /\ UNCHANGED block

RemoveSuffix(a, n) ==
    /\ n <= view[a].len
    /\ view' = [view EXCEPT ![a].len = @ - n]
    /\ UNCHANGED block

\* a = b.substr(pos, count)
Substr(a, b, pos, count) ==
    /\ pos <= view[b].len
    /\ view' = [view EXCEPT ![a] = Part(view[b], pos, count)]
    /\ UNCHANGED block

Swap(a, b) ==
    /\ view' = [view EXCEPT ![a] = view[b], ![b] = view[a]]
    /\ UNCHANGED block

Next ==
    \E a \in Views :
        \/ \E n \in Sizes : RemovePrefix(a, n) \/ RemoveSuffix(a, n)
        \/ \E b \in Views :
              \/ Swap(a, b)
              \/ \E pos, count \in Sizes : Substr(a, b, pos, count)

Spec == Init /\ [][Next]_vars

-----------------------------------------------------------------------------
(* Properties                                                              *)

Text(a) == SubSeq(block, view[a].at + 1, view[a].at + view[a].len)

Occurs(t, s, p) == p + Len(s) <= Len(t) /\ SubSeq(t, p + 1, p + Len(s)) = s
In(t, p, chars) == t[p + 1] \in chars
CharsOf(s)      == {s[k] : k \in DOMAIN s}

Before(t, s) ==
    \E k \in 1 .. Len(s) : /\ k <= Len(t) + 1
                           /\ SubSeq(t, 1, k - 1) = SubSeq(s, 1, k - 1)
                           /\ k <= Len(t) => t[k] < s[k]

\* Every search finds the position that std::string defines, for every position to
\* start from, empty texts and needles longer than the text included, and whatever lies
\* around the window ("the same API", doc/string.md:2).  Two kinds of calls are left
\* out: those where the arithmetic of the code wraps round.
SearchAgrees ==
    \A a, b \in Views, pos \in Sizes :
        LET w == view[a]
            t == Text(a)
            s == Text(b)
            all == 0 .. Len(t) - 1
            up == {p \in all : p >= pos}
            down == {p \in all : p <= pos}
            wraps_back == Len(s) > Len(t) /\ pos < Room(w, s)
            wraps_up == 2 * pos >= Modulus
        IN
        /\ find(block, w, s, pos) = Least({p \in 0 .. Len(t) : p >= pos /\ Occurs(t, s, p)})
        /\ ~wraps_back =>
              rfind(block, w, s, pos) = Greatest({p \in 0 .. Len(t) : p <= pos /\ Occurs(t, s, p)})
        /\ ~wraps_up =>
              /\ find_first_of(block, w, s, pos) = Least({p \in up : In(t, p, CharsOf(s))})
              /\ find_first_not_of(block, w, s, pos) = Least({p \in up : ~In(t, p, CharsOf(s))})
              /\ s # <<>> => find_first_not_of_ch(block, w, s[1], pos) = Least({p \in up : ~In(t, p, {s[1]})})
        /\ find_last_of(block, w, s, pos) = Greatest({p \in down : In(t, p, CharsOf(s))})
        /\ find_last_not_of(block, w, s, pos) = Greatest({p \in down : ~In(t, p, CharsOf(s))})
        /\ s # <<>> =>
              /\ find_ch(block, w, s[1], pos) = Least({p \in up : In(t, p, {s[1]})})
              /\ rfind_ch(block, w, s[1], pos) = Greatest({p \in down : In(t, p, {s[1]})})
              /\ find_last_not_of_ch(block, w, s[1], pos) = Greatest({p \in down : ~In(t, p, {s[1]})})
        /\ pos <= Len(t) => \A count \in Sizes :
              LET part == SubSeq(t, pos + 1, IF pos + count > Len(t) THEN Len(t) ELSE pos + count) IN
              compare(block, w, pos, count, s) = IF Before(part, s) THEN -1 ELSE IF part = s THEN 0 ELSE 1

\* The number that a run of digits stands for, without bounds.
Worth(t, base) ==
    LET f[k \in 0 .. Len(t)] == IF k = 0 THEN 0 ELSE f[k - 1] * base + t[k] IN f[Len(t)]

\* What from_chars should return for the text t: the digits after any spaces and a
\* minus sign, clamped to the type, and where they end.
Reads(r, t, base, least, greatest) ==
    LET start == SkipSpaces(t)
        minus == least < 0 /\ start <= Len(t) /\ t[start] = Minus
        from  == IF minus THEN start + 1 ELSE start
        past  == Min({p \in from .. Len(t) + 1 : ~Digit(t, p, base)})
        n     == (IF minus THEN -1 ELSE 1) * Worth(SubSeq(t, from, past - 1), base)
    IN  IF past = from THEN r.ec = "invalid_argument" /\ r.ptr = 1
        ELSE /\ r.ptr = past
             /\ r.ec = IF n \in least .. greatest THEN "none" ELSE "result_out_of_range"
             /\ r.val = IF n < least THEN least ELSE IF n > greatest THEN greatest ELSE n

\* from_chars reads the number the text stands for, up to its last digit, and finds
\* every overflow, although it computes in the type itself; what it read is written by
\* to_chars in its local buffer, and read again is the same (from_chars.cc).
NumbersAgree ==
    \A a \in Views, base \in Bases :
        LET t == Text(a)
            u == from_chars_unsigned(t, base)
            s == from_chars_signed(t, base)
            written   == to_chars_unsigned(u.val, base)
            written_s == to_chars_signed(s.val, base)
        IN
        /\ Reads(u, t, base, 0, 2 ^ Bits - 1)
        /\ Reads(s, t, base, -MaxSigned - 1, MaxSigned)
        /\ Len(written) <= BufferSize(base)
        /\ from_chars_unsigned(written, base) = [ec |-> "none", ptr |-> Len(written) + 1, val |-> u.val]
        /\ Len(written_s) <= BufferSize(base) + 1
        /\ from_chars_signed(written_s, base) = [ec |-> "none", ptr |-> Len(written_s) + 1, val |-> s.val]
=============================================================================
