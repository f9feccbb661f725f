------------------------------ MODULE Numbers ------------------------------
(***************************************************************************)
(* from_chars and to_chars (from_chars.cc), for the integers of Bits bits. *)
(* A text is a sequence of characters.  A character is its value in        *)
(* _index, 0 to 35 for a digit; the others have values above.              *)
(***************************************************************************)
EXTENDS Integers, Sequences

CONSTANT Bits     \* width of the integer type

Space == 100      \* what isspace() says
Minus == 101

Unsigneds == 0 .. 2 ^ Bits - 1
MaxSigned == 2 ^ (Bits - 1) - 1
Wrap(n)   == n % 2 ^ Bits
ToSigned(n) == IF n > MaxSigned THEN n - 2 ^ Bits ELSE n

Digit(t, p, base) == p <= Len(t) /\ t[p] < base

\* Moves to the first character that is not c.
SkipSpaces(t) ==
    LET f[p \in 1 .. Len(t) + 1] == IF p <= Len(t) /\ t[p] = Space THEN f[p + 1] ELSE p IN f[1]

SkipDigits(t, from, base) ==
    LET f[p \in 1 .. Len(t) + 1] == IF Digit(t, p, base) THEN f[p + 1] ELSE p IN f[from]

\* Mutant: only the addition is tested.
ParseAddTested(t, from, base, max) ==
    LET f[p \in 1 .. Len(t) + 1, res \in Unsigneds] ==
          IF ~Digit(t, p, base) THEN [val |-> res, ptr |-> p, overflow |-> FALSE]
          ELSE IF t[p] > Wrap(max - Wrap(res * base)) THEN [val |-> max, ptr |-> SkipDigits(t, p, base), overflow |-> TRUE]
          ELSE f[p + 1, Wrap(Wrap(res * base) + t[p])]
    IN  f[from, 0]

\* _parse: each digit is tested before the product and before the sum; on overflow the
\* rest of the number is skipped.
_parse(t, from, base, max) ==
    LET f[p \in 1 .. Len(t) + 1, res \in Unsigneds] ==
          LET product == Wrap(res * base) IN
          IF ~Digit(t, p, base) THEN [val |-> res, ptr |-> p, overflow |-> FALSE]
          ELSE IF res > max \div base \/ t[p] > Wrap(max - product)
               THEN [val |-> max, ptr |-> SkipDigits(t, p, base), overflow |-> TRUE]
          ELSE f[p + 1, Wrap(product + t[p])]
    IN  f[from, 0]

\* What from_chars returns: ptr is the position after the last character used.
Result(from, r, val) ==
    IF r.ptr = from THEN [ec |-> "invalid_argument", ptr |-> 1, val |-> val]
    ELSE [ec |-> IF r.overflow THEN "result_out_of_range" ELSE "none", ptr |-> r.ptr, val |-> val]

from_chars_unsigned(t, base) ==
    LET from == SkipSpaces(t)
        r    == _parse(t, from, base, 2 ^ Bits - 1)
    IN  Result(from, r, r.val)

\* A minus sign, and a limit that is one larger.
from_chars_signed(t, base) ==
    LET start == SkipSpaces(t)
        minus == start <= Len(t) /\ t[start] = Minus
        from  == IF minus THEN start + 1 ELSE start
        r     == _parse(t, from, base, IF minus THEN MaxSigned + 1 ELSE MaxSigned)
    IN  Result(from, r, IF minus THEN ToSigned(Wrap(-r.val)) ELSE r.val)

\* _compile writes the digits backwards, the last one first, and at least one.
_compile(val, base) ==
    LET f[v \in Unsigneds] ==
          IF v \div base = 0 THEN <<v % base>> ELSE Append(f[v \div base], v % base)
    IN  f[val]

\* The local buffer: ceil(Bits * log(2) / log(base)), and one more for the sign.
BufferSize(base) == CHOOSE n \in 1 .. Bits : base ^ n >= 2 ^ Bits /\ base ^ (n - 1) < 2 ^ Bits

to_chars_unsigned(v, base) == _compile(v, base)

\* The magnitude of a negative value, computed without leaving the signed type.
to_chars_signed(v, base) ==
    IF v >= 0 THEN _compile(v, base)
    ELSE <<Minus>> \o _compile(Wrap(MaxSigned - ToSigned(Wrap(MaxSigned + v))), base)
=============================================================================
