------------------------------- MODULE VarInt -------------------------------
(***************************************************************************)
(* Variable length integers and the stack of them (varint.h).              *)
(*                                                                         *)
(* A byte holds Bits bits of a number and one bit that says that more      *)
(* bytes follow: 7 and 1 in the code.  A number has Width bits, 32 in the  *)
(* code.  Smaller ones keep every case: numbers of one byte, of several,   *)
(* and a last byte that is not filled.                                     *)
(***************************************************************************)
EXTENDS Integers, Sequences

CONSTANTS Bits, Width

ASSUME VarIntAssumption == Bits \in Nat \ {0} /\ Width \in Nat /\ Width > Bits

More  == 2 ^ Bits          \* 0x80; the low bits of a byte are % More
Uints == 0 .. 2 ^ Width - 1
Ints  == -(2 ^ (Width - 1)) .. 2 ^ (Width - 1) - 1
Bytes == 0 .. 2 * More - 1

follows(byte) == byte >= More

varint_encode[i \in Uints] ==
    IF i > More - 1 THEN <<More + (i % More)>> \o varint_encode[i \div More] ELSE <<i>>

\* Bytes are added up from the lowest; the sum is a uint32_t.
_varint_decode[s \in Seq(Bytes)] ==
    IF ~follows(s[1]) THEN s[1] % More
    ELSE ((s[1] % More) + More * _varint_decode[Tail(s)]) % 2 ^ Width

\* Mutant: no ZigZag, the bits of a negative number are kept as they are.
PlainBits(i) == varint_encode[i % 2 ^ Width]

\* (i << 1) ^ (i >> 31): the sign moves to the lowest bit.
varint_encode_s(i) == varint_encode[IF i >= 0 THEN 2 * i ELSE -2 * i - 1]

varint_decode_s(s) ==
    LET u == _varint_decode[s] IN IF u % 2 = 0 THEN u \div 2 ELSE -(u \div 2) - 1

-----------------------------------------------------------------------------
(* VarIntStack: the newest number is at the front of the storage.          *)

size_of_first(s) ==
    IF \E k \in DOMAIN s : ~follows(s[k])
    THEN CHOOSE k \in DOMAIN s : ~follows(s[k]) /\ \A j \in 1 .. k - 1 : follows(s[j])
    ELSE Len(s) + 1

push(s, i) == varint_encode_s(i) \o s
pop(s)     == SubSeq(s, size_of_first(s) + 1, Len(s))
top(s)     == varint_decode_s(SubSeq(s, 1, size_of_first(s)))
size(s)    == Len(SelectSeq(s, LAMBDA byte : ~follows(byte)))

\* What an iterator meets from begin() to end(): it decodes without a bound.
elements[s \in Seq(Bytes)] ==
    IF s = <<>> THEN <<>> ELSE <<varint_decode_s(s)>> \o elements[pop(s)]
=============================================================================
