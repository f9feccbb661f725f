---------------------------- MODULE ErrorValues ----------------------------
(***************************************************************************)
(* What an ErrorCode is to its user: a value, the list of the codes it     *)
(* holds with the newest first, and "the usual value type as               *)
(* std::error_code" (doc/error.md:101): an operation through one object    *)
(* changes that object only.                                               *)
(***************************************************************************)
EXTENDS Integers, Sequences

CONSTANTS Objs, Codes

VARIABLE val     \* val[x]: the codes of x, none when there is no error

Init == val = [x \in Objs |-> <<>>]

Assign(x, list) == val' = [val EXCEPT ![x] = list]

Clear(x) == Assign(x, <<>>)

Copy(x, y) == Assign(x, val[y])

\* A move leaves in y what was in x.
Swap(x, y) == val' = [val EXCEPT ![x] = val[y], ![y] = val[x]]

Wrap(x, c, y) == Assign(x, <<c>> \o val[y])

Unwrap(x, y) == Assign(x, IF val[y] = <<>> THEN <<>> ELSE Tail(val[y]))

Next ==
    \/ \E x \in Objs, c \in Codes :
          Assign(x, <<c>>) \/ (\E c2 \in Codes : Assign(x, <<c, c2>>)) \/ \E y \in Objs : Wrap(x, c, y)
    \/ \E x, y \in Objs : Clear(x) \/ Copy(x, y) \/ Swap(x, y) \/ Unwrap(x, y)

Spec == Init /\ [][Next]_val
=============================================================================
