------------------------------ MODULE Results ------------------------------
(***************************************************************************)
(* A function with local objects of one of the four classes expected<T,E>, *)
(* expected<void,E>, excepted<T,E> and excepted<void,E>, and its callers.  *)
(*                                                                         *)
(*   flavor   the class of the locals                                      *)
(*   frame    the locals alive, in the order they were made: they are      *)
(*            destroyed from the last one, at the end of their scope or    *)
(*            while an exception passes                                    *)
(*   mode     "run", "unwinding" (an exception is in flight) or            *)
(*            "terminated" (std::terminate)                                *)
(*   flying   the exception: the error it carries (0 for an exception of   *)
(*            the program's own), the local that threw it and in what      *)
(*   killer   the local whose destructor called std::terminate, 0 if none  *)
(*   made     errors made so far: an error is a number                     *)
(*   told     errors the program has asked for or caught                   *)
(*   mislaid  errors that were in a local nobody had checked when the      *)
(*            program assigned or emplaced something over them, or swapped  *)
(*            them with another error                                      *)
(*                                                                         *)
(* A handler may stand around any call: an exception may be caught at      *)
(* every depth of the stack.                                               *)
(***************************************************************************)
EXTENDS Naturals, Sequences, SequencesExt

CONSTANTS Values,     \* the values of T
          Moved,      \* what a value or an error holds once it is moved from
          Void,       \* the value of expected<void, E>
          MaxDepth,   \* locals alive at once
          MaxErr,     \* errors made by the program
          Throwing    \* operations whose constructor of T may throw: "assign", "emplace"

ASSUME ResultsAssumption ==
    /\ Void \notin Values
    /\ MaxDepth \in Nat /\ MaxErr \in Nat
    /\ Throwing \subseteq {"assign", "emplace"}

VARIABLES flavor, frame, mode, flying, killer, made, told, mislaid

vars == <<flavor, frame, mode, flying, killer, made, told, mislaid>>

E == INSTANCE ExpectedCell
X == INSTANCE ExceptedCell

Flavors == {"expected", "expected_void", "excepted", "excepted_void"}
IsExcepted == flavor \in {"excepted", "excepted_void"}
IsVoid == flavor \in {"expected_void", "excepted_void"}
Errors == 1 .. MaxErr

\* The class decides which of the four texts of an operation is compiled.
ByClass(e, ev, x, xv) ==
    CASE flavor = "expected" -> e [] flavor = "expected_void" -> ev
      [] flavor = "excepted" -> x [] flavor = "excepted_void" -> xv

Local == DOMAIN frame
Top == Len(frame)
Contents == IF IsVoid THEN {Void} ELSE Values

MakeVal(v)   == ByClass(E!construct_val(v), E!void_val, X!construct_val(v), X!void_val)
MakeErr(e)   == ByClass(E!construct_err(e), E!void_construct_err(e), X!construct_err(e), X!void_construct_err(e))
Construct(c) == ByClass(E!construct(c), E!void_construct(c), X!construct(c), X!void_construct(c))
MovedFrom(c) == ByClass(E!moved_from(c), IF c.has THEN c ELSE E!moved_from(c), X!moved_from(c), X!void_moved_from(c))
SetErr(c, e) == ByClass(E!set_err(c, e), E!void_set_err(c, e), X!set_err(c, e), X!void_set_err(c, e))
Assigned(c, ex) == ByClass(E!assign(c, ex), E!void_assign(c, ex), X!assign(c, ex), X!void_assign(c, ex))
Swapped(c, ex)  == ByClass(E!swap(c, ex), E!void_swap(c, ex), X!swap(c, ex), X!void_swap(c, ex))
SetVal(c, v, throws)  == IF IsExcepted THEN X!set_val(c, v, throws) ELSE E!set_val(c, v, throws)
Emplaced(c, v, throws) == IF IsExcepted THEN X!emplace(c, v, throws) ELSE E!emplace(c, v, throws)
CheckCell(c) == ByClass(c, c, X!check(c), X!void_check(c))
MapOf(c, v)      == ByClass(E!map(c, v), E!void_map(c), X!map(c, v), X!void_map(c))
MapErrorOf(c, e) == ByClass(E!map_error(c, e), E!void_map_error(c, e), X!map_error(c, e), X!void_map_error(c, e))
AndThenOf(c, r)  == ByClass(E!and_then(c, r), E!void_and_then(c, r), X!and_then(c, r), X!void_and_then(c, r))
OrElseOf(c, r)   == IF IsVoid THEN E!void_or_else(c, r) ELSE E!or_else(c, r)
AssignThrows(c) == ByClass(FALSE, FALSE, X!assign_throws(c), X!void_assign_throws(c))

Unchecked(f) == {f[i].it : i \in {k \in DOMAIN f : X!unchecked(f[k])}} \cap Errors
Asked(c) == IF c.has THEN {} ELSE {c.it} \cap Errors

Init ==
    /\ flavor \in Flavors
    /\ frame = <<>> /\ mode = "run" /\ killer = 0
    /\ flying = [err |-> 0, by |-> "none", obj |-> 0]
    /\ made = 0 /\ told = {} /\ mislaid = {}

-----------------------------------------------------------------------------
Room == mode = "run" /\ Len(frame) < MaxDepth

Calm == UNCHANGED <<flavor, mode, flying, killer>>

Throw(err, by, i) ==
    /\ mode' = "unwinding"
    /\ flying' = [err |-> err, by |-> by, obj |-> i]
    /\ UNCHANGED <<flavor, killer>>

NewErr(e) == made < MaxErr /\ e = made + 1 /\ made' = e

\* A function returns a value, or make_unexpected(e).
MakeValue ==
    /\ Room
    /\ \E v \in Contents : frame' = Append(frame, MakeVal(v))
    /\ Calm /\ UNCHANGED <<made, told, mislaid>>

MakeError ==
    /\ Room
    /\ \E e \in Errors : NewErr(e) /\ frame' = Append(frame, MakeErr(e))
    /\ Calm /\ UNCHANGED <<told, mislaid>>

\* Only an expected can be copied.
CopyConstruct(i) ==
    /\ Room /\ ~IsExcepted
    /\ frame' = Append(frame, Construct(frame[i]))
    /\ Calm /\ UNCHANGED <<made, told, mislaid>>

MoveConstruct(i) ==
    /\ Room
    /\ frame' = Append([frame EXCEPT ![i] = MovedFrom(@)], Construct(frame[i]))
    /\ Calm /\ UNCHANGED <<made, told, mislaid>>

CopyAssign(i, j) ==
    /\ mode = "run" /\ ~IsExcepted
    /\ frame' = [frame EXCEPT ![i] = Assigned(@, frame[j])]
    /\ Calm /\ UNCHANGED <<made, told, mislaid>>

MoveAssign(i, j) ==
    /\ mode = "run" /\ i # j
    /\ \/ /\ AssignThrows(frame[i])
          /\ Throw(frame[i].it, "assign", i)
          /\ UNCHANGED frame
       \/ /\ ~AssignThrows(frame[i])
          /\ frame' = [frame EXCEPT ![i] = Assigned(@, frame[j]), ![j] = MovedFrom(@)]
          /\ Calm
    /\ UNCHANGED <<made, told, mislaid>>

\* The errors that nobody will be told of, once f is replaced by g.
Mislay(f, g) == mislaid' = mislaid \cup (Unchecked(f) \ Unchecked(g))

AssignValue(i) ==
    /\ mode = "run" /\ ~IsVoid
    /\ \E v \in Contents, throws \in BOOLEAN :
          /\ throws => "assign" \in Throwing
          /\ frame' = [frame EXCEPT ![i] = SetVal(@, v, throws)]
          /\ IF throws THEN Throw(0, "ctor", i) ELSE Calm
    /\ Mislay(frame, frame') /\ UNCHANGED <<made, told>>

AssignUnexpected(i) ==
    /\ mode = "run"
    /\ \E e \in Errors : NewErr(e) /\ frame' = [frame EXCEPT ![i] = SetErr(@, e)]
    /\ Mislay(frame, frame') /\ Calm /\ UNCHANGED told

Emplace(i) ==
    /\ mode = "run" /\ ~IsVoid
    /\ \E v \in Contents, throws \in BOOLEAN :
          /\ throws => "emplace" \in Throwing
          /\ frame' = [frame EXCEPT ![i] = Emplaced(@, v, throws)]
          /\ IF throws THEN Throw(0, "ctor", i) ELSE Calm
    /\ Mislay(frame, frame') /\ UNCHANGED <<made, told>>

Swap(i, j) ==
    /\ mode = "run"
    /\ LET s == Swapped(frame[i], frame[j]) IN
          frame' = IF i = j THEN frame ELSE [frame EXCEPT ![i] = s.this, ![j] = s.ex]
    /\ IF frame[i].has \/ frame[j].has THEN UNCHANGED mislaid ELSE Mislay(frame, frame')
    /\ Calm /\ UNCHANGED <<made, told>>

\* has_value, operator bool, value_or, nevermind
Check(i) ==
    /\ mode = "run"
    /\ frame' = [frame EXCEPT ![i] = CheckCell(@)]
    /\ told' = told \cup Asked(frame[i])
    /\ Calm /\ UNCHANGED <<made, mislaid>>

\* operator== asks both operands, and so checks their errors.
Compare(i, j) ==
    /\ mode = "run"
    /\ frame' = [k \in Local |-> IF k \in {i, j} THEN CheckCell(frame[k]) ELSE frame[k]]
    /\ told' = told \cup Asked(frame[i]) \cup Asked(frame[j])
    /\ Calm /\ UNCHANGED <<made, mislaid>>

\* value() asks has_value() first; it throws the error to who asks for the value.
Value(i) ==
    /\ mode = "run" /\ ~IsVoid /\ ~frame[i].has
    /\ frame' = [frame EXCEPT ![i] = CheckCell(@)]
    /\ Throw(frame[i].it, "value", i)
    /\ UNCHANGED <<made, told, mislaid>>

\* and_then and map: an error is copied to the result, which has to be checked in
\* turn; on a value the callback makes a new value or (and_then) a new error.
AndThen(i) ==
    /\ Room
    /\ \/ /\ \E v \in Contents : frame' = Append([frame EXCEPT ![i] = CheckCell(@)], MapOf(frame[i], v))
          /\ UNCHANGED made
       \/ /\ frame[i].has
          /\ \E e \in Errors :
                /\ NewErr(e)
                /\ frame' = Append([frame EXCEPT ![i] = CheckCell(@)], AndThenOf(frame[i], MakeErr(e)))
    /\ Calm /\ UNCHANGED <<told, mislaid>>

\* map_error and or_else: the callback sees the error and makes another one of it.
MapError(i) ==
    /\ Room
    /\ \E e \in Errors, else \in BOOLEAN :
          /\ else => ~IsExcepted
          /\ IF frame[i].has THEN UNCHANGED made ELSE NewErr(e)
          /\ frame' = Append([frame EXCEPT ![i] = CheckCell(@)],
                             IF else THEN OrElseOf(frame[i], MakeErr(e)) ELSE MapErrorOf(frame[i], e))
    /\ told' = told \cup Asked(frame[i])
    /\ Calm /\ UNCHANGED mislaid

-----------------------------------------------------------------------------
(* The destructors.                                                        *)

Popped == frame' = Front(frame) /\ UNCHANGED <<made, mislaid>>

\* The end of the scope of the last local: an unchecked error is thrown.
EndOfScope ==
    /\ mode = "run" /\ frame # <<>>
    /\ IF X!unchecked(Last(frame)) THEN Throw(Last(frame).it, "dtor", Top) ELSE Calm
    /\ Popped /\ UNCHANGED told

\* An exception passes the scope: a destructor that throws now ends the process.
Unwind ==
    /\ mode = "unwinding" /\ frame # <<>>
    /\ IF X!unchecked(Last(frame)) THEN mode' = "terminated" /\ killer' = Top
                                   ELSE UNCHANGED <<mode, killer>>
    /\ Popped /\ UNCHANGED <<flavor, flying, told>>

Catch ==
    /\ mode = "unwinding"
    /\ mode' = "run" /\ flying' = [err |-> 0, by |-> "none", obj |-> 0]
    /\ told' = told \cup ({flying.err} \cap Errors)
    /\ UNCHANGED <<flavor, frame, killer, made, mislaid>>

Next ==
    \/ MakeValue \/ MakeError
    \/ \E i \in Local :
          \/ CopyConstruct(i) \/ MoveConstruct(i)
          \/ AssignValue(i) \/ AssignUnexpected(i) \/ Emplace(i)
          \/ Check(i) \/ Value(i) \/ AndThen(i) \/ MapError(i)
    \/ \E i, j \in Local : CopyAssign(i, j) \/ MoveAssign(i, j) \/ Swap(i, j) \/ Compare(i, j)
    \/ EndOfScope \/ Unwind \/ Catch

Spec == Init /\ [][Next]_vars

-----------------------------------------------------------------------------
(* Properties                                                              *)

\* Type invariant.  A local is always a sum: its flag says which member of the
\* union is alive, also after a constructor of T has thrown half way (emplace
\* puts the error back).
TypeOK ==
    /\ flavor \in Flavors
    /\ mode \in {"run", "unwinding", "terminated"}
    /\ Len(frame) <= MaxDepth
    /\ \A i \in Local :
          /\ frame[i].live = IF frame[i].has THEN "val" ELSE "err"
          /\ frame[i].it \in IF frame[i].has THEN Contents \cup {Moved} ELSE Errors \cup {Moved}
          /\ frame[i].checked \in BOOLEAN
    /\ made \in 0 .. MaxErr /\ told \subseteq Errors /\ mislaid \subseteq Errors

\* No error of an excepted is lost (excepted.h: the flag _checked).  However it was
\* moved, swapped with a value or passed through map and and_then, an error is in a
\* local that will report it, or on its way to a handler, or the program was told;
\* the exceptions are the operations that write over an error nobody has checked.
NothingLost ==
    IsExcepted /\ mode # "terminated" =>
        \A e \in 1 .. made : e \in Unchecked(frame) \cup told \cup mislaid \cup {flying.err}

\* The local that threw its error from value() does not throw it again while the
\* exception passes it, which would end the process (excepted.h, value and has_value).
ThrowerIsQuiet ==
    mode = "terminated" /\ flying.by = "value" => killer # flying.obj

\* What a user of the locals sees of them.
Contained == [i \in Local |-> [ok |-> frame[i].has, it |-> frame[i].it]]

\* The cells behave as plain sums: no operation, a failing one included, does more to
\* the locals than the abstract specification allows.
Sums == INSTANCE SumType WITH Values <- Values \cup {Void}, locals <- Contained

ImplementsSum == Sums!Spec
=============================================================================
