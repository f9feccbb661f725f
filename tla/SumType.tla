------------------------------ MODULE SumType ------------------------------
(***************************************************************************)
(* What expected and excepted promise to the code that holds their         *)
(* objects: a stack of local variables, each either a value or an error,   *)
(* never both and never neither.  A local is made, changed or destroyed    *)
(* alone; only a move and a swap touch two, and they keep what they move.  *)
(* An operation that fails changes nothing.                                *)
(***************************************************************************)
EXTENDS Naturals, Sequences, SequencesExt

CONSTANTS Values,    \* what a value may be, the value of expected<void> included
          Moved,     \* the content that is left after a move
          Void,      \* the value that has no content to take
          MaxDepth,  \* locals alive at once
          MaxErr     \* errors the program makes; errors are numbered

VARIABLES locals, made

vars == <<locals, made>>

Ok(v)  == [ok |-> TRUE,  it |-> v]
Err(e) == [ok |-> FALSE, it |-> e]

Init == locals = <<>> /\ made = 0

Room == Len(locals) < MaxDepth

Push(r) == Room /\ locals' = Append(locals, r)

New == \E v \in Values : Push(Ok(v)) /\ UNCHANGED made

NewError == made < MaxErr /\ made' = made + 1 /\ Push(Err(made'))

Copy(i) == Push(locals[i]) /\ UNCHANGED made

Taken(r) == IF r = Ok(Void) THEN r ELSE [r EXCEPT !.it = Moved]

MoveOut(i) ==
    /\ Room
    /\ locals' = Append([locals EXCEPT ![i] = Taken(@)], locals[i])
    /\ UNCHANGED made

Set(i) ==
    \/ \E v \in Values : locals' = [locals EXCEPT ![i] = Ok(v)] /\ UNCHANGED made
    \/ made < MaxErr /\ made' = made + 1 /\ locals' = [locals EXCEPT ![i] = Err(made')]

Assign(i, j) == locals' = [locals EXCEPT ![i] = locals[j]] /\ UNCHANGED made

MoveTo(i, j) ==
    /\ i # j
    /\ locals' = [locals EXCEPT ![i] = locals[j], ![j] = Taken(@)]
    /\ UNCHANGED made

Swap(i, j) == locals' = [locals EXCEPT ![i] = locals[j], ![j] = locals[i]] /\ UNCHANGED made

Pop == locals # <<>> /\ locals' = Front(locals) /\ UNCHANGED made

Next ==
    \/ New
    \/ NewError
    \/ Pop
    \/ \E i \in DOMAIN locals : Copy(i) \/ MoveOut(i) \/ Set(i)
    \/ \E i, j \in DOMAIN locals : Assign(i, j) \/ MoveTo(i, j) \/ Swap(i, j)

Spec == Init /\ [][Next]_vars
=============================================================================
