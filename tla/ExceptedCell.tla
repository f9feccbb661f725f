---------------------------- MODULE ExceptedCell ----------------------------
(***************************************************************************)
(* panda::excepted (excepted.h) as pure operators over the cells of        *)
(* ExpectedCell: the same union, with the flag `checked` that remembers    *)
(* whether the program has asked if there is an error.  The flag means     *)
(* nothing while the object has a value: it is then written by the code    *)
(* but never read.                                                         *)
(***************************************************************************)
CONSTANTS Moved, Void

Sum(has, it, checked) ==
    [has |-> has, live |-> IF has THEN "val" ELSE "err", it |-> it, checked |-> checked]

\* An unchecked error: the destructor will throw it.
unchecked(c) == ~c.has /\ ~c.checked

construct_val(v) == Sum(TRUE, v, TRUE)
construct_err(e) == Sum(FALSE, e, FALSE)

\* The move constructor takes the duty to report along with the error.
construct(ex) == IF ex.has THEN construct_val(ex.it) ELSE [construct_err(ex.it) EXCEPT !.checked = ex.checked]

\* What the move constructor and the move assignment leave in ex.
moved_from(ex) == [ex EXCEPT !.it = Moved, !.checked = ex.has => @]

set_val(c, v, throws) ==
    IF c.has THEN [c EXCEPT !.it = IF throws THEN @ ELSE v]
    ELSE [c EXCEPT !.has  = TRUE,
                   !.live = IF throws THEN "none" ELSE "val",
                   !.it   = IF throws THEN Moved ELSE v]

set_err(c, e) == [has |-> FALSE, live |-> "err", it |-> e, checked |-> FALSE]

\* The assignment throws the error of the target instead, when nobody checked it.
assign_throws(c) == unchecked(c)

assign(c, ex) ==
    IF ex.has THEN set_val(c, ex.it, FALSE)
    ELSE [set_err(c, ex.it) EXCEPT !.checked = ex.checked]

emplace(c, v, throws) ==
    IF throws THEN c
    ELSE [c EXCEPT !.has = TRUE, !.live = "val", !.it = v]

\* Mutant: the flag of *this, which had a value, stays.
SwapKeepsFlag(c, ex) ==
    [this |-> [has |-> FALSE, live |-> "err", it |-> ex.it, checked |-> c.checked],
     ex   |-> [ex EXCEPT !.has = TRUE, !.live = "val", !.it = c.it]]

\* A value in *this and an error in ex: the flag goes with the error.
swap_val_err(c, ex) ==
    [this |-> [has |-> FALSE, live |-> "err", it |-> ex.it, checked |-> ex.checked],
     ex   |-> [ex EXCEPT !.has = TRUE, !.live = "val", !.it = c.it]]

\* Two errors change places, and the flags stay behind.
swap(c, ex) ==
    CASE c.has = ex.has      -> [this |-> [c EXCEPT !.it = ex.it], ex |-> [ex EXCEPT !.it = c.it]]
      [] c.has /\ ~ex.has    -> swap_val_err(c, ex)
      [] ~c.has /\ ex.has    -> LET s == swap_val_err(ex, c) IN [this |-> s.ex, ex |-> s.this]

\* Mutant: value() looks at _has_val itself.
CheckNothing(c) == c

\* has_value, operator bool, value_or and nevermind; value() asks has_value.
check(c) == [c EXCEPT !.checked = TRUE]

and_then(c, r)  == IF ~c.has THEN construct_err(c.it) ELSE r
map(c, v)       == IF ~c.has THEN construct_err(c.it) ELSE construct_val(v)
map_error(c, e) == IF c.has THEN construct_val(c.it) ELSE construct_err(e)

-----------------------------------------------------------------------------
(* excepted<void, E>                                                       *)

void_val == Sum(TRUE, Void, TRUE)

void_construct_err(e) == Sum(FALSE, e, FALSE)

void_construct(ex) == IF ex.has THEN void_val ELSE [void_construct_err(ex.it) EXCEPT !.checked = ex.checked]

\* A value has nothing to take: only an error is moved from.
void_moved_from(ex) == IF ex.has THEN ex ELSE [ex EXCEPT !.it = Moved, !.checked = TRUE]

void_set_val(c) == IF c.has THEN c ELSE [c EXCEPT !.has = TRUE, !.live = "val", !.it = Void]

void_set_err(c, e) == [has |-> FALSE, live |-> "err", it |-> e, checked |-> FALSE]

void_assign_throws(c) == unchecked(c)

void_assign(c, ex) ==
    IF ex.has THEN void_set_val(c)
    ELSE [void_set_err(c, ex.it) EXCEPT !.checked = ex.checked]

void_swap_val_err(c, ex) ==
    [this |-> [has |-> ex.has, live |-> "err", it |-> ex.it, checked |-> ex.checked],
     ex   |-> [ex EXCEPT !.has = c.has, !.live = "val", !.it = Void]]

void_swap(c, ex) ==
    CASE c.has /\ ex.has     -> [this |-> c, ex |-> ex]
      [] c.has /\ ~ex.has    -> void_swap_val_err(c, ex)
      [] ~c.has /\ ex.has    -> LET s == void_swap_val_err(ex, c) IN [this |-> s.ex, ex |-> s.this]
      [] ~c.has /\ ~ex.has   -> [this |-> [c EXCEPT !.it = ex.it], ex |-> [ex EXCEPT !.it = c.it]]

void_check(c) == [c EXCEPT !.checked = TRUE]

void_and_then(c, r)  == IF ~c.has THEN void_construct_err(c.it) ELSE r
void_map(c)          == IF ~c.has THEN void_construct_err(c.it) ELSE void_val
void_map_error(c, e) == IF c.has THEN void_val ELSE void_construct_err(e)
=============================================================================
