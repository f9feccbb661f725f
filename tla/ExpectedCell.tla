---------------------------- MODULE ExpectedCell ----------------------------
(***************************************************************************)
(* panda::expected (expected.h) as pure operators over cells.              *)
(*                                                                         *)
(* A cell is the tagged union of one object:                               *)
(*   has      _has_val                                                     *)
(*   live     the member that holds a constructed object: "val", "err", or *)
(*            "none" when a constructor threw half way                     *)
(*   it       the content of the union: a value, an error, or Moved        *)
(*   checked  _checked of excepted.h; an expected has no such member and   *)
(*            never reads it, so it stays TRUE here                        *)
(*                                                                         *)
(* `throws` says that the constructor (or the assignment) of T called by   *)
(* the operation throws.                                                   *)
(***************************************************************************)
CONSTANT Moved     \* what a value or an error holds once it is moved from

Sum(has, it) ==
    [has |-> has, live |-> IF has THEN "val" ELSE "err", it |-> it, checked |-> TRUE]

\* A moved-from object keeps its variant; only the content is taken.
moved_from(ex) == [ex EXCEPT !.it = Moved]

construct_val(v) == Sum(TRUE, v)
construct_err(e) == Sum(FALSE, e)

\* The copy and move constructors: the new object has the variant of ex.
construct(ex) == IF ex.has THEN construct_val(ex.it) ELSE construct_err(ex.it)

\* _has_val is set before the value is constructed: a throw leaves neither member.
set_val(c, v, throws) ==
    IF c.has THEN [c EXCEPT !.it = IF throws THEN @ ELSE v]
    ELSE [c EXCEPT !.has  = TRUE,
                   !.live = IF throws THEN "none" ELSE "val",
                   !.it   = IF throws THEN Moved ELSE v]

set_err(c, e) == [c EXCEPT !.has = FALSE, !.live = "err", !.it = e]

assign(c, ex) == IF ex.has THEN set_val(c, ex.it, FALSE) ELSE set_err(c, ex.it)

\* Mutant: no error is put back.
EmplaceLosesError(c, v, throws) ==
    [c EXCEPT !.has = @ \/ ~throws, !.live = IF ~throws \/ c.has THEN "val" ELSE "none", !.it = v]

\* The error is put back when the constructor of the value throws.
emplace(c, v, throws) ==
    IF throws THEN c
    ELSE [c EXCEPT !.has = TRUE, !.live = "val", !.it = v]

\* Mutant: the error is taken after the value was moved over it.
SwapLosesError(c, ex) ==
    [this |-> [c  EXCEPT !.has = FALSE, !.live = "err", !.it = Moved],
     ex   |-> [ex EXCEPT !.has = TRUE,  !.live = "val", !.it = c.it]]

\* The case of a value in *this and an error in ex, written in that order.
swap_val_err(c, ex) ==
    [this |-> [c  EXCEPT !.has = FALSE, !.live = "err", !.it = ex.it],
     ex   |-> [ex EXCEPT !.has = TRUE,  !.live = "val", !.it = c.it]]

swap(c, ex) ==
    CASE c.has = ex.has      -> [this |-> [c EXCEPT !.it = ex.it], ex |-> [ex EXCEPT !.it = c.it]]
      [] c.has /\ ~ex.has    -> swap_val_err(c, ex)
      [] ~c.has /\ ex.has    -> LET s == swap_val_err(ex, c) IN [this |-> s.ex, ex |-> s.this]

\* What the continuation operations return; r is what the callback returns.
and_then(c, r)  == IF ~c.has THEN construct_err(c.it) ELSE r
or_else(c, r)   == IF c.has THEN construct(c) ELSE r
map(c, v)       == IF ~c.has THEN construct_err(c.it) ELSE construct_val(v)
map_error(c, e) == IF c.has THEN construct_val(c.it) ELSE construct_err(e)

-----------------------------------------------------------------------------
(* expected<void, E>: the value has no content, written Void.              *)

CONSTANT Void

void_val == Sum(TRUE, Void)

void_construct_err(e) == Sum(FALSE, e)

void_construct(ex) == IF ex.has THEN void_val ELSE void_construct_err(ex.it)

void_set_val(c) == IF c.has THEN c ELSE [c EXCEPT !.has = TRUE, !.live = "val", !.it = Void]

void_set_err(c, e) == [c EXCEPT !.has = FALSE, !.live = "err", !.it = e]

void_assign(c, ex) == IF ex.has THEN void_set_val(c) ELSE void_set_err(c, ex.it)

\* A value in *this and an error in ex: the error moves over and the flags swap.
void_swap_val_err(c, ex) ==
    [this |-> [c  EXCEPT !.has = ex.has, !.live = "err", !.it = ex.it],
     ex   |-> [ex EXCEPT !.has = c.has,  !.live = "val", !.it = Void]]

void_swap(c, ex) ==
    CASE c.has /\ ex.has     -> [this |-> c, ex |-> ex]
      [] c.has /\ ~ex.has    -> void_swap_val_err(c, ex)
      [] ~c.has /\ ex.has    -> LET s == void_swap_val_err(ex, c) IN [this |-> s.ex, ex |-> s.this]
      [] ~c.has /\ ~ex.has   -> [this |-> [c EXCEPT !.it = ex.it], ex |-> [ex EXCEPT !.it = c.it]]

void_and_then(c, r)  == IF ~c.has THEN void_construct_err(c.it) ELSE r
void_or_else(c, r)   == IF c.has THEN void_construct(c) ELSE r
void_map(c)          == IF ~c.has THEN void_construct_err(c.it) ELSE void_val
void_map_error(c, e) == IF c.has THEN void_val ELSE void_construct_err(e)
=============================================================================
