--------------------------- MODULE ResultsProofs ---------------------------
(***************************************************************************)
(* Results for any values, errors and depth of the stack: a local is       *)
(* always a sum, an unchecked error is never lost, who threw from value()  *)
(* is quiet, and the four classes implement SumType.  As long as no        *)
(* constructor of T throws in an assignment.                               *)
(***************************************************************************)
EXTENDS Results, SequenceTheorems, TLAPS

\* What a local may hold beside an error, and the cells a local can be.
Held == IF IsVoid THEN {Void} ELSE Values \cup {Moved}
IsCell(c) ==
    /\ c.live = IF c.has THEN "val" ELSE "err"
    /\ c.it \in IF c.has THEN Held ELSE Errors \cup {Moved}
    /\ IsExcepted \/ c.checked
Cells ==
    {c \in [has : BOOLEAN, live : {"val", "err"}, it : Held \cup Errors \cup {Moved}, checked : BOOLEAN] : IsCell(c)}

\* A class of the four, which the members of a cell belong to.
Class == flavor \in Flavors

(***************************************************************************)
(* The operations on one cell, or on two, for all four classes.            *)
(***************************************************************************)
LEMMA ClassCases ==
    ASSUME Class
    PROVE  \/ flavor = "expected" /\ ~IsExcepted /\ ~IsVoid
           \/ flavor = "expected_void" /\ ~IsExcepted /\ IsVoid
           \/ flavor = "excepted" /\ IsExcepted /\ ~IsVoid
           \/ flavor = "excepted_void" /\ IsExcepted /\ IsVoid
  BY DEF Class, Flavors, IsExcepted, IsVoid

LEMMA MakeValIs ==
    ASSUME Class, NEW v \in Contents
    PROVE  MakeVal(v) \in Cells /\ MakeVal(v).has /\ MakeVal(v).it = v
  BY ClassCases DEF MakeVal, ByClass, E!construct_val, E!void_val, X!construct_val, X!void_val, E!Sum, X!Sum,
     Cells, IsCell, Held, Contents

LEMMA MakeErrIs ==
    ASSUME Class, NEW e \in Errors \cup {Moved}
    PROVE  /\ MakeErr(e) \in Cells /\ ~MakeErr(e).has /\ MakeErr(e).it = e
           /\ IsExcepted => ~MakeErr(e).checked
  BY ClassCases DEF MakeErr, ByClass, E!construct_err, E!void_construct_err, X!construct_err, X!void_construct_err,
     E!Sum, X!Sum, Cells, IsCell, Held

\* A new cell made of another: the same variant and content, and the same duty.
LEMMA ConstructIs ==
    ASSUME Class, NEW c \in Cells
    PROVE  /\ Construct(c) \in Cells /\ Construct(c).has = c.has /\ Construct(c).it = c.it
           /\ IsExcepted /\ ~c.has => Construct(c).checked = c.checked
  BY ClassCases DEF Construct, ByClass, E!construct, E!void_construct, X!construct, X!void_construct,
     E!construct_val, E!void_val, X!construct_val, X!void_val, E!construct_err, E!void_construct_err,
     X!construct_err, X!void_construct_err, E!Sum, X!Sum, Cells, IsCell, Held

LEMMA MovedFromIs ==
    ASSUME Class, NEW c \in Cells
    PROVE  /\ MovedFrom(c) \in Cells /\ MovedFrom(c).has = c.has
           /\ MovedFrom(c).it = IF IsVoid /\ c.has THEN Void ELSE Moved
           /\ ~c.has => MovedFrom(c).checked
  BY ClassCases DEF MovedFrom, ByClass, E!moved_from, X!moved_from, X!void_moved_from, Cells, IsCell, Held

LEMMA SetErrIs ==
    ASSUME Class, NEW c \in Cells, NEW e \in Errors
    PROVE  SetErr(c, e) \in Cells /\ ~SetErr(c, e).has /\ SetErr(c, e).it = e
           /\ (IsExcepted => ~SetErr(c, e).checked)
  BY ClassCases DEF SetErr, ByClass, E!set_err, E!void_set_err, X!set_err, X!void_set_err, Cells, IsCell, Held

LEMMA SetValIs ==
    ASSUME Class, ~IsVoid, NEW c \in Cells, NEW v \in Values
    PROVE  SetVal(c, v, FALSE) \in Cells /\ SetVal(c, v, FALSE).has /\ SetVal(c, v, FALSE).it = v
  BY ClassCases DEF SetVal, E!set_val, X!set_val, Cells, IsCell, Held

LEMMA EmplacedIs ==
    ASSUME Class, ~IsVoid, NEW c \in Cells, NEW v \in Values
    PROVE  /\ Emplaced(c, v, TRUE) = c
           /\ Emplaced(c, v, FALSE) \in Cells /\ Emplaced(c, v, FALSE).has /\ Emplaced(c, v, FALSE).it = v
  BY ClassCases DEF Emplaced, E!emplace, X!emplace, Cells, IsCell, Held

LEMMA AssignedIs ==
    ASSUME Class, NEW c \in Cells, NEW ex \in Cells
    PROVE  /\ Assigned(c, ex) \in Cells /\ Assigned(c, ex).has = ex.has /\ Assigned(c, ex).it = ex.it
           /\ IsExcepted /\ ~ex.has => Assigned(c, ex).checked = ex.checked
  BY ClassCases DEF Assigned, ByClass, E!assign, E!void_assign, X!assign, X!void_assign, E!set_val, E!set_err,
     E!void_set_val, E!void_set_err, X!set_val, X!set_err, X!void_set_val, X!void_set_err, Cells, IsCell, Held

LEMMA CheckCellIs ==
    ASSUME Class, NEW c \in Cells
    PROVE  CheckCell(c) \in Cells /\ CheckCell(c).has = c.has /\ CheckCell(c).it = c.it /\ CheckCell(c).checked
  BY ClassCases DEF CheckCell, ByClass, X!check, X!void_check, Cells, IsCell, Held

\* The flag goes with an error that is swapped for a value.
LEMMA SwappedIs ==
    ASSUME Class, NEW c \in Cells, NEW ex \in Cells
    PROVE  LET s == Swapped(c, ex) IN
           /\ s.this \in Cells /\ s.this.has = ex.has /\ s.this.it = ex.it
           /\ s.ex \in Cells /\ s.ex.has = c.has /\ s.ex.it = c.it
           /\ c.has # ex.has => (s.this.has \/ s.this.checked = ex.checked) /\ (s.ex.has \/ s.ex.checked = c.checked)
  <1> USE DEF Swapped, ByClass, E!swap, E!void_swap, X!swap, X!void_swap, E!swap_val_err, E!void_swap_val_err,
        X!swap_val_err, X!void_swap_val_err, Cells, IsCell, Held
  <1>1. CASE flavor = "expected" /\ ~IsExcepted /\ ~IsVoid
    BY <1>1
  <1>2. CASE flavor = "expected_void" /\ ~IsExcepted /\ IsVoid
    BY <1>2
  <1>3. CASE flavor = "excepted" /\ IsExcepted /\ ~IsVoid
    BY <1>3
  <1>4. CASE flavor = "excepted_void" /\ IsExcepted /\ IsVoid
    BY <1>4
  <1>5. QED
    BY <1>1, <1>2, <1>3, <1>4, ClassCases, Zenon

\* map and and_then copy an error, which has to be checked again.
LEMMA MapIs ==
    ASSUME Class, NEW c \in Cells, NEW v \in Contents
    PROVE  /\ MapOf(c, v) \in Cells /\ MapOf(c, v).has = c.has /\ MapOf(c, v).it = IF c.has THEN v ELSE c.it
           /\ IsExcepted /\ ~c.has => ~MapOf(c, v).checked
  BY ClassCases DEF MapOf, ByClass, E!map, E!void_map, X!map, X!void_map, E!construct_val, E!void_val, X!construct_val,
     X!void_val, E!construct_err, E!void_construct_err, X!construct_err, X!void_construct_err, E!Sum, X!Sum,
     Cells, IsCell, Held, Contents

LEMMA AndThenIs ==
    ASSUME Class, NEW c \in Cells, c.has, NEW r
    PROVE  AndThenOf(c, r) = r
  BY ClassCases DEF AndThenOf, ByClass, E!and_then, E!void_and_then, X!and_then, X!void_and_then

LEMMA MapErrorIs ==
    ASSUME Class, NEW c \in Cells, NEW e \in Errors
    PROVE  /\ MapErrorOf(c, e) \in Cells /\ MapErrorOf(c, e).has = c.has
           /\ MapErrorOf(c, e).it = IF c.has THEN c.it ELSE e
           /\ IsExcepted /\ ~c.has => ~MapErrorOf(c, e).checked
  BY ClassCases DEF MapErrorOf, ByClass, E!map_error, E!void_map_error, X!map_error, X!void_map_error, E!construct_val,
     E!void_val, X!construct_val, X!void_val, E!construct_err, E!void_construct_err, X!construct_err,
     X!void_construct_err, E!Sum, X!Sum, Cells, IsCell, Held

LEMMA OrElseIs ==
    ASSUME Class, ~IsExcepted, NEW c \in Cells, NEW r \in Cells, ~r.has
    PROVE  /\ OrElseOf(c, r) \in Cells /\ OrElseOf(c, r).has = c.has
           /\ OrElseOf(c, r).it = IF c.has THEN c.it ELSE r.it
  BY ClassCases DEF OrElseOf, E!or_else, E!void_or_else, E!construct, E!void_construct, E!construct_val, E!void_val,
     E!construct_err, E!void_construct_err, E!Sum, Cells, IsCell, Held

(***************************************************************************)
(* The stack of locals.                                                    *)
(***************************************************************************)
LEMMA PushedFrame ==
    ASSUME NEW S, NEW f \in Seq(S), NEW c \in S
    PROVE  /\ Append(f, c) \in Seq(S) /\ Len(Append(f, c)) = Len(f) + 1
           /\ DOMAIN Append(f, c) = 1 .. Len(f) + 1 /\ DOMAIN f = 1 .. Len(f) /\ Len(f) \in Nat
           /\ Append(f, c)[Len(f) + 1] = c
           /\ \A k \in DOMAIN f : k \in DOMAIN Append(f, c) /\ Append(f, c)[k] = f[k]
  BY AppendProperties, LenProperties

LEMMA SetFrame ==
    ASSUME NEW S, NEW f \in Seq(S), NEW i \in DOMAIN f, NEW c \in S
    PROVE  LET g == [f EXCEPT ![i] = c] IN
           /\ g \in Seq(S) /\ Len(g) = Len(f) /\ DOMAIN g = DOMAIN f
           /\ g[i] = c /\ \A k \in DOMAIN f \ {i} : g[k] = f[k]
  BY ExceptSeq, LenProperties

LEMMA PoppedFrame ==
    ASSUME NEW S, NEW f \in Seq(S), f # <<>>
    PROVE  /\ Front(f) \in Seq(S) /\ Len(Front(f)) = Len(f) - 1 /\ Len(f) \in Nat \ {0}
           /\ DOMAIN f = 1 .. Len(f) /\ DOMAIN Front(f) = 1 .. Len(f) - 1 /\ Last(f) = f[Len(f)]
           /\ \A k \in DOMAIN Front(f) : k \in DOMAIN f /\ Front(f)[k] = f[k]
  <1>1. Len(f) \in Nat \ {0} /\ DOMAIN f = 1 .. Len(f)
    BY EmptySeq, LenProperties
  <1>2. \A k \in 1 .. Len(f) - 1 : f[k] \in S
    BY <1>1, ElementOfSeq
  <1>3. Front(f) = SubSeq(f, 1, Len(f) - 1)
    BY DEF Front
  <1>4. QED
    BY <1>1, <1>2, <1>3, SubSeqProperties DEF Last

(***************************************************************************)
(* The invariant.  NothingLost needs that no exception is in flight while  *)
(* the program runs, or a second one would take its place; ThrowerIsQuiet  *)
(* needs that the local that threw from value() stays checked on the way.  *)
(***************************************************************************)
Reports(f, e) == \E k \in DOMAIN f : ~f[k].has /\ ~f[k].checked /\ f[k].it = e

Quiet(f) == flying.by = "value" => \A k \in DOMAIN f : k = flying.obj => f[k].has \/ f[k].checked

ResultsInv ==
    /\ Class
    /\ mode \in {"run", "unwinding", "terminated"}
    /\ frame \in Seq(Cells) /\ Len(frame) <= MaxDepth
    /\ made \in 0 .. MaxErr /\ told \subseteq Errors /\ mislaid \subseteq Errors
    /\ IsExcepted /\ mode # "terminated" =>
          \A e \in 1 .. made : Reports(frame, e) \/ e \in told \cup mislaid \cup {flying.err}
    /\ mode = "run" => flying.err = 0
    /\ mode = "unwinding" => Quiet(frame)
    /\ ThrowerIsQuiet

LEMMA UncheckedIs ==
    ASSUME NEW f, NEW e \in Errors
    PROVE  e \in Unchecked(f) <=> Reports(f, e)
  BY DEF Unchecked, Reports, X!unchecked

LEMMA InvImplies ==
    ASSUME ResultsInv
    PROVE  TypeOK /\ NothingLost /\ ThrowerIsQuiet
  <1>1. \A k \in DOMAIN frame : frame[k] \in Cells
    BY ElementOfSeq, LenProperties DEF ResultsInv
  <1>2. TypeOK
    BY <1>1 DEF ResultsInv, TypeOK, Cells, IsCell, Held, Class, Local, Contents
  <1>3. 1 .. made \subseteq Errors
    BY ResultsAssumption DEF ResultsInv, Errors
  <1>4. NothingLost
    BY <1>3, UncheckedIs DEF ResultsInv, NothingLost
  <1>5. QED
    BY <1>2, <1>4 DEF ResultsInv

LEMMA InitInv == Init => ResultsInv
  <1> SUFFICES ASSUME Init PROVE ResultsInv
    OBVIOUS
  <1>1. frame \in Seq(Cells) /\ Len(frame) <= MaxDepth
    BY EmptySeq, ResultsAssumption DEF Init
  <1>2. QED
    BY <1>1, ResultsAssumption DEF Init, ResultsInv, Class, ThrowerIsQuiet

\* The locals of a class stay cells of it.
LEMMA SameClass ==
    ASSUME flavor' = flavor
    PROVE  Cells' = Cells /\ IsExcepted' = IsExcepted /\ Class' = Class
  BY DEF Cells, IsCell, Held, IsExcepted, IsVoid, Class

(***************************************************************************)
(* What every operation has to show: the new locals are cells, and who     *)
(* reported an error still does, or the program was told of it.            *)
(***************************************************************************)
Kept ==
    /\ frame' \in Seq(Cells) /\ Len(frame') <= MaxDepth
    /\ made' \in 0 .. MaxErr /\ told' \subseteq Errors /\ mislaid' \subseteq Errors
    /\ told \subseteq told' /\ mislaid \subseteq mislaid'
    /\ IsExcepted => \A e \in 1 .. made' :
          (e \in 1 .. made /\ ~Reports(frame, e)) \/ Reports(frame', e) \/ e \in told' \cup mislaid'

LEMMA CalmStep ==
    ASSUME ResultsInv, mode = "run", Calm, Kept
    PROVE  ResultsInv'
  <1>1. Cells' = Cells /\ IsExcepted' = IsExcepted /\ Class'
    BY SameClass DEF Calm, ResultsInv
  <1>2. IsExcepted => \A e \in 1 .. made' : Reports(frame', e) \/ e \in told' \cup mislaid'
    BY DEF Kept, ResultsInv
  <1>3. ThrowerIsQuiet'
    BY DEF ThrowerIsQuiet, Calm
  <1>4. QED
    BY <1>1, <1>2, <1>3 DEF Kept, ResultsInv, Calm, Reports

\* The same, when the operation throws; an error that is lost flies.
LEMMA ThrowStep ==
    ASSUME ResultsInv, mode = "run", NEW err, NEW by, NEW i, Throw(err, by, i),
           frame' \in Seq(Cells), Len(frame') <= MaxDepth,
           UNCHANGED made, told \subseteq told', told' \subseteq Errors, mislaid \subseteq mislaid', mislaid' \subseteq Errors,
           IsExcepted => \A e \in 1 .. made :
              Reports(frame, e) => Reports(frame', e) \/ e \in told' \cup mislaid' \cup {err},
           by = "value" => \A k \in DOMAIN frame' : k = i => frame'[k].has \/ frame'[k].checked
    PROVE  ResultsInv'
  <1>1. Cells' = Cells /\ IsExcepted' = IsExcepted /\ Class'
    BY SameClass DEF Throw, ResultsInv
  <1>2. mode' = "unwinding" /\ flying' = [err |-> err, by |-> by, obj |-> i]
    BY DEF Throw
  <1>3. IsExcepted => \A e \in 1 .. made : Reports(frame', e) \/ e \in told' \cup mislaid' \cup {err}
    BY ResultsAssumption DEF ResultsInv
  <1>4. ThrowerIsQuiet' /\ Quiet(frame)'
    BY <1>2 DEF ThrowerIsQuiet, Quiet
  <1>5. QED
    BY <1>1, <1>2, <1>3, <1>4 DEF ResultsInv, Reports

(***************************************************************************)
(* Who reports an error, when a local is added or replaced.                *)
(***************************************************************************)
LEMMA ReportsPushed ==
    ASSUME NEW S, NEW f \in Seq(S), NEW c \in S
    PROVE  /\ \A e : Reports(f, e) => Reports(Append(f, c), e)
           /\ ~c.has /\ ~c.checked => Reports(Append(f, c), c.it)
  BY PushedFrame DEF Reports

LEMMA ReportsSet ==
    ASSUME NEW S, NEW f \in Seq(S), NEW i \in DOMAIN f, NEW c \in S,
           NEW g, g = [f EXCEPT ![i] = c]
    PROVE  /\ \A e : Reports(f, e) => Reports(g, e) \/ (~f[i].has /\ ~f[i].checked /\ e = f[i].it)
           /\ ~c.has /\ ~c.checked => Reports(g, c.it)
  <1>1. DOMAIN g = DOMAIN f /\ g[i] = c /\ \A k \in DOMAIN f \ {i} : g[k] = f[k]
    BY SetFrame
  <1>2. QED
    BY <1>1 DEF Reports

LEMMA MislayKeeps ==
    ASSUME ResultsInv, Mislay(frame, frame')
    PROVE  /\ mislaid \subseteq mislaid' /\ mislaid' \subseteq Errors
           /\ \A e \in Errors : Reports(frame, e) => Reports(frame', e) \/ e \in mislaid'
  BY UncheckedIs DEF Mislay, ResultsInv, Unchecked

LEMMA NewErrIs ==
    ASSUME ResultsInv, NEW e \in Errors, NewErr(e)
    PROVE  made' \in 0 .. MaxErr /\ 1 .. made' = 1 .. made \cup {e} /\ 1 .. made \subseteq Errors
  BY ResultsAssumption DEF ResultsInv, NewErr, Errors

LEMMA LocalIs ==
    ASSUME ResultsInv, NEW i \in Local
    PROVE  i \in DOMAIN frame /\ frame[i] \in Cells
  BY ElementOfSeq, LenProperties DEF ResultsInv, Local

LEMMA MadeAreErrors ==
    ASSUME ResultsInv
    PROVE  1 .. made \subseteq Errors /\ made \in 0 .. MaxErr
  BY ResultsAssumption DEF ResultsInv, Errors

(***************************************************************************)
(* One lemma for each operation.                                           *)
(***************************************************************************)
LEMMA MakeValueStep == ResultsInv /\ MakeValue => ResultsInv'
  <1> SUFFICES ASSUME ResultsInv, MakeValue PROVE ResultsInv'
    OBVIOUS
  <1>1. PICK v \in Contents : frame' = Append(frame, MakeVal(v))
    BY DEF MakeValue
  <1>2. MakeVal(v) \in Cells
    BY MakeValIs DEF ResultsInv
  <1>3. frame' \in Seq(Cells) /\ Len(frame') <= MaxDepth
    BY <1>1, <1>2, PushedFrame, ResultsAssumption DEF ResultsInv, MakeValue, Room
  <1>4. \A e : Reports(frame, e) => Reports(frame', e)
    BY <1>1, <1>2, ReportsPushed DEF ResultsInv
  <1>5. Kept
    BY <1>3, <1>4 DEF Kept, MakeValue, ResultsInv
  <1>6. QED
    BY <1>5, CalmStep DEF MakeValue, Room

LEMMA MakeErrorStep == ResultsInv /\ MakeError => ResultsInv'
  <1> SUFFICES ASSUME ResultsInv, MakeError PROVE ResultsInv'
    OBVIOUS
  <1>1. PICK e \in Errors : NewErr(e) /\ frame' = Append(frame, MakeErr(e))
    BY DEF MakeError
  <1>2. MakeErr(e) \in Cells /\ ~MakeErr(e).has /\ MakeErr(e).it = e /\ (IsExcepted => ~MakeErr(e).checked)
    BY MakeErrIs DEF ResultsInv
  <1>3. frame' \in Seq(Cells) /\ Len(frame') <= MaxDepth
    BY <1>1, <1>2, PushedFrame, ResultsAssumption DEF ResultsInv, MakeError, Room
  <1>4. (\A x : Reports(frame, x) => Reports(frame', x)) /\ (IsExcepted => Reports(frame', e))
    BY <1>1, <1>2, ReportsPushed DEF ResultsInv
  <1>5. Kept
    BY <1>1, <1>3, <1>4, NewErrIs DEF Kept, MakeError, ResultsInv
  <1>6. QED
    BY <1>5, CalmStep DEF MakeError, Room

LEMMA CopyConstructStep == ASSUME NEW i \in Local PROVE ResultsInv /\ CopyConstruct(i) => ResultsInv'
  <1> SUFFICES ASSUME ResultsInv, CopyConstruct(i) PROVE ResultsInv'
    OBVIOUS
  <1>1. Construct(frame[i]) \in Cells
    BY LocalIs, ConstructIs DEF ResultsInv
  <1>2. frame' \in Seq(Cells) /\ Len(frame') <= MaxDepth
    BY <1>1, PushedFrame, ResultsAssumption DEF ResultsInv, CopyConstruct, Room
  <1>3. Kept
    BY <1>2 DEF Kept, CopyConstruct, ResultsInv
  <1>4. QED
    BY <1>3, CalmStep DEF CopyConstruct, Room

LEMMA MoveConstructStep == ASSUME NEW i \in Local PROVE ResultsInv /\ MoveConstruct(i) => ResultsInv'
  <1> SUFFICES ASSUME ResultsInv, MoveConstruct(i) PROVE ResultsInv'
    OBVIOUS
  <1> DEFINE c == frame[i]
             g == [frame EXCEPT ![i] = MovedFrom(c)]
  <1>1. c \in Cells /\ i \in DOMAIN frame
    BY LocalIs
  <1>2. /\ Construct(c) \in Cells /\ Construct(c).has = c.has /\ Construct(c).it = c.it
        /\ IsExcepted /\ ~c.has => Construct(c).checked = c.checked
    BY <1>1, ConstructIs DEF ResultsInv
  <1>3. MovedFrom(c) \in Cells
    BY <1>1, MovedFromIs DEF ResultsInv
  <1>4. g \in Seq(Cells) /\ Len(g) = Len(frame)
    BY <1>1, <1>3, SetFrame DEF ResultsInv
  <1>5. frame' = Append(g, Construct(c))
    BY DEF MoveConstruct
  <1>6. frame' \in Seq(Cells) /\ Len(frame') <= MaxDepth
    BY <1>2, <1>4, <1>5, PushedFrame, ResultsAssumption DEF ResultsInv, MoveConstruct, Room
  <1>7. \A e : Reports(frame, e) => Reports(g, e) \/ (~c.has /\ ~c.checked /\ e = c.it)
    BY <1>1, <1>3, ReportsSet DEF ResultsInv
  <1>8. /\ \A e : Reports(g, e) => Reports(frame', e)
        /\ ~Construct(c).has /\ ~Construct(c).checked => Reports(frame', Construct(c).it)
    BY <1>2, <1>4, <1>5, ReportsPushed
  <1>9. IsExcepted => \A e : Reports(frame, e) => Reports(frame', e)
    BY <1>2, <1>7, <1>8
  <1>10. Kept
    BY <1>6, <1>9 DEF Kept, MoveConstruct, ResultsInv
  <1>11. QED
    BY <1>10, CalmStep DEF MoveConstruct, Room

LEMMA CopyAssignStep == ASSUME NEW i \in Local, NEW j \in Local PROVE ResultsInv /\ CopyAssign(i, j) => ResultsInv'
  <1> SUFFICES ASSUME ResultsInv, CopyAssign(i, j) PROVE ResultsInv'
    OBVIOUS
  <1>1. Assigned(frame[i], frame[j]) \in Cells
    BY LocalIs, AssignedIs DEF ResultsInv
  <1>2. frame' \in Seq(Cells) /\ Len(frame') <= MaxDepth
    BY <1>1, LocalIs, SetFrame DEF ResultsInv, CopyAssign
  <1>3. Kept
    BY <1>2 DEF Kept, CopyAssign, ResultsInv
  <1>4. QED
    BY <1>3, CalmStep DEF CopyAssign

LEMMA TwoSet ==
    ASSUME NEW S, NEW f \in Seq(S), NEW i \in DOMAIN f, NEW j \in DOMAIN f, i # j, NEW c \in S, NEW d \in S,
           NEW g, g = [f EXCEPT ![i] = c, ![j] = d]
    PROVE  /\ g \in Seq(S) /\ Len(g) = Len(f) /\ DOMAIN g = DOMAIN f
           /\ g[i] = c /\ g[j] = d /\ \A k \in DOMAIN f \ {i, j} : g[k] = f[k]
  <1> DEFINE h == [f EXCEPT ![i] = c]
  <1>1. h \in Seq(S) /\ Len(h) = Len(f) /\ DOMAIN h = DOMAIN f /\ h[i] = c /\ \A k \in DOMAIN f \ {i} : h[k] = f[k]
    BY SetFrame
  <1>2. g = [h EXCEPT ![j] = d]
    OBVIOUS
  <1>3. g \in Seq(S) /\ Len(g) = Len(h) /\ DOMAIN g = DOMAIN h /\ g[j] = d /\ \A k \in DOMAIN h \ {j} : g[k] = h[k]
    <2> HIDE DEF h
    <2>1. QED
      BY <1>1, <1>2, SetFrame
  <1>4. QED
    BY <1>1, <1>3

LEMMA MoveAssignStep == ASSUME NEW i \in Local, NEW j \in Local PROVE ResultsInv /\ MoveAssign(i, j) => ResultsInv'
  <1> SUFFICES ASSUME ResultsInv, MoveAssign(i, j) PROVE ResultsInv'
    OBVIOUS
  <1>1. frame[i] \in Cells /\ frame[j] \in Cells /\ i \in DOMAIN frame /\ j \in DOMAIN frame /\ i # j
    BY LocalIs DEF MoveAssign
  <1>2. CASE AssignThrows(frame[i])
    <2>1. Throw(frame[i].it, "assign", i) /\ frame' = frame /\ mode = "run" /\ UNCHANGED <<made, told, mislaid>>
      BY <1>2 DEF MoveAssign
    <2>2. QED
      BY <2>1, ThrowStep DEF ResultsInv
  <1>3. CASE ~AssignThrows(frame[i])
    <2> DEFINE a == Assigned(frame[i], frame[j])
               b == MovedFrom(frame[j])
    <2>1. frame' = [frame EXCEPT ![i] = a, ![j] = b] /\ Calm /\ mode = "run" /\ UNCHANGED <<made, told, mislaid>>
      BY <1>1, <1>3 DEF MoveAssign
    <2>2. /\ a \in Cells /\ a.has = frame[j].has /\ a.it = frame[j].it
          /\ IsExcepted /\ ~frame[j].has => a.checked = frame[j].checked
      BY <1>1, AssignedIs DEF ResultsInv
    <2>3. b \in Cells
      BY <1>1, MovedFromIs DEF ResultsInv
    <2>4. IsExcepted => frame[i].has \/ frame[i].checked
      BY <1>3, ClassCases DEF AssignThrows, ByClass, X!assign_throws, X!void_assign_throws, X!unchecked, ResultsInv
    <2> HIDE DEF a, b
    <2>5. frame \in Seq(Cells) /\ frame' = [frame EXCEPT ![i] = a, ![j] = b]
      BY <2>1 DEF ResultsInv
    <2>51. /\ frame' \in Seq(Cells) /\ Len(frame') = Len(frame) /\ DOMAIN frame' = DOMAIN frame
           /\ frame'[i] = a /\ \A k \in DOMAIN frame \ {i, j} : frame'[k] = frame[k]
      BY <1>1, <2>2, <2>3, <2>5, TwoSet
    <2>6. IsExcepted => \A e : Reports(frame, e) => Reports(frame', e)
      BY <1>1, <2>2, <2>4, <2>51 DEF Reports
    <2>7. Kept
      BY <2>1, <2>51, <2>6 DEF Kept, ResultsInv
    <2>8. QED
      BY <2>1, <2>7, CalmStep
  <1>4. QED
    BY <1>2, <1>3

\* A constructor of T that throws in an assignment leaves a local that is neither.
NoThrowingAssign == "assign" \notin Throwing

LEMMA AssignValueStep ==
    ASSUME NoThrowingAssign, NEW i \in Local
    PROVE  ResultsInv /\ AssignValue(i) => ResultsInv'
  <1> SUFFICES ASSUME ResultsInv, AssignValue(i) PROVE ResultsInv'
    OBVIOUS
  <1>1. PICK v \in Contents : frame' = [frame EXCEPT ![i] = SetVal(@, v, FALSE)] /\ Calm
    BY DEF AssignValue, NoThrowingAssign
  <1>2. v \in Values /\ ~IsVoid /\ mode = "run" /\ Mislay(frame, frame') /\ UNCHANGED <<made, told>>
    BY DEF AssignValue, Contents
  <1> DEFINE c == SetVal(frame[i], v, FALSE)
  <1>3. c \in Cells /\ frame' = [frame EXCEPT ![i] = c]
    BY <1>1, <1>2, LocalIs, SetValIs DEF ResultsInv
  <1> HIDE DEF c
  <1>4. frame' \in Seq(Cells) /\ Len(frame') = Len(frame)
    BY <1>3, LocalIs, SetFrame DEF ResultsInv
  <1>5. Kept
    BY <1>2, <1>4, MislayKeeps, MadeAreErrors DEF Kept, ResultsInv
  <1>6. QED
    BY <1>1, <1>2, <1>5, CalmStep

LEMMA AssignUnexpectedStep == ASSUME NEW i \in Local PROVE ResultsInv /\ AssignUnexpected(i) => ResultsInv'
  <1> SUFFICES ASSUME ResultsInv, AssignUnexpected(i) PROVE ResultsInv'
    OBVIOUS
  <1>1. PICK e \in Errors : NewErr(e) /\ frame' = [frame EXCEPT ![i] = SetErr(@, e)]
    BY DEF AssignUnexpected
  <1>2. Calm /\ mode = "run" /\ Mislay(frame, frame') /\ UNCHANGED told
    BY DEF AssignUnexpected
  <1> DEFINE c == SetErr(frame[i], e)
  <1>3. c \in Cells /\ ~c.has /\ c.it = e /\ (IsExcepted => ~c.checked)
    BY LocalIs, SetErrIs DEF ResultsInv
  <1>4. frame' = [frame EXCEPT ![i] = c]
    BY <1>1
  <1> HIDE DEF c
  <1>5. frame' \in Seq(Cells) /\ Len(frame') = Len(frame)
    BY <1>3, <1>4, LocalIs, SetFrame DEF ResultsInv
  <1>51. IsExcepted => Reports(frame', e)
    BY <1>3, <1>4, LocalIs, ReportsSet DEF ResultsInv
  <1>6. Kept
    BY <1>1, <1>2, <1>5, <1>51, MislayKeeps, MadeAreErrors, NewErrIs DEF Kept, ResultsInv
  <1>7. QED
    BY <1>2, <1>6, CalmStep

LEMMA EmplaceStep == ASSUME NEW i \in Local PROVE ResultsInv /\ Emplace(i) => ResultsInv'
  <1> SUFFICES ASSUME ResultsInv, Emplace(i) PROVE ResultsInv'
    OBVIOUS
  <1>1. PICK v \in Contents, throws \in BOOLEAN :
            /\ frame' = [frame EXCEPT ![i] = Emplaced(@, v, throws)]
            /\ IF throws THEN Throw(0, "ctor", i) ELSE Calm
    BY DEF Emplace
  <1>2. v \in Values /\ ~IsVoid /\ mode = "run" /\ Mislay(frame, frame') /\ UNCHANGED <<made, told>>
    BY DEF Emplace, Contents
  <1>3. Emplaced(frame[i], v, throws) \in Cells
    BY <1>2, LocalIs, EmplacedIs DEF ResultsInv
  <1>4. frame' \in Seq(Cells) /\ Len(frame') = Len(frame)
    BY <1>1, <1>3, LocalIs, SetFrame DEF ResultsInv
  <1>5. CASE throws
    BY <1>1, <1>2, <1>4, <1>5, MislayKeeps, MadeAreErrors, ThrowStep DEF ResultsInv
  <1>6. CASE ~throws
    <2>1. Kept
      BY <1>2, <1>4, MislayKeeps, MadeAreErrors DEF Kept, ResultsInv
    <2>2. QED
      BY <1>1, <1>2, <1>6, <2>1, CalmStep
  <1>7. QED
    BY <1>5, <1>6

LEMMA SwapStep == ASSUME NEW i \in Local, NEW j \in Local PROVE ResultsInv /\ Swap(i, j) => ResultsInv'
  <1> SUFFICES ASSUME ResultsInv, Swap(i, j) PROVE ResultsInv'
    OBVIOUS
  <1> DEFINE s == Swapped(frame[i], frame[j])
  <1>1. frame[i] \in Cells /\ frame[j] \in Cells /\ i \in DOMAIN frame /\ j \in DOMAIN frame
    BY LocalIs
  <1>2. /\ s.this \in Cells /\ s.this.has = frame[j].has /\ s.this.it = frame[j].it
        /\ s.ex \in Cells /\ s.ex.has = frame[i].has /\ s.ex.it = frame[i].it
        /\ frame[i].has # frame[j].has => (s.this.has \/ s.this.checked = frame[j].checked)
                                        /\ (s.ex.has \/ s.ex.checked = frame[i].checked)
    BY <1>1, SwappedIs DEF ResultsInv
  <1>3. /\ mode = "run" /\ Calm /\ UNCHANGED <<made, told>>
        /\ frame' = IF i = j THEN frame ELSE [frame EXCEPT ![i] = s.this, ![j] = s.ex]
        /\ IF frame[i].has \/ frame[j].has THEN UNCHANGED mislaid ELSE Mislay(frame, frame')
    BY DEF Swap
  <1> HIDE DEF s
  <1>4. frame' \in Seq(Cells) /\ Len(frame') = Len(frame)
    BY <1>1, <1>2, <1>3, TwoSet DEF ResultsInv
  <1>5. CASE frame[i].has \/ frame[j].has
    <2>1. i = j => frame' = frame
      BY <1>3
    <2>2. ASSUME i # j
          PROVE  /\ DOMAIN frame' = DOMAIN frame /\ frame'[i] = s.this /\ frame'[j] = s.ex
                 /\ \A k \in DOMAIN frame \ {i, j} : frame'[k] = frame[k]
      <3>1. frame \in Seq(Cells) /\ frame' = [frame EXCEPT ![i] = s.this, ![j] = s.ex]
        BY <1>3, <2>2 DEF ResultsInv
      <3>2. QED
        BY <1>1, <1>2, <2>2, <3>1, TwoSet
    <2>3. \A e : Reports(frame, e) => Reports(frame', e)
      BY <1>1, <1>2, <1>5, <2>1, <2>2 DEF Reports
    <2>4. Kept
      BY <1>3, <1>4, <1>5, <2>3 DEF Kept, ResultsInv
    <2>5. QED
      BY <1>3, <2>4, CalmStep
  <1>6. CASE ~(frame[i].has \/ frame[j].has)
    <2>1. Kept
      BY <1>3, <1>4, <1>6, MislayKeeps, MadeAreErrors DEF Kept, ResultsInv
    <2>2. QED
      BY <1>3, <2>1, CalmStep
  <1>7. QED
    BY <1>5, <1>6

\* To ask a local changes nothing but its flag.
LEMMA CheckedFrame ==
    ASSUME Class, NEW f \in Seq(Cells), NEW i \in DOMAIN f
    PROVE  LET g == [f EXCEPT ![i] = CheckCell(f[i])] IN
           /\ g \in Seq(Cells) /\ Len(g) = Len(f) /\ DOMAIN g = DOMAIN f
           /\ \A k \in DOMAIN f : g[k].has = f[k].has /\ g[k].it = f[k].it
           /\ g[i].checked /\ \A k \in DOMAIN f \ {i} : g[k] = f[k]
           /\ \A e : Reports(f, e) => Reports(g, e) \/ (~f[i].has /\ ~f[i].checked /\ e = f[i].it)
  <1> DEFINE c == CheckCell(f[i])
             g == [f EXCEPT ![i] = CheckCell(f[i])]
  <1>1. f[i] \in Cells
    BY ElementOfSeq, LenProperties
  <1>2. c \in Cells /\ c.has = f[i].has /\ c.it = f[i].it /\ c.checked
    BY <1>1, CheckCellIs
  <1>3. g = [f EXCEPT ![i] = c]
    OBVIOUS
  <1> HIDE DEF c
  <1>4. g \in Seq(Cells) /\ Len(g) = Len(f) /\ DOMAIN g = DOMAIN f /\ g[i] = c /\ \A k \in DOMAIN f \ {i} : g[k] = f[k]
    BY <1>2, <1>3, SetFrame
  <1> HIDE DEF g
  <1>5. QED
    BY <1>2, <1>4 DEF Reports, g

LEMMA CheckStep == ASSUME NEW i \in Local PROVE ResultsInv /\ Check(i) => ResultsInv'
  <1> SUFFICES ASSUME ResultsInv, Check(i) PROVE ResultsInv'
    OBVIOUS
  <1> DEFINE h == [frame EXCEPT ![i] = CheckCell(frame[i])]
  <1>1. frame \in Seq(Cells) /\ Class /\ i \in DOMAIN frame
    BY LocalIs DEF ResultsInv
  <1>2. /\ frame' = h /\ mode = "run" /\ Calm
        /\ told' = told \cup Asked(frame[i]) /\ UNCHANGED <<made, mislaid>>
    BY DEF Check
  <1>3. /\ h \in Seq(Cells) /\ Len(h) = Len(frame)
        /\ \A e : Reports(frame, e) => Reports(h, e) \/ (~frame[i].has /\ ~frame[i].checked /\ e = frame[i].it)
    BY <1>1, CheckedFrame
  <1> HIDE DEF h
  <1>4. Kept
    BY <1>2, <1>3, MadeAreErrors DEF Kept, ResultsInv, Asked
  <1>5. QED
    BY <1>2, <1>4, CalmStep

LEMMA CompareStep == ASSUME NEW i \in Local, NEW j \in Local PROVE ResultsInv /\ Compare(i, j) => ResultsInv'
  <1> SUFFICES ASSUME ResultsInv, Compare(i, j) PROVE ResultsInv'
    OBVIOUS
  <1>1. frame \in Seq(Cells) /\ Class /\ Local = 1 .. Len(frame) /\ Len(frame) \in Nat
    BY LenProperties DEF ResultsInv, Local
  <1>2. \A k \in Local : /\ frame[k] \in Cells /\ CheckCell(frame[k]) \in Cells
                         /\ CheckCell(frame[k]).has = frame[k].has /\ CheckCell(frame[k]).it = frame[k].it
    BY <1>1, LocalIs, CheckCellIs
  <1>3. /\ mode = "run" /\ Calm /\ told' = told \cup Asked(frame[i]) \cup Asked(frame[j]) /\ UNCHANGED <<made, mislaid>>
        /\ frame' = [k \in Local |-> IF k \in {i, j} THEN CheckCell(frame[k]) ELSE frame[k]]
    BY DEF Compare
  <1>4. frame' \in [1 .. Len(frame) -> Cells]
    BY <1>1, <1>2, <1>3
  <1>5. frame' \in Seq(Cells) /\ Len(frame') = Len(frame)
    BY <1>1, <1>4, SeqDef, LenProperties
  <1>6. \A e \in Errors : Reports(frame, e) => Reports(frame', e) \/ e \in told'
    <2> SUFFICES ASSUME NEW e \in Errors, NEW k \in Local, ~frame[k].has, ~frame[k].checked, frame[k].it = e
                 PROVE  Reports(frame', e) \/ e \in told'
      BY DEF Reports, Local
    <2>1. CASE k \in {i, j}
      BY <1>3, <2>1 DEF Asked
    <2>2. CASE k \notin {i, j}
      <3>1. frame'[k] = frame[k] /\ k \in DOMAIN frame'
        BY <1>3, <2>2
      <3>2. QED
        BY <3>1 DEF Reports
    <2>3. QED
      BY <2>1, <2>2
  <1>7. told' \subseteq Errors /\ told \subseteq told'
    <2>1. told' = told \cup Asked(frame[i]) \cup Asked(frame[j])
      BY <1>3
    <2>2. QED
      BY <2>1 DEF ResultsInv, Asked
  <1>8. mode = "run" /\ Calm /\ UNCHANGED <<made, mislaid>>
    BY <1>3
  <1>9. Kept
    BY <1>5, <1>6, <1>7, <1>8, MadeAreErrors DEF Kept, ResultsInv
  <1>10. QED
    BY <1>8, <1>9, CalmStep

LEMMA ValueStep == ASSUME NEW i \in Local PROVE ResultsInv /\ Value(i) => ResultsInv'
  <1> SUFFICES ASSUME ResultsInv, Value(i) PROVE ResultsInv'
    OBVIOUS
  <1> DEFINE h == [frame EXCEPT ![i] = CheckCell(frame[i])]
  <1>1. frame \in Seq(Cells) /\ Class /\ i \in DOMAIN frame
    BY LocalIs DEF ResultsInv
  <1>2. /\ frame' = h /\ mode = "run"
        /\ Throw(frame[i].it, "value", i) /\ UNCHANGED <<made, told, mislaid>>
    BY DEF Value
  <1>3. /\ h \in Seq(Cells) /\ Len(h) = Len(frame) /\ h[i].checked
        /\ \A e : Reports(frame, e) => Reports(h, e) \/ (~frame[i].has /\ ~frame[i].checked /\ e = frame[i].it)
    BY <1>1, CheckedFrame
  <1> HIDE DEF h
  <1>4. QED
    BY <1>2, <1>3, ThrowStep DEF ResultsInv

LEMMA AndThenStep == ASSUME NEW i \in Local PROVE ResultsInv /\ AndThen(i) => ResultsInv'
  <1> SUFFICES ASSUME ResultsInv, AndThen(i) PROVE ResultsInv'
    OBVIOUS
  <1> DEFINE h == [frame EXCEPT ![i] = CheckCell(frame[i])]
  <1>1. frame \in Seq(Cells) /\ Class /\ i \in DOMAIN frame /\ frame[i] \in Cells
    BY LocalIs DEF ResultsInv
  <1>2. mode = "run" /\ Len(frame) < MaxDepth /\ Calm /\ UNCHANGED <<told, mislaid>>
    BY DEF AndThen, Room
  <1>3. /\ h \in Seq(Cells) /\ Len(h) = Len(frame)
        /\ \A e : Reports(frame, e) => Reports(h, e) \/ (~frame[i].has /\ ~frame[i].checked /\ e = frame[i].it)
    BY <1>1, CheckedFrame
  <1>4. ASSUME NEW v \in Contents, frame' = Append(h, MapOf(frame[i], v)), UNCHANGED made
        PROVE  ResultsInv'
    <2> DEFINE c == MapOf(frame[i], v)
    <2>1. c \in Cells /\ (IsExcepted /\ ~frame[i].has => ~c.has /\ ~c.checked /\ c.it = frame[i].it)
      BY <1>1, MapIs
    <2>2. frame' = Append(h, c)
      BY <1>4
    <2> HIDE DEF h, c
    <2>3. frame' \in Seq(Cells) /\ Len(frame') <= MaxDepth
      BY <1>2, <1>3, <2>1, <2>2, PushedFrame, ResultsAssumption
    <2>4. (\A e : Reports(h, e) => Reports(frame', e)) /\ (~c.has /\ ~c.checked => Reports(frame', c.it))
      BY <1>3, <2>1, <2>2, ReportsPushed
    <2>5. IsExcepted => \A e : Reports(frame, e) => Reports(frame', e)
      BY <1>3, <2>1, <2>4
    <2>6. Kept
      BY <1>2, <1>4, <2>3, <2>5 DEF Kept, ResultsInv
    <2>7. QED
      BY <1>2, <2>6, CalmStep
  <1>5. ASSUME frame[i].has, NEW e \in Errors, NewErr(e), frame' = Append(h, AndThenOf(frame[i], MakeErr(e)))
        PROVE  ResultsInv'
    <2> DEFINE c == MakeErr(e)
    <2>1. c \in Cells /\ ~c.has /\ c.it = e /\ (IsExcepted => ~c.checked)
      BY <1>1, MakeErrIs
    <2>2. frame' = Append(h, c)
      BY <1>1, <1>5, AndThenIs
    <2> HIDE DEF h, c
    <2>3. frame' \in Seq(Cells) /\ Len(frame') <= MaxDepth
      BY <1>2, <1>3, <2>1, <2>2, PushedFrame, ResultsAssumption
    <2>4. (\A x : Reports(h, x) => Reports(frame', x)) /\ (~c.has /\ ~c.checked => Reports(frame', c.it))
      BY <1>3, <2>1, <2>2, ReportsPushed
    <2>5. IsExcepted => Reports(frame', e) /\ \A x : Reports(frame, x) => Reports(frame', x)
      BY <1>3, <1>5, <2>1, <2>4
    <2>6. Kept
      BY <1>2, <1>5, <2>3, <2>5, NewErrIs DEF Kept, ResultsInv
    <2>7. QED
      BY <1>2, <2>6, CalmStep
  <1>6. QED
    BY <1>4, <1>5 DEF AndThen

LEMMA MapErrorStep == ASSUME NEW i \in Local PROVE ResultsInv /\ MapError(i) => ResultsInv'
  <1> SUFFICES ASSUME ResultsInv, MapError(i) PROVE ResultsInv'
    OBVIOUS
  <1> DEFINE h == [frame EXCEPT ![i] = CheckCell(frame[i])]
  <1>1. frame \in Seq(Cells) /\ Class /\ i \in DOMAIN frame /\ frame[i] \in Cells
    BY LocalIs DEF ResultsInv
  <1>2. mode = "run" /\ Len(frame) < MaxDepth /\ Calm /\ told' = told \cup Asked(frame[i]) /\ UNCHANGED mislaid
    BY DEF MapError, Room
  <1>3. PICK e \in Errors, else \in BOOLEAN :
            /\ else => ~IsExcepted
            /\ IF frame[i].has THEN UNCHANGED made ELSE NewErr(e)
            /\ frame' = Append(h, IF else THEN OrElseOf(frame[i], MakeErr(e)) ELSE MapErrorOf(frame[i], e))
    BY DEF MapError
  <1> DEFINE c == IF else THEN OrElseOf(frame[i], MakeErr(e)) ELSE MapErrorOf(frame[i], e)
  <1>4. /\ c \in Cells /\ c.has = frame[i].has /\ c.it = IF c.has THEN frame[i].it ELSE e
        /\ IsExcepted /\ ~frame[i].has => ~c.checked
    <2>1. CASE else
      <3>1. c = OrElseOf(frame[i], MakeErr(e)) /\ ~IsExcepted
        BY <1>3, <2>1
      <3>2. MakeErr(e) \in Cells /\ ~MakeErr(e).has /\ MakeErr(e).it = e
        BY <1>1, MakeErrIs
      <3>3. LET r == OrElseOf(frame[i], MakeErr(e))
            IN  r \in Cells /\ r.has = frame[i].has /\ r.it = IF frame[i].has THEN frame[i].it ELSE e
        BY <1>1, <3>1, <3>2, OrElseIs
      <3>4. QED
        BY <2>1, <3>1, <3>3
    <2>2. CASE ~else
      BY <1>1, <2>2, MapErrorIs
    <2>3. QED
      BY <2>1, <2>2
  <1>5. /\ h \in Seq(Cells) /\ Len(h) = Len(frame)
        /\ \A x : Reports(frame, x) => Reports(h, x) \/ (~frame[i].has /\ ~frame[i].checked /\ x = frame[i].it)
    BY <1>1, CheckedFrame
  <1>6. frame' = Append(h, c)
    BY <1>3
  <1> HIDE DEF h, c
  <1>7. frame' \in Seq(Cells) /\ Len(frame') <= MaxDepth
    BY <1>2, <1>4, <1>5, <1>6, PushedFrame, ResultsAssumption
  <1>8. (\A x : Reports(h, x) => Reports(frame', x)) /\ (~c.has /\ ~c.checked => Reports(frame', c.it))
    BY <1>4, <1>5, <1>6, ReportsPushed
  <1>9. /\ told' \subseteq Errors /\ made' \in 0 .. MaxErr
        /\ IsExcepted => \A x \in 1 .. made' :
              (x \in 1 .. made /\ ~Reports(frame, x)) \/ Reports(frame', x) \/ x \in told'
    <2>1. CASE frame[i].has
      BY <1>2, <1>3, <1>5, <1>8, <2>1, MadeAreErrors DEF Asked, ResultsInv
    <2>2. CASE ~frame[i].has
      <3>1. made' \in 0 .. MaxErr /\ 1 .. made' = 1 .. made \cup {e} /\ 1 .. made \subseteq Errors
        BY <1>3, <2>2, NewErrIs
      <3>2. IsExcepted => Reports(frame', e)
        BY <1>4, <1>8, <2>2
      <3>3. \A x \in 1 .. made : Reports(frame, x) => Reports(frame', x) \/ x \in told'
        BY <1>2, <1>5, <1>8, <2>2, <3>1 DEF Asked
      <3>4. QED
        BY <1>2, <3>1, <3>2, <3>3 DEF Asked, ResultsInv
    <2>3. QED
      BY <2>1, <2>2
  <1>10. Kept
    BY <1>2, <1>7, <1>9 DEF Kept, ResultsInv
  <1>11. QED
    BY <1>2, <1>10, CalmStep

\* The last local is gone: who is silenced is the last one.
LEMMA PoppedReports ==
    ASSUME NEW S, NEW f \in Seq(S), f # <<>>
    PROVE  \A e : Reports(f, e) => Reports(Front(f), e) \/ (X!unchecked(Last(f)) /\ e = Last(f).it)
  BY PoppedFrame DEF Reports, X!unchecked

LEMMA EndOfScopeStep == ResultsInv /\ EndOfScope => ResultsInv'
  <1> SUFFICES ASSUME ResultsInv, EndOfScope PROVE ResultsInv'
    OBVIOUS
  <1>1. mode = "run" /\ frame \in Seq(Cells) /\ frame # <<>> /\ frame' = Front(frame) /\ UNCHANGED <<made, mislaid, told>>
    BY DEF EndOfScope, Popped, ResultsInv
  <1>2. frame' \in Seq(Cells) /\ Len(frame') <= MaxDepth
    BY <1>1, PoppedFrame, ResultsAssumption DEF ResultsInv
  <1>3. \A e : Reports(frame, e) => Reports(frame', e) \/ (X!unchecked(Last(frame)) /\ e = Last(frame).it)
    BY <1>1, PoppedReports
  <1>4. CASE X!unchecked(Last(frame))
    <2>1. Throw(Last(frame).it, "dtor", Top)
      BY <1>4 DEF EndOfScope
    <2>2. QED
      BY <1>1, <1>2, <1>3, <2>1, ThrowStep DEF ResultsInv
  <1>5. CASE ~X!unchecked(Last(frame))
    <2>1. Kept
      BY <1>1, <1>2, <1>3, <1>5 DEF Kept, ResultsInv
    <2>2. QED
      BY <1>1, <1>5, <2>1, CalmStep DEF EndOfScope
  <1>6. QED
    BY <1>4, <1>5

\* Whoever threw from value() is checked: it is not the local that terminates.
LEMMA UnwindStep == ResultsInv /\ Unwind => ResultsInv'
  <1> SUFFICES ASSUME ResultsInv, Unwind PROVE ResultsInv'
    OBVIOUS
  <1>1. /\ mode = "unwinding" /\ frame \in Seq(Cells) /\ frame # <<>> /\ frame' = Front(frame)
        /\ UNCHANGED <<flavor, flying, made, mislaid, told>> /\ Quiet(frame)
    BY DEF Unwind, Popped, ResultsInv
  <1>2. Cells' = Cells /\ IsExcepted' = IsExcepted /\ Class'
    BY <1>1, SameClass DEF ResultsInv
  <1>3. frame' \in Seq(Cells) /\ Len(frame') <= MaxDepth
    BY <1>1, PoppedFrame, ResultsAssumption DEF ResultsInv
  <1>4. Quiet(frame')
    BY <1>1, PoppedFrame DEF Quiet
  <1>5. CASE X!unchecked(Last(frame))
    <2>1. mode' = "terminated" /\ killer' = Len(frame)
      BY <1>5 DEF Unwind, Top
    <2>2. flying.by = "value" => killer' # flying.obj
      BY <1>1, <1>5, <2>1, PoppedFrame DEF Quiet, X!unchecked
    <2>3. QED
      BY <1>1, <1>2, <1>3, <2>1, <2>2 DEF ResultsInv, ThrowerIsQuiet
  <1>6. CASE ~X!unchecked(Last(frame))
    <2>1. mode' = mode /\ killer' = killer
      BY <1>6 DEF Unwind
    <2>2. \A e : Reports(frame, e) => Reports(frame', e)
      BY <1>1, <1>6, PoppedReports
    <2>3. IsExcepted => \A e \in 1 .. made : Reports(frame', e) \/ e \in told \cup mislaid \cup {flying.err}
      BY <1>1, <2>2 DEF ResultsInv
    <2>4. Quiet(frame)'
      BY <1>1, <1>4 DEF Quiet
    <2>5. ThrowerIsQuiet'
      BY <1>1, <2>1 DEF ThrowerIsQuiet
    <2>6. QED
      BY <1>1, <1>2, <1>3, <2>1, <2>3, <2>4, <2>5 DEF ResultsInv, Reports
  <1>7. QED
    BY <1>5, <1>6

LEMMA CatchStep == ResultsInv /\ Catch => ResultsInv'
  <1> SUFFICES ASSUME ResultsInv, Catch PROVE ResultsInv'
    OBVIOUS
  <1>1. /\ mode = "unwinding" /\ mode' = "run" /\ flying' = [err |-> 0, by |-> "none", obj |-> 0]
        /\ told' = told \cup ({flying.err} \cap Errors) /\ UNCHANGED <<flavor, frame, killer, made, mislaid>>
    BY DEF Catch
  <1>2. Cells' = Cells /\ IsExcepted' = IsExcepted /\ Class'
    BY <1>1, SameClass DEF ResultsInv
  <1>3. \A e : Reports(frame, e)' = Reports(frame, e)
    BY <1>1 DEF Reports
  <1>4. told' \subseteq Errors /\ ThrowerIsQuiet'
    BY <1>1 DEF ResultsInv, ThrowerIsQuiet
  <1>5. IsExcepted => \A e \in 1 .. made : Reports(frame, e) \/ e \in told' \cup mislaid
    BY <1>1, MadeAreErrors DEF ResultsInv
  <1>6. QED
    BY <1>1, <1>2, <1>4, <1>5 DEF ResultsInv, Reports

(***************************************************************************)
(* The specification.                                                      *)
(***************************************************************************)
LEMMA NextInv ==
    ASSUME NoThrowingAssign
    PROVE  ResultsInv /\ [Next]_vars => ResultsInv'
  <1> SUFFICES ASSUME ResultsInv, [Next]_vars PROVE ResultsInv'
    OBVIOUS
  <1>1. CASE MakeValue \/ MakeError
    BY <1>1, MakeValueStep, MakeErrorStep
  <1>2. ASSUME NEW i \in Local, CopyConstruct(i) \/ MoveConstruct(i) PROVE ResultsInv'
    BY <1>2, CopyConstructStep, MoveConstructStep
  <1>3. ASSUME NEW i \in Local, AssignValue(i) \/ AssignUnexpected(i) \/ Emplace(i) PROVE ResultsInv'
    BY <1>3, AssignValueStep, AssignUnexpectedStep, EmplaceStep
  <1>4. ASSUME NEW i \in Local, Check(i) \/ Value(i) \/ AndThen(i) \/ MapError(i) PROVE ResultsInv'
    BY <1>4, CheckStep, ValueStep, AndThenStep, MapErrorStep
  <1>5. ASSUME NEW i \in Local, NEW j \in Local, CopyAssign(i, j) \/ MoveAssign(i, j) \/ Swap(i, j) \/ Compare(i, j)
        PROVE  ResultsInv'
    BY <1>5, CopyAssignStep, MoveAssignStep, SwapStep, CompareStep
  <1>6. CASE EndOfScope \/ Unwind \/ Catch
    BY <1>6, EndOfScopeStep, UnwindStep, CatchStep
  <1>7. CASE UNCHANGED vars
    <2>1. UNCHANGED <<flavor, frame, mode, flying, killer, made, told, mislaid>>
      BY <1>7 DEF vars
    <2>2. Cells' = Cells /\ IsExcepted' = IsExcepted /\ Class'
      BY <2>1, SameClass DEF ResultsInv
    <2>3. QED
      BY <2>1, <2>2 DEF ResultsInv, Reports, Quiet, ThrowerIsQuiet
  <1>8. QED
    BY <1>1, <1>2, <1>3, <1>4, <1>5, <1>6, <1>7 DEF Next

LEMMA SpecInv == ASSUME NoThrowingAssign PROVE Spec => []ResultsInv
  <1>1. ResultsInv /\ [Next]_vars => ResultsInv'
    BY NextInv
  <1>2. QED
    BY <1>1, InitInv, PTL DEF Spec

\* A local of any of the four classes is always a sum (TypeOK: the flag says which
\* member of the union is alive), if the values can be assigned without a throw.
THEOREM SpecTypeOK == ASSUME NoThrowingAssign PROVE Spec => []TypeOK
  <1>1. ResultsInv => TypeOK
    BY InvImplies
  <1>2. QED
    BY <1>1, SpecInv, PTL

\* An error of an excepted that nobody checked is never lost (NothingLost), however
\* many locals hold it in turn and whatever throws while it is under way.
THEOREM SpecNothingLost == ASSUME NoThrowingAssign PROVE Spec => []NothingLost
  <1>1. ResultsInv => NothingLost
    BY InvImplies
  <1>2. QED
    BY <1>1, SpecInv, PTL

\* A local that throws from value() never ends the process when that exception
\* passes its own scope (ThrowerIsQuiet).
THEOREM SpecThrowerIsQuiet == ASSUME NoThrowingAssign PROVE Spec => []ThrowerIsQuiet
  <1>1. ResultsInv => ThrowerIsQuiet
    BY InvImplies
  <1>2. QED
    BY <1>1, SpecInv, PTL

(***************************************************************************)
(* The refinement.  Seen(f) is what SumType sees of a stack of cells: every *)
(* operation of the four classes is one operation on that, or none.        *)
(***************************************************************************)
Plain(c) == [ok |-> c.has, it |-> c.it]
Seen(f) == [i \in DOMAIN f |-> Plain(f[i])]
Plains == {Plain(c) : c \in Cells}

LEMMA SeenIs ==
    ASSUME NEW f \in Seq(Cells)
    PROVE  /\ Seen(f) \in Seq(Plains) /\ Len(Seen(f)) = Len(f) /\ DOMAIN Seen(f) = DOMAIN f
           /\ DOMAIN f = 1 .. Len(f) /\ Len(f) \in Nat
           /\ \A k \in DOMAIN f : Seen(f)[k] = Plain(f[k]) /\ f[k] \in Cells
  <1>1. DOMAIN f = 1 .. Len(f) /\ Len(f) \in Nat /\ \A k \in DOMAIN f : f[k] \in Cells
    BY LenProperties, ElementOfSeq
  <1>2. Seen(f) \in [1 .. Len(f) -> Plains]
    BY <1>1 DEF Seen, Plains
  <1>3. Seen(f) \in Seq(Plains) /\ Len(Seen(f)) = Len(f)
    BY <1>1, <1>2, SeqDef, LenProperties
  <1>4. QED
    BY <1>1, <1>3 DEF Seen

LEMMA SeenPushed ==
    ASSUME NEW f \in Seq(Cells), NEW c \in Cells
    PROVE  Seen(Append(f, c)) = Append(Seen(f), Plain(c))
  <1>1. Append(f, c) \in Seq(Cells) /\ Plain(c) \in Plains
    BY PushedFrame DEF Plains
  <1>2. /\ Seen(f) \in Seq(Plains) /\ Len(Seen(f)) = Len(f) /\ Len(f) \in Nat /\ DOMAIN Seen(f) = 1 .. Len(f)
        /\ DOMAIN f = 1 .. Len(f) /\ \A k \in 1 .. Len(f) : Seen(f)[k] = Plain(f[k])
    BY SeenIs
  <1>3. /\ Append(Seen(f), Plain(c)) \in Seq(Plains) /\ Len(Append(Seen(f), Plain(c))) = Len(f) + 1
        /\ Append(Seen(f), Plain(c))[Len(f) + 1] = Plain(c)
        /\ \A k \in 1 .. Len(f) : Append(Seen(f), Plain(c))[k] = Plain(f[k])
    BY <1>1, <1>2, PushedFrame
  <1>4. /\ Len(Append(f, c)) = Len(f) + 1 /\ DOMAIN Append(f, c) = 1 .. Len(f) + 1
        /\ Append(f, c)[Len(f) + 1] = c /\ \A k \in 1 .. Len(f) : Append(f, c)[k] = f[k]
    BY <1>2, PushedFrame
  <1>5. /\ Seen(Append(f, c)) \in Seq(Plains) /\ Len(Seen(Append(f, c))) = Len(f) + 1
        /\ \A k \in 1 .. Len(f) + 1 : Seen(Append(f, c))[k] = Plain(Append(f, c)[k])
    BY <1>1, <1>4, SeenIs
  <1>6. \A k \in 1 .. Len(f) + 1 : Seen(Append(f, c))[k] = Append(Seen(f), Plain(c))[k]
    BY <1>2, <1>3, <1>4, <1>5
  <1>7. QED
    BY <1>3, <1>5, <1>6, SeqEqual

LEMMA SeenSet ==
    ASSUME NEW f \in Seq(Cells), NEW i \in DOMAIN f, NEW c \in Cells
    PROVE  Seen([f EXCEPT ![i] = c]) = [Seen(f) EXCEPT ![i] = Plain(c)]
  <1> DEFINE g == [f EXCEPT ![i] = c]
  <1>1. DOMAIN g = DOMAIN f /\ g[i] = c /\ \A k \in DOMAIN f \ {i} : g[k] = f[k]
    BY SetFrame
  <1> HIDE DEF g
  <1>2. Seen(g) = [Seen(f) EXCEPT ![i] = Plain(c)]
    BY <1>1 DEF Seen
  <1>3. QED
    BY <1>2 DEF g

LEMMA SeenPopped ==
    ASSUME NEW f \in Seq(Cells), f # <<>>
    PROVE  Seen(Front(f)) = Front(Seen(f)) /\ Seen(f) # <<>>
  <1>1. Seen(f) # <<>>
    BY SeenIs, EmptySeq
  <1>2. Front(f) \in Seq(Cells) /\ Front(Seen(f)) \in Seq(Plains)
    BY <1>1, SeenIs, PoppedFrame
  <1>3. Len(Seen(Front(f))) = Len(f) - 1 /\ Len(Front(Seen(f))) = Len(f) - 1
    BY <1>1, <1>2, SeenIs, PoppedFrame
  <1>4. \A k \in 1 .. Len(f) - 1 : Seen(Front(f))[k] = Front(Seen(f))[k]
    BY <1>1, <1>2, SeenIs, PoppedFrame
  <1>5. QED
    BY <1>1, <1>2, <1>3, <1>4, SeenIs, SeqEqual

\* To ask a local is no change of the sum.
LEMMA SeenChecked ==
    ASSUME Class, NEW f \in Seq(Cells), NEW i \in DOMAIN f
    PROVE  Seen([f EXCEPT ![i] = CheckCell(f[i])]) = Seen(f)
  <1> DEFINE g == [f EXCEPT ![i] = CheckCell(f[i])]
  <1>1. DOMAIN g = DOMAIN f /\ \A k \in DOMAIN f : g[k].has = f[k].has /\ g[k].it = f[k].it
    BY CheckedFrame
  <1> HIDE DEF g
  <1>2. Seen(g) = Seen(f)
    BY <1>1 DEF Seen, Plain
  <1>3. QED
    BY <1>2 DEF g

LEMMA ContainedIs == Contained = Seen(frame) /\ Contained' = Seen(frame')
  BY DEF Contained, Seen, Plain, Local

(***************************************************************************)
(* The operations of SumType, as changes of what is seen of the stack.     *)
(***************************************************************************)
LEMMA IsNew ==
    ASSUME ResultsInv, Len(frame) < MaxDepth, made' = made,
           NEW v \in Values \cup {Void}, Seen(frame') = Append(Seen(frame), [ok |-> TRUE, it |-> v])
    PROVE  Sums!Next
  BY ContainedIs, SeenIs DEF ResultsInv, Sums!Next, Sums!New, Sums!Push, Sums!Room, Sums!Ok

LEMMA IsNewError ==
    ASSUME ResultsInv, Len(frame) < MaxDepth, made < MaxErr, made' = made + 1,
           Seen(frame') = Append(Seen(frame), [ok |-> FALSE, it |-> made'])
    PROVE  Sums!Next
  BY ContainedIs, SeenIs DEF ResultsInv, Sums!Next, Sums!NewError, Sums!Push, Sums!Room, Sums!Err

LEMMA IsCopy ==
    ASSUME ResultsInv, Len(frame) < MaxDepth, made' = made,
           NEW i \in Local, Seen(frame') = Append(Seen(frame), Plain(frame[i]))
    PROVE  Sums!Next
  BY ContainedIs, SeenIs, LocalIs DEF ResultsInv, Sums!Next, Sums!Copy, Sums!Push, Sums!Room

LEMMA IsPop ==
    ASSUME ResultsInv, frame # <<>>, made' = made, Seen(frame') = Front(Seen(frame))
    PROVE  Sums!Next
  BY ContainedIs, SeenPopped DEF ResultsInv, Sums!Next, Sums!Pop, Sums!Front, Front

LEMMA TakenIs ==
    ASSUME Class, NEW c \in Cells
    PROVE  Sums!Taken(Plain(c)) = Plain(MovedFrom(c))
  <1>1. /\ MovedFrom(c).has = c.has /\ MovedFrom(c).it = IF IsVoid /\ c.has THEN Void ELSE Moved
        /\ c.has \in BOOLEAN /\ (IsVoid /\ c.has => c.it = Void) /\ (~IsVoid /\ c.has => c.it \in Values \cup {Moved})
    BY MovedFromIs DEF Cells, IsCell, Held
  <1>2. QED
    BY <1>1, ResultsAssumption DEF Sums!Taken, Sums!Ok, Plain

LEMMA IsMoveOut ==
    ASSUME ResultsInv, Len(frame) < MaxDepth, made' = made, NEW i \in Local,
           Seen(frame') = Append([Seen(frame) EXCEPT ![i] = Plain(MovedFrom(frame[i]))], Plain(frame[i]))
    PROVE  Sums!Next
  BY ContainedIs, SeenIs, LocalIs, TakenIs DEF ResultsInv, Sums!Next, Sums!MoveOut, Sums!Room

LEMMA IsSet ==
    ASSUME ResultsInv, NEW i \in Local,
           \/ \E v \in Values \cup {Void} : Seen(frame') = [Seen(frame) EXCEPT ![i] = [ok |-> TRUE, it |-> v]] /\ made' = made
           \/ made < MaxErr /\ made' = made + 1 /\ Seen(frame') = [Seen(frame) EXCEPT ![i] = [ok |-> FALSE, it |-> made']]
    PROVE  Sums!Next
  BY ContainedIs, SeenIs, LocalIs DEF ResultsInv, Sums!Next, Sums!Set, Sums!Ok, Sums!Err

LEMMA IsAssign ==
    ASSUME ResultsInv, NEW i \in Local, NEW j \in Local, made' = made,
           Seen(frame') = [Seen(frame) EXCEPT ![i] = Plain(frame[j])]
    PROVE  Sums!Next
  <1>1. Contained = Seen(frame) /\ Contained' = Seen(frame') /\ i \in DOMAIN Seen(frame) /\ j \in DOMAIN Seen(frame)
        /\ Seen(frame)[i] = Plain(frame[i]) /\ Seen(frame)[j] = Plain(frame[j])
    BY ContainedIs, SeenIs, LocalIs DEF ResultsInv
  <1>2. Sums!Assign(i, j)
    BY <1>1 DEF Sums!Assign
  <1>3. QED
    BY <1>1, <1>2 DEF Sums!Next

LEMMA IsMoveTo ==
    ASSUME ResultsInv, NEW i \in Local, NEW j \in Local, i # j, made' = made,
           Seen(frame') = [Seen(frame) EXCEPT ![i] = Plain(frame[j]), ![j] = Plain(MovedFrom(frame[j]))]
    PROVE  Sums!Next
  <1>1. Contained = Seen(frame) /\ Contained' = Seen(frame') /\ i \in DOMAIN Seen(frame) /\ j \in DOMAIN Seen(frame)
        /\ Seen(frame)[j] = Plain(frame[j]) /\ Sums!Taken(Seen(frame)[j]) = Plain(MovedFrom(frame[j]))
    BY ContainedIs, SeenIs, LocalIs, TakenIs DEF ResultsInv
  <1>2. Sums!MoveTo(i, j)
    BY <1>1 DEF Sums!MoveTo
  <1>3. QED
    BY <1>1, <1>2 DEF Sums!Next

LEMMA IsSwap ==
    ASSUME ResultsInv, NEW i \in Local, NEW j \in Local, made' = made,
           Seen(frame') = [Seen(frame) EXCEPT ![i] = Plain(frame[j]), ![j] = Plain(frame[i])]
    PROVE  Sums!Next
  <1>1. Contained = Seen(frame) /\ Contained' = Seen(frame') /\ i \in DOMAIN Seen(frame) /\ j \in DOMAIN Seen(frame)
        /\ Seen(frame)[i] = Plain(frame[i]) /\ Seen(frame)[j] = Plain(frame[j])
    BY ContainedIs, SeenIs, LocalIs DEF ResultsInv
  <1>2. Sums!Swap(i, j)
    BY <1>1 DEF Sums!Swap
  <1>3. QED
    BY <1>1, <1>2 DEF Sums!Next

LEMMA IsNoChange ==
    ASSUME Seen(frame') = Seen(frame), made' = made
    PROVE  UNCHANGED Sums!vars
  BY ContainedIs DEF Sums!vars

(***************************************************************************)
(* One lemma for each operation, again.                                    *)
(***************************************************************************)
Refines == [Sums!Next]_(Sums!vars)

LEMMA MakeValueRefines == ResultsInv /\ MakeValue => Refines
  <1> SUFFICES ASSUME ResultsInv, MakeValue PROVE Sums!Next
    BY DEF Refines
  <1>1. PICK v \in Contents : frame' = Append(frame, MakeVal(v))
    BY DEF MakeValue
  <1>2. MakeVal(v) \in Cells /\ Plain(MakeVal(v)) = [ok |-> TRUE, it |-> v]
    BY MakeValIs DEF ResultsInv, Plain, Cells
  <1>3. Seen(frame') = Append(Seen(frame), [ok |-> TRUE, it |-> v])
    BY <1>1, <1>2, SeenPushed DEF ResultsInv
  <1>4. v \in Values \cup {Void} /\ Len(frame) < MaxDepth /\ made' = made
    BY DEF Contents, MakeValue, Room
  <1>5. QED
    BY <1>3, <1>4, IsNew

LEMMA MakeErrorRefines == ResultsInv /\ MakeError => Refines
  <1> SUFFICES ASSUME ResultsInv, MakeError PROVE Sums!Next
    BY DEF Refines
  <1>1. PICK e \in Errors : NewErr(e) /\ frame' = Append(frame, MakeErr(e))
    BY DEF MakeError
  <1>2. MakeErr(e) \in Cells /\ Plain(MakeErr(e)) = [ok |-> FALSE, it |-> e]
    BY MakeErrIs DEF ResultsInv, Plain, Cells
  <1>3. Seen(frame') = Append(Seen(frame), [ok |-> FALSE, it |-> made'])
    BY <1>1, <1>2, SeenPushed DEF ResultsInv, NewErr
  <1>4. Len(frame) < MaxDepth /\ made < MaxErr /\ made' = made + 1
    BY <1>1 DEF NewErr, MakeError, Room
  <1>5. QED
    BY <1>3, <1>4, IsNewError

LEMMA CopyConstructRefines == ASSUME NEW i \in Local PROVE ResultsInv /\ CopyConstruct(i) => Refines
  <1> SUFFICES ASSUME ResultsInv, CopyConstruct(i) PROVE Sums!Next
    BY DEF Refines
  <1>1. Construct(frame[i]) \in Cells /\ Plain(Construct(frame[i])) = Plain(frame[i])
    BY LocalIs, ConstructIs DEF ResultsInv, Plain
  <1>2. frame' = Append(frame, Construct(frame[i])) /\ Len(frame) < MaxDepth /\ made' = made
    BY DEF CopyConstruct, Room
  <1>3. Seen(frame') = Append(Seen(frame), Plain(frame[i]))
    BY <1>1, <1>2, SeenPushed DEF ResultsInv
  <1>4. QED
    BY <1>2, <1>3, IsCopy

LEMMA MoveConstructRefines == ASSUME NEW i \in Local PROVE ResultsInv /\ MoveConstruct(i) => Refines
  <1> SUFFICES ASSUME ResultsInv, MoveConstruct(i) PROVE Sums!Next
    BY DEF Refines
  <1> DEFINE c == Construct(frame[i])
             m == MovedFrom(frame[i])
             g == [frame EXCEPT ![i] = m]
  <1>1. c \in Cells /\ Plain(c) = Plain(frame[i]) /\ m \in Cells /\ i \in DOMAIN frame /\ frame \in Seq(Cells)
    BY LocalIs, ConstructIs, MovedFromIs DEF ResultsInv, Plain
  <1>2. frame' = Append(g, c) /\ Len(frame) < MaxDepth /\ made' = made
    BY DEF MoveConstruct, Room
  <1> HIDE DEF c, m
  <1>3. g \in Seq(Cells) /\ Seen(g) = [Seen(frame) EXCEPT ![i] = Plain(m)]
    BY <1>1, SetFrame, SeenSet
  <1> HIDE DEF g
  <1>4. Seen(frame') = Append([Seen(frame) EXCEPT ![i] = Plain(m)], Plain(frame[i]))
    BY <1>1, <1>2, <1>3, SeenPushed
  <1>5. QED
    BY <1>2, <1>4, IsMoveOut DEF m

LEMMA CopyAssignRefines == ASSUME NEW i \in Local, NEW j \in Local PROVE ResultsInv /\ CopyAssign(i, j) => Refines
  <1> SUFFICES ASSUME ResultsInv, CopyAssign(i, j) PROVE Sums!Next
    BY DEF Refines
  <1> DEFINE c == Assigned(frame[i], frame[j])
  <1>1. c \in Cells /\ Plain(c) = Plain(frame[j]) /\ i \in DOMAIN frame /\ frame \in Seq(Cells)
    BY LocalIs, AssignedIs DEF ResultsInv, Plain
  <1>2. frame' = [frame EXCEPT ![i] = c] /\ made' = made
    BY DEF CopyAssign
  <1> HIDE DEF c
  <1>3. Seen(frame') = [Seen(frame) EXCEPT ![i] = Plain(frame[j])]
    <2>1. Seen([frame EXCEPT ![i] = c]) = [Seen(frame) EXCEPT ![i] = Plain(c)]
      BY <1>1, SeenSet
    <2>2. QED
      BY <1>1, <1>2, <2>1, Zenon
  <1>4. QED
    BY <1>2, <1>3, IsAssign

\* Two locals change.
LEMMA SeenTwo ==
    ASSUME NEW f \in Seq(Cells), NEW i \in DOMAIN f, NEW j \in DOMAIN f, NEW c \in Cells, NEW d \in Cells
    PROVE  Seen([f EXCEPT ![i] = c, ![j] = d]) = [Seen(f) EXCEPT ![i] = Plain(c), ![j] = Plain(d)]
  <1> DEFINE h == [f EXCEPT ![i] = c]
  <1>1. h \in Seq(Cells) /\ DOMAIN h = DOMAIN f /\ Seen(h) = [Seen(f) EXCEPT ![i] = Plain(c)]
    BY SetFrame, SeenSet
  <1> HIDE DEF h
  <1>2. Seen([h EXCEPT ![j] = d]) = [Seen(h) EXCEPT ![j] = Plain(d)]
    <2>1. h \in Seq(Cells) /\ j \in DOMAIN h
      BY <1>1
    <2>2. QED
      BY <2>1, SeenSet
  <1>3. QED
    BY <1>1, <1>2 DEF h

LEMMA MoveAssignRefines == ASSUME NEW i \in Local, NEW j \in Local PROVE ResultsInv /\ MoveAssign(i, j) => Refines
  <1> SUFFICES ASSUME ResultsInv, MoveAssign(i, j) PROVE Refines
    OBVIOUS
  <1>1. CASE AssignThrows(frame[i])
    BY <1>1, IsNoChange DEF MoveAssign, Refines
  <1>2. CASE ~AssignThrows(frame[i])
    <2> DEFINE a == Assigned(frame[i], frame[j])
               b == MovedFrom(frame[j])
    <2>1. /\ a \in Cells /\ Plain(a) = Plain(frame[j]) /\ b \in Cells
          /\ i \in DOMAIN frame /\ j \in DOMAIN frame /\ frame \in Seq(Cells)
      BY LocalIs, AssignedIs, MovedFromIs DEF ResultsInv, Plain
    <2>2. frame' = [frame EXCEPT ![i] = a, ![j] = b] /\ made' = made /\ i # j
      BY <1>2 DEF MoveAssign
    <2> HIDE DEF a, b
    <2>3. Seen(frame') = [Seen(frame) EXCEPT ![i] = Plain(frame[j]), ![j] = Plain(b)]
      <3>1. Seen([frame EXCEPT ![i] = a, ![j] = b]) = [Seen(frame) EXCEPT ![i] = Plain(a), ![j] = Plain(b)]
        BY <2>1, SeenTwo
      <3>2. QED
        BY <2>1, <2>2, <3>1, Zenon
    <2>4. QED
      BY <2>2, <2>3, IsMoveTo DEF b, Refines
  <1>3. QED
    BY <1>1, <1>2

LEMMA SwapRefines == ASSUME NEW i \in Local, NEW j \in Local PROVE ResultsInv /\ Swap(i, j) => Refines
  <1> SUFFICES ASSUME ResultsInv, Swap(i, j) PROVE Refines
    OBVIOUS
  <1> DEFINE s == Swapped(frame[i], frame[j])
             a == s.this
             b == s.ex
  <1>1. /\ a \in Cells /\ Plain(a) = Plain(frame[j]) /\ b \in Cells /\ Plain(b) = Plain(frame[i])
        /\ i \in DOMAIN frame /\ j \in DOMAIN frame /\ frame \in Seq(Cells)
    BY LocalIs, SwappedIs DEF ResultsInv, Plain
  <1>2. frame' = (IF i = j THEN frame ELSE [frame EXCEPT ![i] = a, ![j] = b]) /\ made' = made
    BY DEF Swap
  <1> HIDE DEF s, a, b
  <1>3. CASE i = j
    BY <1>2, <1>3, IsNoChange DEF Refines
  <1>4. CASE i # j
    <2>1. Seen(frame') = [Seen(frame) EXCEPT ![i] = Plain(frame[j]), ![j] = Plain(frame[i])]
      <3>1. Seen([frame EXCEPT ![i] = a, ![j] = b]) = [Seen(frame) EXCEPT ![i] = Plain(a), ![j] = Plain(b)]
        BY <1>1, SeenTwo
      <3>2. QED
        BY <1>1, <1>2, <1>4, <3>1, Zenon
    <2>2. QED
      BY <1>2, <2>1, IsSwap DEF Refines
  <1>5. QED
    BY <1>3, <1>4

LEMMA AssignValueRefines ==
    ASSUME NoThrowingAssign, NEW i \in Local
    PROVE  ResultsInv /\ AssignValue(i) => Refines
  <1> SUFFICES ASSUME ResultsInv, AssignValue(i) PROVE Sums!Next
    BY DEF Refines
  <1>1. PICK v \in Contents : frame' = [frame EXCEPT ![i] = SetVal(@, v, FALSE)]
    BY DEF AssignValue, NoThrowingAssign
  <1> DEFINE c == SetVal(frame[i], v, FALSE)
             r == [ok |-> TRUE, it |-> v]
  <1>2. v \in Values /\ ~IsVoid /\ made' = made /\ i \in DOMAIN frame /\ frame \in Seq(Cells) /\ frame[i] \in Cells
    BY LocalIs DEF AssignValue, Contents, ResultsInv
  <1>3. c \in Cells /\ Plain(c) = r
    BY <1>2, SetValIs DEF ResultsInv, Plain, Cells
  <1>4. frame' = [frame EXCEPT ![i] = c]
    BY <1>1
  <1> HIDE DEF c, r
  <1>5. Seen([frame EXCEPT ![i] = c]) = [Seen(frame) EXCEPT ![i] = Plain(c)]
    BY <1>2, <1>3, SeenSet
  <1>6. Seen(frame') = [Seen(frame) EXCEPT ![i] = r]
    BY <1>3, <1>4, <1>5, Zenon
  <1>7. QED
    BY <1>2, <1>6, IsSet DEF r

LEMMA AssignUnexpectedRefines == ASSUME NEW i \in Local PROVE ResultsInv /\ AssignUnexpected(i) => Refines
  <1> SUFFICES ASSUME ResultsInv, AssignUnexpected(i) PROVE Sums!Next
    BY DEF Refines
  <1>1. PICK e \in Errors : NewErr(e) /\ frame' = [frame EXCEPT ![i] = SetErr(@, e)]
    BY DEF AssignUnexpected
  <1> DEFINE c == SetErr(frame[i], e)
             r == [ok |-> FALSE, it |-> made']
  <1>2. /\ i \in DOMAIN frame /\ frame \in Seq(Cells) /\ frame[i] \in Cells
        /\ made < MaxErr /\ made' = made + 1 /\ made' = e
    BY <1>1, LocalIs DEF NewErr, ResultsInv
  <1>3. c \in Cells /\ Plain(c) = r
    BY <1>2, SetErrIs DEF ResultsInv, Plain, Cells
  <1>4. frame' = [frame EXCEPT ![i] = c]
    BY <1>1
  <1> HIDE DEF c, r
  <1>5. Seen([frame EXCEPT ![i] = c]) = [Seen(frame) EXCEPT ![i] = Plain(c)]
    BY <1>2, <1>3, SeenSet
  <1>6. Seen(frame') = [Seen(frame) EXCEPT ![i] = r]
    BY <1>3, <1>4, <1>5, Zenon
  <1>7. QED
    BY <1>2, <1>6, IsSet DEF r

\* An emplace that throws has put everything back.
LEMMA EmplaceRefines == ASSUME NEW i \in Local PROVE ResultsInv /\ Emplace(i) => Refines
  <1> SUFFICES ASSUME ResultsInv, Emplace(i) PROVE Refines
    OBVIOUS
  <1>1. PICK v \in Contents, throws \in BOOLEAN : frame' = [frame EXCEPT ![i] = Emplaced(@, v, throws)]
    BY DEF Emplace
  <1> DEFINE c == Emplaced(frame[i], v, throws)
             r == [ok |-> TRUE, it |-> v]
  <1>2. v \in Values /\ ~IsVoid /\ made' = made /\ i \in DOMAIN frame /\ frame \in Seq(Cells) /\ frame[i] \in Cells
    BY LocalIs DEF Emplace, Contents, ResultsInv
  <1>3. c \in Cells /\ (throws => c = frame[i]) /\ (~throws => Plain(c) = r)
    <2>1. CASE throws
      BY <1>2, <2>1, EmplacedIs DEF ResultsInv
    <2>2. CASE ~throws
      <3>1. LET d == Emplaced(frame[i], v, FALSE) IN d \in Cells /\ d.has /\ d.it = v
        BY <1>2, EmplacedIs DEF ResultsInv
      <3>2. c = Emplaced(frame[i], v, FALSE)
        BY <2>2
      <3> HIDE DEF c
      <3>3. c \in Cells /\ c.has /\ c.it = v
        BY <3>1, <3>2
      <3>4. Plain(c) = r
        BY <3>3 DEF Plain, Cells
      <3>5. QED
        BY <2>2, <3>3, <3>4
    <2>3. QED
      BY <2>1, <2>2
  <1>4. frame' = [frame EXCEPT ![i] = c]
    BY <1>1
  <1> HIDE DEF c, r
  <1>5. CASE throws
    <2>1. frame' = frame
      BY <1>2, <1>3, <1>4, <1>5, LenProperties
    <2>2. QED
      BY <1>2, <2>1, IsNoChange DEF Refines
  <1>6. CASE ~throws
    <2>1. Seen([frame EXCEPT ![i] = c]) = [Seen(frame) EXCEPT ![i] = Plain(c)]
      BY <1>2, <1>3, SeenSet
    <2>2. Seen(frame') = [Seen(frame) EXCEPT ![i] = r]
      BY <1>3, <1>4, <1>6, <2>1, Zenon
    <2>3. QED
      BY <1>2, <2>2, IsSet DEF r, Refines
  <1>7. QED
    BY <1>5, <1>6

LEMMA CheckRefines == ASSUME NEW i \in Local PROVE ResultsInv /\ (Check(i) \/ Value(i)) => Refines
  <1> SUFFICES ASSUME ResultsInv, Check(i) \/ Value(i) PROVE UNCHANGED Sums!vars
    BY DEF Refines
  <1>1. frame' = [frame EXCEPT ![i] = CheckCell(frame[i])] /\ made' = made
    BY DEF Check, Value
  <1>2. Seen([frame EXCEPT ![i] = CheckCell(frame[i])]) = Seen(frame)
    BY LocalIs, SeenChecked DEF ResultsInv
  <1>3. QED
    BY <1>1, <1>2, IsNoChange

LEMMA CompareRefines == ASSUME NEW i \in Local, NEW j \in Local PROVE ResultsInv /\ Compare(i, j) => Refines
  <1> SUFFICES ASSUME ResultsInv, Compare(i, j) PROVE UNCHANGED Sums!vars
    BY DEF Refines
  <1>1. \A k \in Local : CheckCell(frame[k]).has = frame[k].has /\ CheckCell(frame[k]).it = frame[k].it
    BY LocalIs, CheckCellIs DEF ResultsInv
  <1>2. frame' = [k \in Local |-> IF k \in {i, j} THEN CheckCell(frame[k]) ELSE frame[k]] /\ made' = made
    BY DEF Compare
  <1>3. Seen(frame') = Seen(frame)
    BY <1>1, <1>2 DEF Seen, Plain, Local
  <1>4. QED
    BY <1>2, <1>3, IsNoChange

\* A checked local, and a new one behind it.
LEMMA SeenCheckedPushed ==
    ASSUME Class, NEW f \in Seq(Cells), NEW i \in DOMAIN f, NEW c \in Cells
    PROVE  Seen(Append([f EXCEPT ![i] = CheckCell(f[i])], c)) = Append(Seen(f), Plain(c))
  <1> DEFINE h == [f EXCEPT ![i] = CheckCell(f[i])]
  <1>1. h \in Seq(Cells) /\ Seen(h) = Seen(f)
    BY CheckedFrame, SeenChecked
  <1> HIDE DEF h
  <1>2. Seen(Append(h, c)) = Append(Seen(f), Plain(c))
    BY <1>1, SeenPushed
  <1>3. QED
    BY <1>2 DEF h

LEMMA AndThenRefines == ASSUME NEW i \in Local PROVE ResultsInv /\ AndThen(i) => Refines
  <1> SUFFICES ASSUME ResultsInv, AndThen(i) PROVE Sums!Next
    BY DEF Refines
  <1> DEFINE h == [frame EXCEPT ![i] = CheckCell(frame[i])]
  <1>1. frame \in Seq(Cells) /\ Class /\ i \in DOMAIN frame /\ frame[i] \in Cells /\ Len(frame) < MaxDepth
    BY LocalIs DEF ResultsInv, AndThen, Room
  <1>2. ASSUME NEW v \in Contents, frame' = Append(h, MapOf(frame[i], v)), made' = made
        PROVE  Sums!Next
    <2> DEFINE c == MapOf(frame[i], v)
    <2>1. c \in Cells /\ Plain(c) = IF frame[i].has THEN [ok |-> TRUE, it |-> v] ELSE Plain(frame[i])
      BY <1>1, MapIs DEF Plain, Cells
    <2>2. frame' = Append(h, c)
      BY <1>2
    <2> HIDE DEF c
    <2>3. Seen(frame') = Append(Seen(frame), Plain(c))
      BY <1>1, <2>1, <2>2, SeenCheckedPushed
    <2>4. v \in Values \cup {Void}
      BY DEF Contents
    <2>5. CASE frame[i].has
      BY <1>1, <1>2, <2>1, <2>3, <2>4, <2>5, IsNew
    <2>6. CASE ~frame[i].has
      BY <1>1, <1>2, <2>1, <2>3, <2>6, IsCopy
    <2>7. QED
      BY <2>5, <2>6
  <1>3. ASSUME frame[i].has, NEW e \in Errors, NewErr(e), frame' = Append(h, AndThenOf(frame[i], MakeErr(e)))
        PROVE  Sums!Next
    <2> DEFINE c == MakeErr(e)
    <2>1. c \in Cells /\ Plain(c) = [ok |-> FALSE, it |-> made']
      BY <1>1, <1>3, MakeErrIs DEF Plain, Cells, NewErr
    <2>2. frame' = Append(h, c)
      BY <1>1, <1>3, AndThenIs
    <2> HIDE DEF c
    <2>3. Seen(frame') = Append(Seen(frame), Plain(c))
      BY <1>1, <2>1, <2>2, SeenCheckedPushed
    <2>4. made < MaxErr /\ made' = made + 1
      BY <1>3 DEF NewErr
    <2>5. QED
      BY <1>1, <2>1, <2>3, <2>4, IsNewError
  <1>4. QED
    BY <1>2, <1>3 DEF AndThen

LEMMA MapErrorRefines == ASSUME NEW i \in Local PROVE ResultsInv /\ MapError(i) => Refines
  <1> SUFFICES ASSUME ResultsInv, MapError(i) PROVE Sums!Next
    BY DEF Refines
  <1> DEFINE h == [frame EXCEPT ![i] = CheckCell(frame[i])]
  <1>1. frame \in Seq(Cells) /\ Class /\ i \in DOMAIN frame /\ frame[i] \in Cells /\ Len(frame) < MaxDepth
    BY LocalIs DEF ResultsInv, MapError, Room
  <1>2. PICK e \in Errors, else \in BOOLEAN :
            /\ else => ~IsExcepted
            /\ IF frame[i].has THEN UNCHANGED made ELSE NewErr(e)
            /\ frame' = Append(h, IF else THEN OrElseOf(frame[i], MakeErr(e)) ELSE MapErrorOf(frame[i], e))
    BY DEF MapError
  <1> DEFINE c == IF else THEN OrElseOf(frame[i], MakeErr(e)) ELSE MapErrorOf(frame[i], e)
  <1>3. c \in Cells /\ c.has = frame[i].has /\ c.it = IF c.has THEN frame[i].it ELSE e
    <2>1. CASE else
      <3>1. c = OrElseOf(frame[i], MakeErr(e)) /\ ~IsExcepted
        BY <1>2, <2>1
      <3>2. MakeErr(e) \in Cells /\ ~MakeErr(e).has /\ MakeErr(e).it = e
        BY <1>1, MakeErrIs
      <3>3. LET r == OrElseOf(frame[i], MakeErr(e))
            IN  r \in Cells /\ r.has = frame[i].has /\ r.it = IF frame[i].has THEN frame[i].it ELSE e
        BY <1>1, <3>1, <3>2, OrElseIs
      <3>4. QED
        BY <2>1, <3>3
    <2>2. CASE ~else
      BY <1>1, <2>2, MapErrorIs
    <2>3. QED
      BY <2>1, <2>2
  <1>4. frame' = Append(h, c)
    BY <1>2
  <1> HIDE DEF c
  <1>5. Seen(frame') = Append(Seen(frame), Plain(c))
    BY <1>1, <1>3, <1>4, SeenCheckedPushed
  <1>6. CASE frame[i].has
    <2>1. Plain(c) = Plain(frame[i]) /\ made' = made
      BY <1>2, <1>3, <1>6 DEF Plain
    <2>2. QED
      BY <1>1, <1>5, <2>1, IsCopy
  <1>7. CASE ~frame[i].has
    <2>1. Plain(c) = [ok |-> FALSE, it |-> made'] /\ made < MaxErr /\ made' = made + 1
      BY <1>1, <1>2, <1>3, <1>7 DEF Plain, NewErr, Cells
    <2>2. QED
      BY <1>1, <1>5, <2>1, IsNewError
  <1>8. QED
    BY <1>6, <1>7

LEMMA PopRefines == ResultsInv /\ (EndOfScope \/ Unwind) => Refines
  <1> SUFFICES ASSUME ResultsInv, EndOfScope \/ Unwind PROVE Sums!Next
    BY DEF Refines
  <1>1. frame # <<>> /\ frame' = Front(frame) /\ made' = made
    BY DEF EndOfScope, Unwind, Popped
  <1>2. Seen(frame') = Front(Seen(frame))
    BY <1>1, SeenPopped DEF ResultsInv
  <1>3. QED
    BY <1>1, <1>2, IsPop

\* The four classes implement a stack of plain sums (ImplementsSum): a move and a swap
\* keep what they move, and an operation that throws changes nothing.
THEOREM SpecImplementsSum == ASSUME NoThrowingAssign PROVE Spec => ImplementsSum
  <1>1. Init => Sums!Init
    <2> SUFFICES ASSUME Init PROVE Sums!Init
      OBVIOUS
    <2>1. Contained = <<>>
      BY DEF Init, Contained, Local
    <2>2. QED
      BY <2>1 DEF Init, Sums!Init
  <1>2. ResultsInv /\ [Next]_vars => Refines
    <2> SUFFICES ASSUME ResultsInv, [Next]_vars PROVE Refines
      OBVIOUS
    <2>1. CASE MakeValue \/ MakeError
      BY <2>1, MakeValueRefines, MakeErrorRefines
    <2>2. ASSUME NEW i \in Local, CopyConstruct(i) \/ MoveConstruct(i) PROVE Refines
      BY <2>2, CopyConstructRefines, MoveConstructRefines
    <2>3. ASSUME NEW i \in Local, AssignValue(i) \/ AssignUnexpected(i) \/ Emplace(i) PROVE Refines
      BY <2>3, AssignValueRefines, AssignUnexpectedRefines, EmplaceRefines
    <2>4. ASSUME NEW i \in Local, Check(i) \/ Value(i) \/ AndThen(i) \/ MapError(i) PROVE Refines
      BY <2>4, CheckRefines, AndThenRefines, MapErrorRefines
    <2>5. ASSUME NEW i \in Local, NEW j \in Local, CopyAssign(i, j) \/ MoveAssign(i, j) \/ Swap(i, j) \/ Compare(i, j)
          PROVE  Refines
      BY <2>5, CopyAssignRefines, MoveAssignRefines, SwapRefines, CompareRefines
    <2>6. CASE EndOfScope \/ Unwind
      BY <2>6, PopRefines
    <2>7. CASE Catch
      BY <2>7, IsNoChange DEF Catch, Refines
    <2>8. CASE UNCHANGED vars
      BY <2>8, IsNoChange DEF vars, Refines
    <2>9. QED
      BY <2>1, <2>2, <2>3, <2>4, <2>5, <2>6, <2>7, <2>8 DEF Next
  <1>3. QED
    BY <1>1, <1>2, SpecInv, PTL DEF Spec, Refines, ImplementsSum, Sums!Spec
=============================================================================
