------------------------------- MODULE Refcnt -------------------------------
(***************************************************************************)
(* A single-threaded program that uses Refcnt, Refcntd, iptr and weak_iptr *)
(* (panda/refcnt.h), with destructors and on_delete callbacks that use     *)
(* them too: every operation is an action, taken by the innermost callback *)
(* in progress or, when there is none, by the program.                     *)
(***************************************************************************)
EXTENDS RefcntHeap

CONSTANTS
  MaxRaw, MaxNesting,  \* bounds
  OwnersKept  \* whether the program keeps the owner of an iptr while it assigns the iptr
ASSUME BoundsAssumption == MaxRaw \in Nat /\ MaxNesting \in Nat

VARIABLES obj, ptr, raw, weak, valid, stack
vars == <<obj, ptr, raw, weak, valid, stack>>

Heap == [obj |-> obj, ptr |-> ptr, raw |-> raw, weak |-> weak, valid |-> valid, stack |-> stack]

(* An iptr is not destroyed in the middle of an assignment to it.          *)
Outlived(h) == \A j, k \in DOMAIN h.stack :
  h.stack[k].fn = "delete" => h.stack[j].after.slot # h.stack[k].obj

Becomes(h) ==
  /\ Len(h.stack) <= MaxNesting
  /\ OwnersKept => Outlived(h)
  /\ obj' = h.obj /\ ptr' = h.ptr /\ raw' = h.raw /\ weak' = h.weak /\ stack' = h.stack
  /\ valid' = [t \in Storages |-> t \in InUse(h) /\ h.valid[t]]
Init ==
  /\ obj = NewHeap.obj /\ ptr = NewHeap.ptr /\ raw = NewHeap.raw
  /\ weak = NewHeap.weak /\ valid = NewHeap.valid /\ stack = NewHeap.stack

(* Who runs, and which iptrs it may use: not one whose assignment released *)
(* the object that is being deleted, nor a member of an object that is not *)
(* there or past the body of its destructor.                               *)
Top     == Last(stack)
InBody  == stack # <<>> => Top.fn = "on_delete" \/ obj[Top.obj].life = "destructor"
Busy    == {stack[k].after.slot : k \in DOMAIN stack}
Usable(s) == InBody /\ s \notin Busy /\ (s \in Objects => obj[s].life \in {"live", "destructor"})

Step(s, h) == Usable(s) /\ Becomes(h)

Make(s) == \E o \in Objects :
  /\ obj[o].life = "none"
  /\ Step(s, AssignPtr([Heap EXCEPT !.obj[o].life = "live"], s, o))
Assign(s, t) == Usable(t) /\ Step(s, AssignPtr(Heap, s, ptr[t]))
Reset(s)     == Step(s, Release(Heap, ptr[s], Store(s, Null)))
Move(s, t)   == Usable(t) /\ Step(s, Swapped(Heap, s, t))

(* iptr<U>&&: the source must outlive the release of what the target held. *)
MoveOther(s, t) == t \in Vars /\ s # t /\ Usable(t) /\ Step(s, MoveForeign(Heap, s, t))

(* A callback of an object makes an iptr to it.                            *)
AssignThis(s) == stack # <<>> /\ InBody /\ Step(s, AssignPtr(Heap, s, Top.obj))

(* detach(), retain() and release() without an iptr.                       *)
Detach(s) == ptr[s] # Null /\ raw[ptr[s]] < MaxRaw
             /\ Step(s, [Heap EXCEPT !.raw[ptr[s]] = @ + 1, !.ptr[s] = Null])
Retain(s) == ptr[s] # Null /\ raw[ptr[s]] < MaxRaw
             /\ Step(s, Inc([Heap EXCEPT !.raw[ptr[s]] = @ + 1], ptr[s]))
Drop(o)   == InBody /\ raw[o] > 0 /\ Becomes(Release([Heap EXCEPT !.raw[o] = @ - 1], o, Nothing))

HasStorage(o) == o # Null => obj[o].weak # Null \/ Unused(Heap) # {}
Weaken(w, s)  == HasStorage(ptr[s]) /\ Step(s, PointWeakly(Heap, w, ptr[s]))
CopyWeak(w, v) == InBody /\ Becomes([Heap EXCEPT !.weak[w] = weak[v]])
ResetWeak(w)   == InBody /\ Becomes([Heap EXCEPT !.weak[w] = Empty])
Lock(s, w)     == Step(s, TakeOver(Heap, s, Locked(Heap, weak[w])))

(* A moved-from weak_iptr is only assigned to or reset; moved to one that  *)
(* is empty it is empty, and may be used.                                  *)
MoveWeak(w, v)    == InBody /\ weak[w].storage = Null /\ Becomes(WeakMoved(Heap, w, v))

(* The callbacks end.  A weak pointer still locks an object that is being  *)
(* destroyed: a callback may use it so, but keeps no reference to it.      *)
NoneKept == \A k \in DOMAIN stack : stack[k].fn = "delete" => obj[stack[k].obj].refcnt = 1
OnDeleteReturns ==
  /\ stack # <<>> /\ Top.fn = "on_delete" /\ NoneKept
  /\ Becomes(AfterOnDelete(Heap, Top))
BodyReturns ==
  /\ stack # <<>> /\ Top.fn = "delete" /\ obj[Top.obj].life = "destructor" /\ NoneKept
  /\ Becomes(ReleaseMember(Heap, Top.obj))
Deleted == stack # <<>> /\ Top.fn = "delete" /\ obj[Top.obj].life = "members" /\ Becomes(Gone(Heap, Top))

Next ==
  \/ \E s \in Slots : Make(s) \/ Reset(s) \/ AssignThis(s) \/ Detach(s) \/ Retain(s)
  \/ \E s, t \in Slots : Assign(s, t) \/ Move(s, t) \/ MoveOther(s, t)
  \/ \E o \in Objects : Drop(o)
  \/ \E w \in Weaks, s \in Slots : Weaken(w, s) \/ Lock(s, w)
  \/ \E w, v \in Weaks : CopyWeak(w, v) \/ MoveWeak(w, v)
  \/ \E w \in Weaks : ResetWeak(w)
  \/ OnDeleteReturns \/ BodyReturns \/ Deleted

Spec == Init /\ [][Next]_vars

(***************************************************************************)
(* Properties.                                                             *)
(***************************************************************************)
Holds(o) ==
  Cardinality({s \in Slots : ptr[s] = o}) + raw[o]
  + Cardinality({k \in DOMAIN stack : stack[k].after = Store(stack[k].after.slot, o)})
  + Cardinality({k \in DOMAIN stack : stack[k].after = Nothing /\ stack[k].obj = o})

Lives  == {"none", "live", "destructor", "members"}
AllRefs == Cardinality(Slots) + MaxRaw + MaxNesting
(* Type invariant: no count exceeds the references there can be.           *)
TypeOK ==
  /\ obj \in [Objects -> [life : Lives, refcnt : 0..AllRefs, weak : Storages \cup {Null}]]
  /\ ptr \in [Slots -> Objects \cup {Null}]
  /\ raw \in [Objects -> 0..MaxRaw]
  /\ weak \in [Weaks -> [storage : Storages \cup {Null}, object : Objects \cup {Null}]]
  /\ valid \in [Storages -> BOOLEAN]

(* The count of an object is the number of references to it, those in the  *)
(* hands of an unfinished assignment included, through any nesting of      *)
(* destructors and on_delete: none is forgotten, none is left to an object *)
(* that is gone, and an object nobody refers to is gone.                   *)
RefcntIsHolders == TypeOK /\ \A o \in Objects :
  /\ obj[o].refcnt = Holds(o)
  /\ obj[o].life = "none" <=> obj[o].refcnt = 0

(* No object is deleted, or asked by on_delete, while it already is.       *)
DeletedOnce == \A j, k \in DOMAIN stack : stack[j].obj = stack[k].obj => j = k

(* A weak pointer whose storage is valid points to the object that shares  *)
(* the storage, not to another one at the same address or to one that is   *)
(* gone; and it expires only with its object.                              *)
WeakKnowsItsObject == \A w \in Weaks :
  weak[w].storage # Null =>
    IF valid[weak[w].storage]
    THEN weak[w].object # Null /\ obj[weak[w].object].weak = weak[w].storage
    ELSE \A o \in Objects : obj[o].weak # weak[w].storage
=============================================================================
