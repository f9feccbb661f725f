----------------------------- MODULE RefcntHeap -----------------------------
(***************************************************************************)
(* Reference counted objects of one thread: panda::Refcnt, Refcntd, iptr,  *)
(* weak_iptr (panda/refcnt.h, refcnt.cc), as operators from a heap to the  *)
(* heap they leave.                                                        *)
(*                                                                         *)
(* A heap h is a record: h.obj[o] is an object, with its _refcnt and _weak;*)
(* h.ptr[s] what the iptr s points to, h.weak[w] a weak_iptr, h.valid[t]   *)
(* the flag of weak_storage t, h.raw[o] the references the program holds   *)
(* without an iptr, and h.stack the destructors and on_delete callbacks in *)
(* progress, each with what the call that started it still has to do.      *)
(***************************************************************************)
EXTENDS Integers, Sequences, FiniteSets

CONSTANTS
  Objects,   \* objects; each has one member that is an iptr, of its name
  Refcntd,   \* those derived from Refcntd: on_delete() is called for them
  Vars,      \* iptr variables
  Weaks,     \* weak_iptr variables
  Storages,  \* weak_storage objects
  Null

Slots  == Vars \cup Objects
ASSUME RefcntAssumption ==
  /\ IsFiniteSet(Slots) /\ Refcntd \subseteq Objects
  /\ Null \notin Slots \cup Storages
NoObj  == [life |-> "none", refcnt |-> 0, weak |-> Null]
Empty  == [storage |-> Null, object |-> Null]
NewHeap ==
  [obj |-> [o \in Objects |-> NoObj], ptr |-> [s \in Slots |-> Null], raw |-> [o \in Objects |-> 0],
   weak |-> [w \in Weaks |-> Empty], valid |-> [t \in Storages |-> FALSE], stack |-> <<>>]

Last(q) == q[Len(q)]
But(q)  == SubSeq(q, 1, Len(q) - 1)

(***************************************************************************)
(* What is left to do when a reference has been released: store a pointer  *)
(* in the iptr that held it, take another iptr's, or nothing.              *)
(***************************************************************************)
Store(s, p) == [do |-> "store", slot |-> s, from |-> p]
Steal(s, t) == [do |-> "steal", slot |-> s, from |-> t]
Nothing     == [do |-> "nothing", slot |-> Null, from |-> Null]

Finish(h, c) ==
  CASE c.do = "store"   -> [h EXCEPT !.ptr[c.slot] = c.from]
    [] c.do = "steal"   -> [h EXCEPT !.ptr[c.slot] = h.ptr[c.from], !.ptr[c.from] = Null]
    [] c.do = "nothing" -> h

Enter(h, o, fn, c) == [h EXCEPT !.stack = Append(@, [obj |-> o, fn |-> fn, after |-> c])]

(* Refcnt::release: the count stays 1 while the object is destroyed.  The  *)
(* variant counts down to zero before it deletes.                          *)
DropRefToZero(h, o, c) ==
  LET m == [h EXCEPT !.obj[o].refcnt = @ - 1]
  IN  IF m.obj[o].refcnt > 0 THEN Finish(m, c)
      ELSE Enter([m EXCEPT !.obj[o].life = "destructor"], o, "delete", c)
DropRef(h, o, c) ==
  IF h.obj[o].refcnt > 1
  THEN Finish([h EXCEPT !.obj[o].refcnt = @ - 1], c)
  ELSE Enter([h EXCEPT !.obj[o].life = "destructor"], o, "delete", c)

(* Refcntd::release, and refcnt_dec of a pointer that may be null.         *)
Release(h, o, c) ==
  CASE o = Null -> Finish(h, c)
    [] o # Null /\ o \in Refcntd /\ h.obj[o].refcnt <= 1 -> Enter(h, o, "on_delete", c)
    [] OTHER -> DropRef(h, o, c)

Inc(h, p) == IF p = Null THEN h ELSE [h EXCEPT !.obj[p].refcnt = @ + 1]

(***************************************************************************)
(* iptr: operator= of a pointer or an iptr, reset, swap and the move       *)
(* assignments.  The variant does not retain what it has already.          *)
(***************************************************************************)
AssignSkipsSame(h, s, p) ==
  Release(IF p = h.ptr[s] THEN h ELSE Inc(h, p), h.ptr[s], Store(s, p))
AssignPtr(h, s, p) == Release(Inc(h, p), h.ptr[s], Store(s, p))
Swapped(h, s, t)   == [h EXCEPT !.ptr[s] = h.ptr[t], !.ptr[t] = h.ptr[s]]
MoveForeign(h, s, t) == IF h.ptr[s] # Null /\ h.ptr[s] = h.ptr[t] THEN h ELSE Release(h, h.ptr[s], Steal(s, t))

(* An iptr made for the moment, then moved to s: s = w.lock().             *)
TakeOver(h, s, p) ==
  LET m == Inc(h, p) IN Release([m EXCEPT !.ptr[s] = p], h.ptr[s], Nothing)

(***************************************************************************)
(* weak_iptr.  The storage is shared by the object and its weak pointers   *)
(* and goes with the last of them.                                         *)
(***************************************************************************)
InUse(h) == {h.weak[w].storage : w \in Weaks} \cup {h.obj[o].weak : o \in Objects}
Unused(h) == Storages \ InUse(h)

GetWeak(h, o) ==
  IF h.obj[o].weak # Null THEN h
  ELSE LET t == CHOOSE t \in Unused(h) : TRUE
       IN  [h EXCEPT !.obj[o].weak = t, !.valid[t] = TRUE]
PointWeakly(h, w, p) ==
  IF p = Null THEN [h EXCEPT !.weak[w] = Empty]
  ELSE LET m == GetWeak(h, p)
       IN  [m EXCEPT !.weak[w] = [storage |-> m.obj[p].weak, object |-> p]]

IsValid(h, x)  == x.storage # Null /\ h.valid[x.storage]
Locked(h, x)   == IF IsValid(h, x) THEN x.object ELSE Null

(* The default move assignment: the storage is an iptr, and swaps; the     *)
(* pointer to the object is copied.                                        *)
WeakMoved(h, w, v) ==
  [h EXCEPT !.weak[w] = h.weak[v], !.weak[v].storage = h.weak[w].storage]

(***************************************************************************)
(* The end of on_delete: the reference is dropped after all, unless the    *)
(* callback handed out others.                                             *)
(***************************************************************************)
Popped(h) == [h EXCEPT !.stack = But(@)]
AfterOnDelete(h, f) == DropRef(Popped(h), f.obj, f.after)

(* The destructor's body is over: the member is released, then ~Refcnt     *)
(* invalidates the weak pointers and the object is gone.  The variant      *)
(* forgets to invalidate.                                                  *)
ReleaseMember(h, o) ==
  Release([h EXCEPT !.obj[o].life = "members", !.ptr[o] = Null], h.ptr[o], Nothing)
GoneKeepsValid(h, f) == Finish([Popped(h) EXCEPT !.obj[f.obj] = NoObj], f.after)
Gone(h, f) ==
  LET t == h.obj[f.obj].weak
      m == IF t = Null THEN h ELSE [h EXCEPT !.valid[t] = FALSE]
  IN  Finish([Popped(m) EXCEPT !.obj[f.obj] = NoObj], f.after)
=============================================================================
