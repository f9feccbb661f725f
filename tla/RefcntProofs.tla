---------------------------- MODULE RefcntProofs ----------------------------
(***************************************************************************)
(* Refcnt for any objects, iptrs, weak pointers and nesting of callbacks:  *)
(* the counts are the references, nothing is deleted twice, and a valid    *)
(* weak pointer knows its object.                                          *)
(***************************************************************************)
EXTENDS Refcnt, FiniteSetTheorems, SequenceTheorems, TLAPS

(***************************************************************************)
(* The invariant, of a heap.  An entry e of the stack accounts for one     *)
(* reference to e.obj that is being released: the one in the iptr that is  *)
(* assigned, or one that is in nobody's hands; and what it will store is a *)
(* reference already.                                                      *)
(***************************************************************************)
Afters  == [do : {"store"}, slot : Slots, from : Objects \cup {Null}]
             \cup [do : {"steal"}, slot : Slots, from : Vars] \cup {Nothing}
Entries == [obj : Objects, fn : {"delete", "on_delete"}, after : Afters]
Places  == [storage : Storages \cup {Null}, object : Objects \cup {Null}]
Shape(h) ==
  /\ h = [obj |-> h.obj, ptr |-> h.ptr, raw |-> h.raw, weak |-> h.weak, valid |-> h.valid, stack |-> h.stack]
  /\ h.obj \in [Objects -> [life : Lives, refcnt : Nat, weak : Storages \cup {Null}]]
  /\ h.ptr \in [Slots -> Objects \cup {Null}] /\ h.raw \in [Objects -> Nat]
  /\ h.weak \in [Weaks -> Places] /\ h.valid \in [Storages -> BOOLEAN]
  /\ h.stack \in Seq(Entries)

(* What is assumed of the constants (RefcntAssumption).                    *)
Given ==
  /\ IsFiniteSet(Slots) /\ Refcntd \subseteq Objects
  /\ Null \notin Slots \cup Storages

One(b) == IF b THEN 1 ELSE 0
Gives(c, o)  == c = Store(c.slot, o)
Stores(e, o) == Gives(e.after, o)
Drops(e, o)  == e.after = Nothing /\ e.obj = o
StoreOne(e, o) == One(Stores(e, o))
DropOne(e, o)  == One(Drops(e, o))
SlotCount(ptr_, o)  == Cardinality({s \in Slots : ptr_[s] = o})
StoreCount(st, o)   == Cardinality({k \in DOMAIN st : Stores(st[k], o)})
DropCount(st, o)    == Cardinality({k \in DOMAIN st : Drops(st[k], o)})
Refs(h, o) == SlotCount(h.ptr, o) + h.raw[o] + StoreCount(h.stack, o) + DropCount(h.stack, o)

(* What an unfinished release needs until it is finished.                  *)
Pending(h, o, c, below) ==
  /\ c.do # "nothing" => h.ptr[c.slot] = o
  /\ \A e \in below : /\ c.slot = e.after.slot => c = Nothing
                      /\ c.do = "steal" => c.from # e.after.slot
  /\ c.do = "steal" => c.from # c.slot
Below(st, k) == {st[j] : j \in 1..(k - 1)}
Dies(life, fn) == fn = "delete" => life \in {"destructor", "members"}
InOrder(h) == \A k \in DOMAIN h.stack :
  LET e == h.stack[k]
  IN  /\ Pending(h, e.obj, e.after, Below(h.stack, k))
      /\ \A d \in Below(h.stack, k) : d.obj # e.obj
      /\ Dies(h.obj[e.obj].life, e.fn)
Alive(h) == \A o \in Objects : IF h.obj[o].life = "none" THEN h.obj[o] = NoObj ELSE h.obj[o].refcnt # 0
Counted(h) == \A o \in Objects : h.obj[o].refcnt = Refs(h, o)

(* The members of an object are released when nobody else refers to what   *)
(* is being deleted.                                                       *)
Releasing(h) == h.stack # <<>> /\ Last(h.stack).fn = "delete" /\ h.obj[Last(h.stack).obj].life = "members"
OnlyOne(h) == \A k \in DOMAIN h.stack : h.stack[k].fn = "delete" => h.obj[h.stack[k].obj].refcnt = 1

(* A storage is valid while it is an object's, and it is one object's.     *)
WeakSound(h) ==
  /\ \A o \in Objects : h.obj[o].weak # Null =>
       /\ h.valid[h.obj[o].weak]
       /\ \A x \in Objects : h.obj[x].weak = h.obj[o].weak => x = o
  /\ \A w \in Weaks : h.weak[w].storage # Null /\ h.valid[h.weak[w].storage] =>
       h.weak[w].object # Null /\ h.obj[h.weak[w].object].weak = h.weak[w].storage

Sound(h) == Shape(h) /\ Alive(h) /\ Counted(h) /\ InOrder(h)
RefcntInv ==
  /\ Sound(Heap) /\ WeakSound(Heap) /\ Outlived(Heap) /\ (Releasing(Heap) => OnlyOne(Heap))
  /\ \A o \in Objects : raw[o] <= MaxRaw
  /\ Len(stack) <= MaxNesting

(***************************************************************************)
(* Counting references.                                                    *)
(***************************************************************************)
LEMMA Subsets ==
  ASSUME NEW S, IsFiniteSet(S), NEW T \in SUBSET S
  PROVE  IsFiniteSet(T) /\ Cardinality(T) \in Nat /\ Cardinality(T) <= Cardinality(S) /\ Cardinality(S) \in Nat
  BY FS_Subset, FS_CardinalityType

(* A set with an element more, or not.                                     *)
LEMMA OneMore ==
  ASSUME NEW A, IsFiniteSet(A), NEW x, x \notin A, NEW B, NEW P, P \in BOOLEAN,
         B = IF P THEN A \cup {x} ELSE A
  PROVE  Cardinality(B) = Cardinality(A) + One(P) /\ Cardinality(A) \in Nat
  BY FS_AddElement, FS_CardinalityType DEF One

(* How many iptrs point to o.                                              *)
LEMMA SlotsCounted ==
  ASSUME Given, NEW q, NEW o
  PROVE  SlotCount(q, o) \in Nat /\ SlotCount(q, o) <= Cardinality(Slots) /\ Cardinality(Slots) \in Nat
  BY Subsets DEF Given, SlotCount

(* One iptr points elsewhere.                                              *)
OnlyAt(was, now, at) == at \in Slots /\ \A u \in Slots \ {at} : now[u] = was[u]
LEMMA SlotSet ==
  ASSUME Given, NEW was, NEW now, NEW at, OnlyAt(was, now, at), NEW o
  PROVE  SlotCount(now, o) = SlotCount(was, o) - One(was[at] = o) + One(now[at] = o)
  <1> USE DEF OnlyAt
  <1>1. PICK R : R = {u \in Slots \ {at} : was[u] = o}
    OBVIOUS
  <1>2. IsFiniteSet(R) /\ at \notin R
    BY <1>1, Subsets DEF Given
  <1>3. SlotCount(was, o) = Cardinality(R) + One(was[at] = o) /\ Cardinality(R) \in Nat
    <2>1. PICK P \in BOOLEAN : P <=> was[at] = o
      OBVIOUS
    <2>2. {u \in Slots : was[u] = o} = IF P THEN R \cup {at} ELSE R
      BY <1>1, <2>1
    <2>3. SlotCount(was, o) = Cardinality(R) + One(P) /\ Cardinality(R) \in Nat
      BY <1>2, <2>2, OneMore DEF SlotCount
    <2>4. QED
      BY <2>1, <2>3 DEF One
  <1>4. SlotCount(now, o) = Cardinality(R) + One(now[at] = o)
    <2>1. PICK P \in BOOLEAN : P <=> now[at] = o
      OBVIOUS
    <2>2. {u \in Slots : now[u] = o} = IF P THEN R \cup {at} ELSE R
      BY <1>1, <2>1
    <2>3. SlotCount(now, o) = Cardinality(R) + One(P) /\ Cardinality(R) \in Nat
      BY <1>2, <2>2, OneMore DEF SlotCount
    <2>4. QED
      BY <2>1, <2>3 DEF One
  <1>5. QED
    BY <1>3, <1>4 DEF One

(* An iptr that points to o counts, and so does another one.               *)
LEMMA SlotsHold ==
  ASSUME Given, NEW q, NEW o, NEW s \in Slots, q[s] = o
  PROVE  SlotCount(q, o) >= 1 /\ \A u \in Slots \ {s} : q[u] = o => SlotCount(q, o) >= 2
  <1>1. PICK A : A = {u \in Slots : q[u] = o}
    OBVIOUS
  <1>2. IsFiniteSet(A) /\ s \in A /\ Cardinality(A) \in Nat
    BY <1>1, Subsets DEF Given
  <1>3. Cardinality(A \ {s}) = Cardinality(A) - 1 /\ IsFiniteSet(A \ {s}) /\ Cardinality(A \ {s}) \in Nat
    BY <1>2, FS_RemoveElement, FS_CardinalityType
  <1>4. ASSUME NEW u \in Slots \ {s}, q[u] = o
        PROVE  Cardinality(A \ {s}) # 0
    <2>1. u \in A \ {s}
      BY <1>1, <1>4
    <2>2. QED
      BY <1>3, <2>1, FS_EmptySet
  <1>5. QED
    BY <1>1, <1>2, <1>3, <1>4 DEF SlotCount

(* Elements of a finite sequence: counting what is true of them.           *)
LEMMA StackCounted ==
  ASSUME NEW st \in Seq(Entries), NEW o
  PROVE  /\ StoreCount(st, o) \in Nat /\ DropCount(st, o) \in Nat
         /\ StoreCount(st, o) + DropCount(st, o) <= Len(st) /\ Len(st) \in Nat
         /\ \A k \in DOMAIN st : /\ Stores(st[k], o) => StoreCount(st, o) >= 1
                                 /\ Drops(st[k], o) => DropCount(st, o) >= 1
  <1>1. DOMAIN st = 1..Len(st) /\ Len(st) \in Nat
    BY LenProperties
  <1>2. IsFiniteSet(1..Len(st)) /\ Cardinality(1..Len(st)) = Len(st)
    BY <1>1, FS_Interval
  <1>3. PICK A, B : A = {k \in DOMAIN st : Stores(st[k], o)} /\ B = {k \in DOMAIN st : Drops(st[k], o)}
    OBVIOUS
  <1>4. A \subseteq 1..Len(st) /\ B \subseteq 1..Len(st)
    BY <1>1, <1>3
  <1>5. /\ IsFiniteSet(A) /\ IsFiniteSet(B) /\ Cardinality(A) \in Nat /\ Cardinality(B) \in Nat
    BY <1>2, <1>4, FS_Subset, FS_CardinalityType
  <1>6. A \cap B = {}
    BY <1>3 DEF Stores, Gives, Drops, Store, Nothing
  <1>7. Cardinality(A \cup B) = Cardinality(A) + Cardinality(B) - Cardinality({})
    BY <1>5, <1>6, FS_Union
  <1>8. Cardinality(A \cup B) <= Len(st)
    BY <1>2, <1>4, FS_Subset
  <1>9. \A k \in A : Cardinality(A) >= 1
    BY <1>5, FS_EmptySet
  <1>10. \A k \in B : Cardinality(B) >= 1
    BY <1>5, FS_EmptySet
  <1>11. QED
    BY <1>1, <1>3, <1>5, <1>7, <1>8, <1>9, <1>10, FS_EmptySet DEF StoreCount, DropCount

(* An entry more.                                                          *)
IsPushed(st, e, r) == st \in Seq(Entries) /\ e \in Entries /\ r = Append(st, e)
LEMMA StackPushed ==
  ASSUME NEW st, NEW e, NEW r, IsPushed(st, e, r), NEW o
  PROVE  /\ r \in Seq(Entries) /\ Len(r) = Len(st) + 1 /\ Len(st) \in Nat
         /\ DOMAIN st = 1..Len(st) /\ DOMAIN r = 1..(Len(st) + 1)
         /\ r[Len(st) + 1] = e /\ \A k \in 1..Len(st) : r[k] = st[k]
         /\ StoreCount(r, o) = StoreCount(st, o) + StoreOne(e, o)
         /\ DropCount(r, o) = DropCount(st, o) + DropOne(e, o)
  <1> USE DEF IsPushed
  <1>1. DOMAIN st = 1..Len(st) /\ Len(st) \in Nat
    BY LenProperties
  <1>2. /\ r \in Seq(Entries) /\ Len(r) = Len(st) + 1
        /\ r[Len(st) + 1] = e /\ \A k \in 1..Len(st) : r[k] = st[k]
    BY AppendProperties
  <1>3. DOMAIN r = 1..(Len(st) + 1)
    BY <1>2, LenProperties
  <1>4. /\ StoreCount(r, o) = StoreCount(st, o) + One(Stores(e, o))
    <2>1. PICK A : A = {k \in DOMAIN st : Stores(st[k], o)}
      OBVIOUS
    <2>2. IsFiniteSet(A) /\ Len(st) + 1 \notin A
      <3>1. IsFiniteSet(1..Len(st)) /\ A \subseteq 1..Len(st)
        BY <1>1, <2>1, FS_Interval
      <3>2. Len(st) + 1 \notin 1..Len(st)
        BY <1>1
      <3>3. QED
        BY <3>1, <3>2, FS_Subset
    <2>3. {k \in DOMAIN r : Stores(r[k], o)} = IF Stores(e, o) THEN A \cup {Len(st) + 1} ELSE A
      BY <1>1, <1>2, <1>3, <2>1
    <2>4. Stores(e, o) \in BOOLEAN
      BY DEF Stores, Gives
    <2>5. QED
      BY <2>1, <2>2, <2>3, <2>4, OneMore DEF StoreCount
  <1>5. /\ DropCount(r, o) = DropCount(st, o) + One(Drops(e, o))
    <2>1. PICK A : A = {k \in DOMAIN st : Drops(st[k], o)}
      OBVIOUS
    <2>2. IsFiniteSet(A) /\ Len(st) + 1 \notin A
      <3>1. IsFiniteSet(1..Len(st)) /\ A \subseteq 1..Len(st)
        BY <1>1, <2>1, FS_Interval
      <3>2. Len(st) + 1 \notin 1..Len(st)
        BY <1>1
      <3>3. QED
        BY <3>1, <3>2, FS_Subset
    <2>3. {k \in DOMAIN r : Drops(r[k], o)} = IF Drops(e, o) THEN A \cup {Len(st) + 1} ELSE A
      BY <1>1, <1>2, <1>3, <2>1
    <2>4. Drops(e, o) \in BOOLEAN
      BY DEF Drops
    <2>5. QED
      BY <2>1, <2>2, <2>3, <2>4, OneMore DEF DropCount
  <1>6. QED
    BY <1>1, <1>2, <1>3, <1>4, <1>5 DEF StoreOne, DropOne

(* An entry less: the stack is its top on what was below.                  *)
LEMMA StackPopped ==
  ASSUME NEW st \in Seq(Entries), st # <<>>, NEW o
  PROVE  /\ But(st) \in Seq(Entries) /\ Last(st) \in Entries /\ Len(st) \in Nat \ {0}
         /\ Len(But(st)) = Len(st) - 1 /\ DOMAIN But(st) = 1..(Len(st) - 1) /\ DOMAIN st = 1..Len(st)
         /\ \A k \in 1..(Len(st) - 1) : But(st)[k] = st[k]
         /\ StoreCount(But(st), o) = StoreCount(st, o) - StoreOne(Last(st), o)
         /\ DropCount(But(st), o) = DropCount(st, o) - DropOne(Last(st), o)
  <1>1. DOMAIN st = 1..Len(st) /\ Len(st) \in Nat \ {0} /\ \A k \in 1..Len(st) : st[k] \in Entries
    BY EmptySeq, LenProperties, ElementOfSeq
  <1>2. PICK b : b = SubSeq(st, 1, Len(st) - 1)
    OBVIOUS
  <1>3. /\ b \in Seq(Entries) /\ Len(b) = Len(st) - 1
        /\ \A k \in 1..(Len(st) - 1) : b[k] = st[k]
    <2>1. \A k \in 1..(Len(st) - 1) : st[k] \in Entries
      BY <1>1
    <2>2. /\ SubSeq(st, 1, Len(st) - 1) \in Seq(Entries)
          /\ Len(SubSeq(st, 1, Len(st) - 1)) = IF 1 <= Len(st) - 1 THEN (Len(st) - 1) - 1 + 1 ELSE 0
          /\ \A k \in 1..((Len(st) - 1) - 1 + 1) : SubSeq(st, 1, Len(st) - 1)[k] = st[1 + k - 1]
      BY <1>1, <2>1, SubSeqProperties
    <2>3. QED
      BY <1>1, <1>2, <2>2
  <1>4. DOMAIN b = 1..(Len(st) - 1)
    BY <1>3, LenProperties
  <1>5. Last(st) = st[Len(st)] /\ Last(st) \in Entries
    BY <1>1 DEF Last
  <1>6. st = Append(b, Last(st))
    <2>1. PICK r : r = Append(b, Last(st))
      OBVIOUS
    <2>2. /\ r \in Seq(Entries) /\ Len(r) = Len(b) + 1 /\ r[Len(b) + 1] = Last(st)
          /\ \A k \in 1..Len(b) : r[k] = b[k]
      <3>1. IsPushed(b, Last(st), r)
        BY <1>3, <1>5, <2>1 DEF IsPushed
      <3>2. QED
        BY <3>1, StackPushed
    <2>3. Len(r) = Len(st) /\ \A k \in 1..Len(st) : r[k] = st[k]
      BY <1>1, <1>3, <1>5, <2>2
    <2>4. QED
      BY <2>1, <2>2, <2>3, SeqEqual
  <1>7. /\ StoreCount(st, o) = StoreCount(b, o) + StoreOne(Last(st), o)
        /\ DropCount(st, o) = DropCount(b, o) + DropOne(Last(st), o)
    <2>1. IsPushed(b, Last(st), st)
      BY <1>3, <1>5, <1>6 DEF IsPushed
    <2>2. QED
      BY <2>1, StackPushed
  <1>8. StoreCount(b, o) \in Nat /\ DropCount(b, o) \in Nat
    BY <1>3, StackCounted
  <1>9. QED
    BY <1>1, <1>2, <1>3, <1>4, <1>5, <1>7, <1>8 DEF But, StoreOne, DropOne, One

(***************************************************************************)
(* The order of what is unfinished.                                        *)
(***************************************************************************)
All(st) == {st[j] : j \in DOMAIN st}

(* What an unfinished release is to find is still there.                   *)
LEMMA OrderKept ==
  ASSUME NEW h, InOrder(h), NEW g, g.stack = h.stack,
         \A e \in All(h.stack) : /\ e.after.do # "nothing" => g.ptr[e.after.slot] = h.ptr[e.after.slot]
                                 /\ e.fn = "delete" => g.obj[e.obj].life = h.obj[e.obj].life
  PROVE  InOrder(g)
  <1>1. ASSUME NEW k \in DOMAIN h.stack, NEW e, e = h.stack[k]
        PROVE  /\ Pending(g, e.obj, e.after, Below(h.stack, k))
               /\ \A d \in Below(h.stack, k) : d.obj # e.obj
               /\ Dies(g.obj[e.obj].life, e.fn)
    <2>1. /\ Pending(h, e.obj, e.after, Below(h.stack, k))
          /\ \A d \in Below(h.stack, k) : d.obj # e.obj
          /\ Dies(h.obj[e.obj].life, e.fn)
      BY <1>1 DEF InOrder
    <2>2. /\ e.after.do # "nothing" => g.ptr[e.after.slot] = h.ptr[e.after.slot]
          /\ e.fn = "delete" => g.obj[e.obj].life = h.obj[e.obj].life
      BY <1>1 DEF All
    <2>3. QED
      BY <2>1, <2>2 DEF Pending, Dies
  <1>2. QED
    BY <1>1 DEF InOrder

(* A release that waits for a callback is the last that was begun.         *)
LEMMA OrderPushed ==
  ASSUME NEW h, Shape(h), InOrder(h), NEW o, NEW c, NEW fn, NEW e \in Entries, e = [obj |-> o, fn |-> fn, after |-> c],
         Pending(h, o, c, All(h.stack)), \A d \in All(h.stack) : d.obj # o,
         NEW g, g.stack = Append(h.stack, e), g.ptr = h.ptr,
         \A x \in Objects \ {o} : g.obj[x].life = h.obj[x].life,
         Dies(g.obj[o].life, fn)
  PROVE  InOrder(g)
  <1>1. /\ h.stack \in Seq(Entries) /\ Len(h.stack) \in Nat
        /\ DOMAIN h.stack = 1..Len(h.stack) /\ DOMAIN g.stack = 1..(Len(h.stack) + 1)
        /\ g.stack[Len(h.stack) + 1] = e /\ \A k \in 1..Len(h.stack) : g.stack[k] = h.stack[k]
    <2>1. IsPushed(h.stack, e, g.stack)
      BY DEF IsPushed, Shape
    <2>2. QED
      BY <2>1, StackPushed DEF IsPushed
  <1>2. \A k \in 1..Len(h.stack) : h.stack[k] \in Entries /\ h.stack[k].obj # o
    BY <1>1, ElementOfSeq DEF All
  <1>3. ASSUME NEW k \in 1..Len(h.stack), NEW d, d = g.stack[k]
        PROVE  /\ Pending(g, d.obj, d.after, Below(g.stack, k))
               /\ \A b \in Below(g.stack, k) : b.obj # d.obj
               /\ Dies(g.obj[d.obj].life, d.fn)
    <2>1. Below(g.stack, k) = Below(h.stack, k)
      <3>1. \A j \in 1..(k - 1) : g.stack[j] = h.stack[j]
        BY <1>1
      <3>2. QED
        BY <3>1 DEF Below
    <2>2. d = h.stack[k] /\ d.obj \in Objects \ {o}
      BY <1>1, <1>2, <1>3 DEF Entries
    <2>3. /\ Pending(h, d.obj, d.after, Below(h.stack, k))
          /\ \A b \in Below(h.stack, k) : b.obj # d.obj
          /\ Dies(h.obj[d.obj].life, d.fn)
      BY <1>1, <2>2 DEF InOrder
    <2>4. QED
      BY <2>1, <2>2, <2>3 DEF Pending
  <1>4. Below(g.stack, Len(h.stack) + 1) = All(h.stack)
    <2>1. (Len(h.stack) + 1) - 1 = Len(h.stack)
      BY <1>1
    <2>2. QED
      BY <1>1, <2>1 DEF Below, All
  <1>5. /\ Pending(g, e.obj, e.after, All(h.stack))
        /\ \A d \in All(h.stack) : d.obj # e.obj
        /\ Dies(g.obj[e.obj].life, e.fn)
    BY DEF Pending
  <1>6. ASSUME NEW k \in 1..(Len(h.stack) + 1)
        PROVE  k \in 1..Len(h.stack) \/ k = Len(h.stack) + 1
    BY <1>1
  <1>7. QED
    BY <1>1, <1>3, <1>4, <1>5, <1>6 DEF InOrder

(* Without the last, the others are in order, and it is due.               *)
LEMMA OrderPopped ==
  ASSUME NEW h, Shape(h), InOrder(h), h.stack # <<>>, NEW g, g.stack = But(h.stack), g.ptr = h.ptr,
         \A x \in Objects \ {Last(h.stack).obj} : g.obj[x].life = h.obj[x].life
  PROVE  /\ InOrder(g) /\ Pending(g, Last(h.stack).obj, Last(h.stack).after, All(g.stack))
         /\ \A d \in All(g.stack) : d \in Entries /\ d.obj # Last(h.stack).obj
         /\ Dies(h.obj[Last(h.stack).obj].life, Last(h.stack).fn)
  <1>1. PICK n, f : n = Len(h.stack) /\ f = Last(h.stack)
    OBVIOUS
  <1>2. /\ h.stack \in Seq(Entries) /\ n \in Nat \ {0} /\ g.stack \in Seq(Entries)
        /\ DOMAIN h.stack = 1..n /\ DOMAIN g.stack = 1..(n - 1) /\ f = h.stack[n]
        /\ \A k \in 1..(n - 1) : g.stack[k] = h.stack[k]
    BY <1>1, StackPopped DEF Shape, Last
  <1>3. All(g.stack) = Below(h.stack, n)
    BY <1>2 DEF All, Below
  <1>4. n \in DOMAIN h.stack
    BY <1>2
  <1>5. /\ Pending(h, f.obj, f.after, All(g.stack)) /\ \A d \in All(g.stack) : d.obj # f.obj
        /\ Dies(h.obj[f.obj].life, f.fn)
    BY <1>2, <1>3, <1>4 DEF InOrder
  <1>6. \A d \in All(g.stack) : d \in Entries /\ d.obj \in Objects
    <2>1. \A k \in 1..(n - 1) : g.stack[k] \in Entries
      <3>1. \A k \in DOMAIN h.stack : h.stack[k] \in Entries
        BY <1>2, ElementOfSeq
      <3>2. QED
        BY <1>2, <3>1
    <2>2. \A d \in All(g.stack) : d \in Entries
      BY <1>2, <2>1 DEF All
    <2>3. QED
      BY <2>2 DEF Entries
  <1>7. ASSUME NEW k \in DOMAIN g.stack, NEW e, e = g.stack[k]
        PROVE  /\ Pending(g, e.obj, e.after, Below(g.stack, k))
               /\ \A d \in Below(g.stack, k) : d.obj # e.obj
               /\ Dies(g.obj[e.obj].life, e.fn)
    <2>1. k \in 1..(n - 1) /\ k \in DOMAIN h.stack /\ e = h.stack[k]
      BY <1>2, <1>7
    <2>2. Below(g.stack, k) = Below(h.stack, k)
      <3>1. \A j \in 1..(k - 1) : g.stack[j] = h.stack[j]
        BY <1>2, <2>1
      <3>2. QED
        BY <3>1 DEF Below
    <2>3. e.obj \in Objects /\ e.obj # f.obj
      BY <1>5, <1>6, <1>7 DEF All
    <2>4. /\ Pending(h, e.obj, e.after, Below(h.stack, k))
          /\ \A d \in Below(h.stack, k) : d.obj # e.obj
          /\ Dies(h.obj[e.obj].life, e.fn)
      BY <2>1 DEF InOrder
    <2>5. g.obj[e.obj].life = h.obj[e.obj].life
      BY <1>1, <2>3
    <2>6. QED
      BY <2>2, <2>4, <2>5 DEF Pending
  <1>8. InOrder(g)
    BY <1>7 DEF InOrder
  <1>9. Pending(g, f.obj, f.after, All(g.stack))
    BY <1>5 DEF Pending
  <1>10. QED
    BY <1>1, <1>5, <1>6, <1>8, <1>9

(***************************************************************************)
(* What is left to do: a pointer is stored, taken, or nothing.             *)
(***************************************************************************)
LEMMA AfterCases ==
  ASSUME Given, NEW c \in Afters
  PROVE  \/ /\ c.do = "store" /\ c.slot \in Slots /\ c.from \in Objects \cup {Null}
            /\ \A x \in Objects : Gives(c, x) <=> c.from = x
            /\ c # Nothing /\ c.slot # Null
         \/ /\ c.do = "steal" /\ c.slot \in Slots /\ c.from \in Slots
            /\ \A x \in Objects : ~Gives(c, x)
            /\ c # Nothing /\ c.slot # Null
         \/ /\ c.do = "nothing" /\ c = Nothing /\ \A x \in Objects : ~Gives(c, x)
  BY DEF Afters, Gives, Store, Nothing, Given, Slots

(* Only iptrs change, and none that another release is to find.            *)
LEMMA FinishIs ==
  ASSUME Given, NEW h, Shape(h), NEW o \in Objects \cup {Null}, NEW c \in Afters,
         NEW below, Pending(h, o, c, below), NEW g, g = Finish(h, c)
  PROVE  /\ Shape(g) /\ g.obj = h.obj /\ g.raw = h.raw /\ g.weak = h.weak /\ g.valid = h.valid
         /\ g.stack = h.stack
         /\ \A e \in below : e.after.slot \in Slots => g.ptr[e.after.slot] = h.ptr[e.after.slot]
         /\ \A x \in Objects : SlotCount(g.ptr, x) = SlotCount(h.ptr, x) + One(Gives(c, x))
                                                       - One(c # Nothing /\ o = x)
  <1>1. CASE c.do = "store"
    <2>1. /\ c.slot \in Slots /\ c.from \in Objects \cup {Null} /\ c # Nothing
          /\ \A x \in Objects : Gives(c, x) <=> c.from = x
      BY <1>1, AfterCases
    <2>2. g = [h EXCEPT !.ptr[c.slot] = c.from] /\ h.ptr[c.slot] = o
      BY <1>1 DEF Finish, Pending
    <2>3. /\ Shape(g) /\ g.obj = h.obj /\ g.raw = h.raw /\ g.weak = h.weak /\ g.valid = h.valid
          /\ g.stack = h.stack /\ g.ptr = [h.ptr EXCEPT ![c.slot] = c.from]
      <3>1. /\ g.obj = h.obj /\ g.raw = h.raw /\ g.weak = h.weak /\ g.valid = h.valid
            /\ g.stack = h.stack /\ g.ptr = [h.ptr EXCEPT ![c.slot] = c.from]
            /\ g = [obj |-> g.obj, ptr |-> g.ptr, raw |-> g.raw, weak |-> g.weak, valid |-> g.valid,
                    stack |-> g.stack]
        BY <2>2 DEF Shape
      <3>2. g.ptr \in [Slots -> Objects \cup {Null}]
        BY <2>1, <3>1 DEF Shape
      <3>3. QED
        BY <3>1, <3>2 DEF Shape
    <2>4. g.ptr[c.slot] = c.from /\ \A u \in Slots \ {c.slot} : g.ptr[u] = h.ptr[u]
      BY <2>1, <2>3 DEF Shape
    <2>5. \A e \in below : e.after.slot # c.slot
      BY <2>1 DEF Pending
    <2>6. ASSUME NEW x \in Objects
          PROVE  SlotCount(g.ptr, x) = SlotCount(h.ptr, x) + One(Gives(c, x)) - One(c # Nothing /\ o = x)
      <3>1. SlotCount(g.ptr, x) = SlotCount(h.ptr, x) - One(h.ptr[c.slot] = x) + One(g.ptr[c.slot] = x)
        <4>1. PICK p, r : p = h.ptr /\ r = g.ptr
          OBVIOUS
        <4>2. SlotCount(r, x) = SlotCount(p, x) - One(p[c.slot] = x) + One(r[c.slot] = x)
          <5>1. OnlyAt(p, r, c.slot)
            BY <2>1, <2>4, <4>1 DEF OnlyAt
          <5>2. QED
            BY <5>1, SlotSet
        <4>3. QED
          BY <4>1, <4>2
      <3>2. SlotCount(h.ptr, x) \in Nat
        BY SlotsCounted
      <3>3. QED
        BY <2>1, <2>2, <2>4, <3>1, <3>2 DEF One
    <2>7. QED
      BY <2>3, <2>4, <2>5, <2>6
  <1>2. CASE c.do = "steal"
    <2>1. /\ c.slot \in Slots /\ c.from \in Slots /\ c # Nothing /\ c.from # c.slot
          /\ \A x \in Objects : ~Gives(c, x)
      BY <1>2, AfterCases DEF Pending
    <2>2. g = [h EXCEPT !.ptr[c.slot] = h.ptr[c.from], !.ptr[c.from] = Null] /\ h.ptr[c.slot] = o
      BY <1>2 DEF Finish, Pending
    <2>3. h.ptr[c.from] \in Objects \cup {Null}
      BY <2>1 DEF Shape
    <2>4. /\ g.obj = h.obj /\ g.raw = h.raw /\ g.weak = h.weak /\ g.valid = h.valid
          /\ g.stack = h.stack /\ g.ptr = [[h.ptr EXCEPT ![c.slot] = h.ptr[c.from]] EXCEPT ![c.from] = Null]
          /\ g = [obj |-> g.obj, ptr |-> g.ptr, raw |-> g.raw, weak |-> g.weak, valid |-> g.valid, stack |-> g.stack]
      BY <2>1, <2>2 DEF Shape
    <2>5. PICK q : q = [h.ptr EXCEPT ![c.slot] = h.ptr[c.from]]
      OBVIOUS
    <2>6. /\ q \in [Slots -> Objects \cup {Null}] /\ q[c.slot] = h.ptr[c.from]
          /\ \A u \in Slots \ {c.slot} : q[u] = h.ptr[u]
      BY <2>1, <2>3, <2>5 DEF Shape
    <2>7. /\ g.ptr \in [Slots -> Objects \cup {Null}] /\ g.ptr[c.from] = Null
          /\ \A u \in Slots \ {c.from} : g.ptr[u] = q[u]
      BY <2>1, <2>4, <2>5, <2>6
    <2>8. Shape(g)
      BY <2>4, <2>7 DEF Shape
    <2>9. ASSUME NEW e \in below, e.after.slot \in Slots
          PROVE  g.ptr[e.after.slot] = h.ptr[e.after.slot]
      <3>1. e.after.slot # c.slot /\ e.after.slot # c.from
        BY <1>2, <2>1, <2>9 DEF Pending
      <3>2. QED
        BY <2>6, <2>7, <2>9, <3>1
    <2>10. ASSUME NEW x \in Objects
           PROVE  SlotCount(g.ptr, x) = SlotCount(h.ptr, x) + One(Gives(c, x)) - One(c # Nothing /\ o = x)
      <3>1. SlotCount(q, x) = SlotCount(h.ptr, x) - One(h.ptr[c.slot] = x) + One(q[c.slot] = x)
        <4>1. PICK p : p = h.ptr
          OBVIOUS
        <4>2. SlotCount(q, x) = SlotCount(p, x) - One(p[c.slot] = x) + One(q[c.slot] = x)
          <5>1. OnlyAt(p, q, c.slot)
            BY <2>1, <2>6, <4>1 DEF OnlyAt
          <5>2. QED
            BY <5>1, SlotSet
        <4>3. QED
          BY <4>1, <4>2
      <3>2. SlotCount(g.ptr, x) = SlotCount(q, x) - One(q[c.from] = x) + One(g.ptr[c.from] = x)
        <4>1. OnlyAt(q, g.ptr, c.from)
          BY <2>1, <2>7 DEF OnlyAt
        <4>2. QED
          BY <4>1, SlotSet
      <3>3. SlotCount(h.ptr, x) \in Nat /\ SlotCount(q, x) \in Nat
        BY SlotsCounted
      <3>4. Null # x
        BY DEF Given, Slots
      <3>5. q[c.from] = h.ptr[c.from]
        BY <2>1, <2>6
      <3>6. QED
        BY <2>1, <2>2, <2>6, <2>7, <3>1, <3>2, <3>3, <3>4, <3>5 DEF One
    <2>11. QED
      BY <2>4, <2>8, <2>9, <2>10
  <1>3. CASE c = Nothing
    <2>1. g = h /\ \A x \in Objects : ~Gives(c, x)
      BY <1>3, AfterCases DEF Finish, Nothing
    <2>2. \A x \in Objects : SlotCount(h.ptr, x) \in Nat
      BY SlotsCounted
    <2>3. QED
      BY <1>3, <2>1, <2>2 DEF One
  <1>4. QED
    BY <1>1, <1>2, <1>3, AfterCases

(***************************************************************************)
(* A reference to o is to be released and c done after that: the heap      *)
(* counts it still.                                                        *)
(***************************************************************************)
Owed(h, o, c) ==
  /\ Shape(h) /\ Alive(h) /\ InOrder(h) /\ o \in Objects \cup {Null} /\ c \in Afters
  /\ Pending(h, o, c, All(h.stack))
  /\ \A x \in Objects : h.obj[x].refcnt = Refs(h, x) + One(Gives(c, x)) + One(c = Nothing /\ o = x)

(* Weak pointers and the references without an iptr stay as they are.      *)
SameWeak(h, g) ==
  /\ g.weak = h.weak /\ g.valid = h.valid /\ g.raw = h.raw
  /\ \A x \in Objects : g.obj[x].weak = h.obj[x].weak

(* Either nothing begins to be destroyed, and what is has its last         *)
(* reference still; or a callback runs.                                    *)
GoesOn(h, g) ==
  \/ /\ g.stack = h.stack
     /\ \A x \in Objects : /\ g.obj[x].life = h.obj[x].life
                           /\ g.obj[x].refcnt = h.obj[x].refcnt \/ h.obj[x].refcnt > 1
  \/ ~Releasing(g)

(* References are numbers.                                                 *)
LEMMA RefsAre ==
  ASSUME Given, NEW h, Shape(h), NEW x \in Objects
  PROVE  /\ SlotCount(h.ptr, x) \in Nat /\ h.raw[x] \in Nat
         /\ StoreCount(h.stack, x) \in Nat /\ DropCount(h.stack, x) \in Nat
         /\ h.obj[x].refcnt \in Nat /\ Refs(h, x) \in Nat
  <1>1. h.raw[x] \in Nat /\ h.obj[x].refcnt \in Nat /\ h.stack \in Seq(Entries)
    BY DEF Shape
  <1>2. SlotCount(h.ptr, x) \in Nat
    BY SlotsCounted
  <1>3. StoreCount(h.stack, x) \in Nat /\ DropCount(h.stack, x) \in Nat
    BY <1>1, StackCounted
  <1>4. QED
    BY <1>1, <1>2, <1>3 DEF Refs

(* An object of which a release is unfinished has a reference besides the  *)
(* one that is released now.                                               *)
LEMMA NotTwice ==
  ASSUME Given, NEW h, NEW o \in Objects, NEW c, Owed(h, o, c)
  PROVE  /\ h.obj[o].refcnt >= 1 /\ h.obj[o].life # "none"
         /\ (\E d \in All(h.stack) : d.obj = o) => h.obj[o].refcnt >= 2
  <1>1. /\ Shape(h) /\ c \in Afters /\ Pending(h, o, c, All(h.stack)) /\ InOrder(h)
        /\ h.obj[o].refcnt = Refs(h, o) + One(Gives(c, o)) + One(c = Nothing /\ o = o)
        /\ h.stack \in Seq(Entries)
    BY DEF Owed, Shape
  <1>2. PICK a, b, d : a = SlotCount(h.ptr, o) /\ b = StoreCount(h.stack, o) /\ d = DropCount(h.stack, o)
    OBVIOUS
  <1>3. /\ a \in Nat /\ h.raw[o] \in Nat /\ b \in Nat /\ d \in Nat /\ h.obj[o].refcnt \in Nat
        /\ h.obj[o].refcnt = a + h.raw[o] + b + d + One(Gives(c, o)) + One(c = Nothing)
    <2>1. (c = Nothing /\ o = o) <=> c = Nothing
      OBVIOUS
    <2>2. One(c = Nothing /\ o = o) = One(c = Nothing)
      BY DEF One
    <2>3. QED
      BY <1>1, <1>2, <2>2, RefsAre DEF Refs
  <1>4. \/ c # Nothing /\ c.slot \in Slots /\ c.slot # Null /\ h.ptr[c.slot] = o
        \/ c = Nothing
    BY <1>1, AfterCases DEF Pending
  <1>5. c # Nothing => a >= 1
    BY <1>2, <1>4, SlotsHold
  <1>6. h.obj[o].refcnt >= 1
    BY <1>3, <1>5 DEF One
  <1>7. ASSUME NEW k \in DOMAIN h.stack, h.stack[k].obj = o
        PROVE  h.obj[o].refcnt >= 2
    <2>1. PICK e : e = h.stack[k]
      OBVIOUS
    <2>2. e \in Entries /\ e.after \in Afters /\ e.obj = o /\ e \in All(h.stack)
      <3>1. e \in Entries
        BY <1>1, <1>7, <2>1, ElementOfSeq
      <3>2. QED
        BY <1>7, <2>1, <3>1 DEF Entries, All
    <2>3. \/ e.after # Nothing /\ e.after.slot \in Slots /\ e.after.slot # Null /\ e.after.do # "nothing"
          \/ e.after = Nothing
      <3>1. \A f \in Afters : \/ f # Nothing /\ f.slot \in Slots /\ f.slot # Null /\ f.do # "nothing"
                              \/ f = Nothing
        BY AfterCases
      <3>2. QED
        BY <2>2, <3>1
    <2>4. CASE e.after = Nothing
      <3>1. Drops(e, o)
        BY <2>2, <2>4 DEF Drops
      <3>2. d >= 1
        BY <1>1, <1>2, <2>1, <3>1, StackCounted
      <3>3. QED
        BY <1>3, <1>5, <3>2 DEF One
    <2>5. CASE e.after # Nothing
      <3>1. e.after.slot \in Slots /\ h.ptr[e.after.slot] = o
        BY <1>1, <1>7, <2>1, <2>3, <2>5 DEF InOrder, Pending
      <3>2. a >= 1
        BY <1>2, <3>1, SlotsHold
      <3>3. CASE c = Nothing
        BY <1>3, <3>2, <3>3 DEF One
      <3>4. CASE c # Nothing
        <4>1. c.slot # e.after.slot
          BY <1>1, <2>2, <3>4 DEF Pending
        <4>2. a >= 2
          BY <1>2, <1>4, <3>1, <3>4, <4>1, SlotsHold
        <4>3. QED
          BY <1>3, <4>2 DEF One
      <3>5. QED
        BY <3>3, <3>4
    <2>6. QED
      BY <2>4, <2>5
  <1>8. h.obj[o].life # "none"
    BY <1>6 DEF Owed, Alive, NoObj
  <1>9. QED
    BY <1>6, <1>7, <1>8 DEF All

(* The release is over: what is left to do is done.                        *)
LEMMA FinishOK ==
  ASSUME Given, NEW h, Shape(h), InOrder(h), NEW o \in Objects \cup {Null}, NEW c \in Afters,
         Pending(h, o, c, All(h.stack)), Alive(h),
         \A x \in Objects : h.obj[x].refcnt + One(o = x)
                              = Refs(h, x) + One(Gives(c, x)) + One(c = Nothing /\ o = x),
         NEW g, g = Finish(h, c)
  PROVE  Sound(g) /\ g.obj = h.obj /\ g.stack = h.stack /\ SameWeak(h, g)
  <1>1. /\ Shape(g) /\ g.obj = h.obj /\ g.raw = h.raw /\ g.weak = h.weak /\ g.valid = h.valid
        /\ g.stack = h.stack
        /\ \A e \in All(h.stack) : e.after.slot \in Slots => g.ptr[e.after.slot] = h.ptr[e.after.slot]
        /\ \A x \in Objects : SlotCount(g.ptr, x) = SlotCount(h.ptr, x) + One(Gives(c, x))
                                                      - One(c # Nothing /\ o = x)
    BY FinishIs
  <1>2. \A e \in All(h.stack) : e.after.do # "nothing" => e.after.slot \in Slots
    <2>1. h.stack \in Seq(Entries)
      BY DEF Shape
    <2>2. \A e \in All(h.stack) : e \in Entries
      BY <2>1, ElementOfSeq DEF All
    <2>3. \A e \in Entries : e.after \in Afters
      BY DEF Entries
    <2>4. \A f \in Afters : f.do # "nothing" => f.slot \in Slots
      BY AfterCases
    <2>5. QED
      BY <2>2, <2>3, <2>4
  <1>3. InOrder(g)
    BY <1>1, <1>2, OrderKept
  <1>4. ASSUME NEW x \in Objects
        PROVE  g.obj[x].refcnt = Refs(g, x)
    <2>1. /\ SlotCount(h.ptr, x) \in Nat /\ h.raw[x] \in Nat /\ SlotCount(g.ptr, x) \in Nat
          /\ StoreCount(h.stack, x) \in Nat /\ DropCount(h.stack, x) \in Nat /\ h.obj[x].refcnt \in Nat
      BY <1>1, RefsAre
    <2>2. One(o = x) = One(c = Nothing /\ o = x) + One(c # Nothing /\ o = x)
      BY DEF One
    <2>3. /\ One(o = x) \in {0, 1} /\ One(c = Nothing /\ o = x) \in {0, 1} /\ One(c # Nothing /\ o = x) \in {0, 1}
          /\ One(Gives(c, x)) \in {0, 1}
      BY DEF One
    <2>4. PICK p, q, r, w : /\ p = One(o = x) /\ q = One(c = Nothing /\ o = x) /\ r = One(c # Nothing /\ o = x)
                            /\ w = One(Gives(c, x))
      OBVIOUS
    <2>5. h.obj[x].refcnt + p = SlotCount(h.ptr, x) + h.raw[x] + StoreCount(h.stack, x) + DropCount(h.stack, x) + w + q
      BY <2>4 DEF Refs
    <2>6. SlotCount(g.ptr, x) = SlotCount(h.ptr, x) + w - r
      BY <1>1, <2>4
    <2>7. h.obj[x].refcnt = SlotCount(g.ptr, x) + h.raw[x] + StoreCount(h.stack, x) + DropCount(h.stack, x)
      BY <2>1, <2>2, <2>3, <2>4, <2>5, <2>6
    <2>8. QED
      BY <1>1, <2>7 DEF Refs
  <1>5. Alive(g)
    BY <1>1 DEF Alive
  <1>6. QED
    BY <1>1, <1>3, <1>4, <1>5 DEF Sound, Counted, SameWeak

(* A callback begins: what was to be released and done is in the stack.    *)
Begun(h, k, o, fn) ==
  /\ Shape(k) /\ k.ptr = h.ptr /\ k.raw = h.raw /\ k.stack = h.stack
  /\ \A x \in Objects : k.obj[x].refcnt = h.obj[x].refcnt
  /\ \A x \in Objects \ {o} : k.obj[x] = h.obj[x]
  /\ fn \in {"delete", "on_delete"} /\ (fn = "delete" => k.obj[o].life = "destructor")
  /\ k.obj[o].life # "none" /\ \A d \in All(h.stack) : d.obj # o
LEMMA EnterOK ==
  ASSUME Given, NEW h, NEW o \in Objects, NEW c, Owed(h, o, c), NEW fn, NEW k, Begun(h, k, o, fn),
         NEW g, g = Enter(k, o, fn, c)
  PROVE  /\ Sound(g) /\ g.obj = k.obj /\ g.ptr = h.ptr /\ g.raw = h.raw /\ g.weak = k.weak /\ g.valid = k.valid
         /\ ~Releasing(g)
  <1> USE DEF Begun
  <1>1. PICK e : e = [obj |-> o, fn |-> fn, after |-> c]
    OBVIOUS
  <1>2. e \in Entries /\ e.obj = o /\ e.after = c /\ e.fn = fn
    BY <1>1 DEF Entries, Owed
  <1>3. /\ g.obj = k.obj /\ g.ptr = k.ptr /\ g.raw = k.raw /\ g.weak = k.weak /\ g.valid = k.valid
        /\ g.stack = Append(h.stack, e)
        /\ g = [obj |-> g.obj, ptr |-> g.ptr, raw |-> g.raw, weak |-> g.weak, valid |-> g.valid, stack |-> g.stack]
    BY <1>1 DEF Enter, Shape
  <1>4. h.stack \in Seq(Entries) /\ Shape(h) /\ InOrder(h) /\ Alive(h) /\ Pending(h, o, c, All(h.stack))
    BY DEF Owed, Shape
  <1>5. /\ g.stack \in Seq(Entries) /\ Len(g.stack) = Len(h.stack) + 1 /\ g.stack[Len(h.stack) + 1] = e
        /\ Len(h.stack) \in Nat
        /\ \A x : /\ StoreCount(g.stack, x) = StoreCount(h.stack, x) + One(Stores(e, x))
                  /\ DropCount(g.stack, x) = DropCount(h.stack, x) + One(Drops(e, x))
    <2>1. IsPushed(h.stack, e, g.stack)
      BY <1>2, <1>3, <1>4 DEF IsPushed
    <2>2. \A x : /\ StoreCount(g.stack, x) = StoreCount(h.stack, x) + StoreOne(e, x)
                 /\ DropCount(g.stack, x) = DropCount(h.stack, x) + DropOne(e, x)
      BY <2>1, StackPushed
    <2>3. /\ g.stack \in Seq(Entries) /\ Len(g.stack) = Len(h.stack) + 1 /\ g.stack[Len(h.stack) + 1] = e
          /\ Len(h.stack) \in Nat
      BY <2>1, StackPushed
    <2>4. QED
      BY <2>2, <2>3 DEF StoreOne, DropOne
  <1>6. Shape(g)
    BY <1>3, <1>5 DEF Shape
  <1>7. InOrder(g)
    <2>1. \A x \in Objects \ {o} : g.obj[x].life = h.obj[x].life
      BY <1>3
    <2>2. Dies(g.obj[o].life, fn)
      BY <1>3 DEF Dies
    <2>3. g.ptr = h.ptr
      BY <1>3
    <2>4. QED
      BY <1>1, <1>2, <1>3, <1>4, <2>1, <2>2, <2>3, OrderPushed
  <1>8. ASSUME NEW x \in Objects
        PROVE  g.obj[x].refcnt = Refs(g, x)
    <2>1. Stores(e, x) = Gives(c, x) /\ Drops(e, x) = (c = Nothing /\ o = x)
      BY <1>2 DEF Stores, Drops
    <2>2. g.obj[x].refcnt = Refs(h, x) + One(Gives(c, x)) + One(c = Nothing /\ o = x)
      BY <1>3 DEF Owed
    <2>3. /\ SlotCount(h.ptr, x) \in Nat /\ h.raw[x] \in Nat
          /\ StoreCount(h.stack, x) \in Nat /\ DropCount(h.stack, x) \in Nat
      BY <1>4, RefsAre
    <2>4. PICK p, q : p = One(Gives(c, x)) /\ q = One(c = Nothing /\ o = x)
      OBVIOUS
    <2>5. p \in {0, 1} /\ q \in {0, 1}
      BY <2>4 DEF One
    <2>6. StoreCount(g.stack, x) = StoreCount(h.stack, x) + p /\ DropCount(g.stack, x) = DropCount(h.stack, x) + q
      BY <1>5, <2>1, <2>4
    <2>7. g.obj[x].refcnt = SlotCount(h.ptr, x) + h.raw[x] + StoreCount(h.stack, x) + DropCount(h.stack, x) + p + q
      BY <2>2, <2>4 DEF Refs
    <2>8. g.ptr = h.ptr /\ g.raw = h.raw
      BY <1>3
    <2>9. Refs(g, x) = SlotCount(h.ptr, x) + h.raw[x] + StoreCount(g.stack, x) + DropCount(g.stack, x)
      BY <2>8 DEF Refs
    <2>10. QED
      BY <2>3, <2>5, <2>6, <2>7, <2>9
  <1>9. Alive(g)
    <2>1. g.obj[o].refcnt # 0 /\ g.obj[o].life # "none"
      <3>1. h.obj[o].refcnt >= 1 /\ h.obj[o].refcnt \in Nat
        BY <1>4, NotTwice, RefsAre
      <3>2. QED
        BY <1>3, <3>1
    <2>2. \A x \in Objects \ {o} : g.obj[x] = h.obj[x]
      BY <1>3
    <2>3. QED
      BY <1>4, <2>1, <2>2 DEF Alive
  <1>10. ~Releasing(g)
    <2>1. Last(g.stack) = e
      BY <1>5 DEF Last
    <2>2. QED
      BY <1>2, <1>3, <2>1 DEF Releasing
  <1>11. QED
    BY <1>1, <1>3, <1>6, <1>7, <1>8, <1>9, <1>10 DEF Sound, Counted

(* Refcnt::release drops the reference and goes on, or begins to delete.   *)
LEMMA DropRefOK ==
  ASSUME Given, NEW h, NEW o \in Objects, NEW c, Owed(h, o, c),
         h.obj[o].refcnt <= 1 => \A d \in All(h.stack) : d.obj # o,
         NEW g, g = DropRef(h, o, c)
  PROVE  Sound(g) /\ SameWeak(h, g) /\ GoesOn(h, g)
  <1>1. /\ Shape(h) /\ c \in Afters /\ Pending(h, o, c, All(h.stack)) /\ InOrder(h) /\ Alive(h)
        /\ h.obj[o].refcnt \in Nat /\ h.obj[o].refcnt >= 1 /\ h.obj[o].life # "none"
    BY NotTwice, RefsAre DEF Owed
  <1>2. CASE h.obj[o].refcnt > 1
    <2>1. PICK k : k = [h EXCEPT !.obj[o].refcnt = @ - 1]
      OBVIOUS
    <2>2. g = Finish(k, c)
      BY <1>2, <2>1 DEF DropRef
    <2>3. /\ k.ptr = h.ptr /\ k.raw = h.raw /\ k.stack = h.stack /\ k.weak = h.weak /\ k.valid = h.valid
          /\ k.obj = [h.obj EXCEPT ![o] = [h.obj[o] EXCEPT !.refcnt = h.obj[o].refcnt - 1]]
          /\ k = [obj |-> k.obj, ptr |-> k.ptr, raw |-> k.raw, weak |-> k.weak, valid |-> k.valid, stack |-> k.stack]
      BY <1>1, <2>1 DEF Shape
    <2>4. /\ k.obj \in [Objects -> [life : Lives, refcnt : Nat, weak : Storages \cup {Null}]]
          /\ k.obj[o].life = h.obj[o].life /\ k.obj[o].weak = h.obj[o].weak
          /\ k.obj[o].refcnt = h.obj[o].refcnt - 1
          /\ \A x \in Objects \ {o} : k.obj[x] = h.obj[x]
      <3>1. /\ h.obj[o] \in [life : Lives, refcnt : Nat, weak : Storages \cup {Null}]
            /\ h.obj \in [Objects -> [life : Lives, refcnt : Nat, weak : Storages \cup {Null}]]
        BY <1>1 DEF Shape
      <3>2. PICK r : r = [h.obj[o] EXCEPT !.refcnt = h.obj[o].refcnt - 1]
        OBVIOUS
      <3>3. h.obj[o].refcnt - 1 \in Nat
        BY <1>1
      <3>4. /\ r \in [life : Lives, refcnt : Nat, weak : Storages \cup {Null}]
            /\ r.life = h.obj[o].life /\ r.weak = h.obj[o].weak /\ r.refcnt = h.obj[o].refcnt - 1
        BY <3>1, <3>2, <3>3
      <3>5. k.obj = [h.obj EXCEPT ![o] = r]
        BY <2>3, <3>2
      <3>6. QED
        BY <3>1, <3>4, <3>5
    <2>5. Shape(k)
      BY <1>1, <2>3, <2>4 DEF Shape
    <2>6. InOrder(k)
      <3>1. \A e \in All(h.stack) : e.obj \in Objects
        <4>1. h.stack \in Seq(Entries)
          BY <1>1 DEF Shape
        <4>2. \A e \in All(h.stack) : e \in Entries
          BY <4>1, ElementOfSeq DEF All
        <4>3. QED
          BY <4>2 DEF Entries
      <3>2. \A x \in Objects : k.obj[x].life = h.obj[x].life
        BY <2>4
      <3>3. \A e \in All(h.stack) : /\ e.after.do # "nothing" => k.ptr[e.after.slot] = h.ptr[e.after.slot]
                                    /\ k.obj[e.obj].life = h.obj[e.obj].life
        BY <2>3, <3>1, <3>2
      <3>4. QED
        BY <1>1, <2>3, <3>3, OrderKept
    <2>7. Pending(k, o, c, All(k.stack))
      BY <1>1, <2>3 DEF Pending
    <2>8. ASSUME NEW x \in Objects
          PROVE  k.obj[x].refcnt + One(o = x) = Refs(k, x) + One(Gives(c, x)) + One(c = Nothing /\ o = x)
      <3>1. h.obj[x].refcnt = Refs(h, x) + One(Gives(c, x)) + One(c = Nothing /\ o = x) /\ h.obj[x].refcnt \in Nat
        BY <1>1, RefsAre DEF Owed
      <3>2. Refs(k, x) = Refs(h, x)
        BY <2>3 DEF Refs
      <3>3. k.obj[x].refcnt + One(o = x) = h.obj[x].refcnt
        BY <1>1, <2>4, <3>1 DEF One
      <3>4. QED
        BY <3>1, <3>2, <3>3
    <2>9. Alive(k)
      <3>1. k.obj[o].refcnt # 0 /\ k.obj[o].life # "none"
        BY <1>1, <1>2, <2>4
      <3>2. QED
        BY <1>1, <2>4, <3>1 DEF Alive
    <2>10. Sound(g) /\ g.obj = k.obj /\ g.stack = k.stack /\ SameWeak(k, g)
      BY <1>1, <2>2, <2>5, <2>6, <2>7, <2>8, <2>9, FinishOK
    <2>11. SameWeak(h, g)
      <3>1. \A x \in Objects : k.obj[x].weak = h.obj[x].weak
        BY <2>4
      <3>2. QED
        BY <2>3, <2>10, <3>1 DEF SameWeak
    <2>12. GoesOn(h, g)
      <3>1. ASSUME NEW x \in Objects
            PROVE  /\ g.obj[x].life = h.obj[x].life
                   /\ g.obj[x].refcnt = h.obj[x].refcnt \/ h.obj[x].refcnt > 1
        BY <1>2, <2>4, <2>10
      <3>2. g.stack = h.stack
        BY <2>3, <2>10
      <3>3. QED
        BY <3>1, <3>2 DEF GoesOn
    <2>13. QED
      BY <2>10, <2>11, <2>12
  <1>3. CASE ~(h.obj[o].refcnt > 1)
    <2>1. PICK k : k = [h EXCEPT !.obj[o].life = "destructor"]
      OBVIOUS
    <2>2. g = Enter(k, o, "delete", c)
      BY <1>3, <2>1 DEF DropRef
    <2>3. /\ k.ptr = h.ptr /\ k.raw = h.raw /\ k.stack = h.stack /\ k.weak = h.weak /\ k.valid = h.valid
          /\ k.obj = [h.obj EXCEPT ![o] = [h.obj[o] EXCEPT !.life = "destructor"]]
          /\ k = [obj |-> k.obj, ptr |-> k.ptr, raw |-> k.raw, weak |-> k.weak, valid |-> k.valid, stack |-> k.stack]
      BY <1>1, <2>1 DEF Shape
    <2>4. /\ k.obj \in [Objects -> [life : Lives, refcnt : Nat, weak : Storages \cup {Null}]]
          /\ k.obj[o].life = "destructor" /\ k.obj[o].weak = h.obj[o].weak
          /\ k.obj[o].refcnt = h.obj[o].refcnt
          /\ \A x \in Objects \ {o} : k.obj[x] = h.obj[x]
      <3>1. /\ h.obj[o] \in [life : Lives, refcnt : Nat, weak : Storages \cup {Null}]
            /\ h.obj \in [Objects -> [life : Lives, refcnt : Nat, weak : Storages \cup {Null}]]
        BY <1>1 DEF Shape
      <3>2. PICK r : r = [h.obj[o] EXCEPT !.life = "destructor"]
        OBVIOUS
      <3>3. /\ r \in [life : Lives, refcnt : Nat, weak : Storages \cup {Null}]
            /\ r.life = "destructor" /\ r.weak = h.obj[o].weak /\ r.refcnt = h.obj[o].refcnt
        BY <3>1, <3>2 DEF Lives
      <3>4. k.obj = [h.obj EXCEPT ![o] = r]
        BY <2>3, <3>2
      <3>5. QED
        BY <3>1, <3>3, <3>4
    <2>5. Shape(k)
      BY <1>1, <2>3, <2>4 DEF Shape
    <2>6. \A d \in All(h.stack) : d.obj # o
      BY <1>1, <1>3
    <2>7. \A x \in Objects : k.obj[x].refcnt = h.obj[x].refcnt /\ k.obj[x].weak = h.obj[x].weak
      BY <2>4
    <2>8. /\ Sound(g) /\ g.obj = k.obj /\ g.raw = h.raw /\ g.weak = k.weak /\ g.valid = k.valid
          /\ ~Releasing(g)
      <3>1. Begun(h, k, o, "delete")
        BY <1>1, <2>3, <2>4, <2>5, <2>6, <2>7 DEF Begun
      <3>2. QED
        BY <2>2, <2>3, <3>1, EnterOK
    <2>9. QED
      BY <2>3, <2>7, <2>8 DEF SameWeak, GoesOn
  <1>4. QED
    BY <1>2, <1>3

(* Refcntd::release and refcnt_dec: the null pointer, on_delete, or as     *)
(* above.                                                                  *)
LEMMA ReleaseOK ==
  ASSUME Given, NEW h, NEW o, NEW c, Owed(h, o, c), NEW g, g = Release(h, o, c)
  PROVE  Sound(g) /\ SameWeak(h, g) /\ GoesOn(h, g)
  <1>1. /\ Shape(h) /\ c \in Afters /\ Pending(h, o, c, All(h.stack)) /\ InOrder(h) /\ Alive(h)
        /\ o \in Objects \cup {Null}
    BY DEF Owed
  <1>2. CASE o = Null
    <2>1. g = Finish(h, c) /\ \A x \in Objects : o # x
      BY <1>2 DEF Release, Given, Slots
    <2>2. ASSUME NEW x \in Objects
          PROVE  h.obj[x].refcnt + One(o = x) = Refs(h, x) + One(Gives(c, x)) + One(c = Nothing /\ o = x)
      <3>1. h.obj[x].refcnt = Refs(h, x) + One(Gives(c, x)) + One(c = Nothing /\ o = x) /\ h.obj[x].refcnt \in Nat
        BY <1>1, RefsAre DEF Owed
      <3>2. h.obj[x].refcnt + One(o = x) = h.obj[x].refcnt
        BY <2>1, <3>1 DEF One
      <3>3. QED
        BY <3>1, <3>2
    <2>3. Sound(g) /\ g.obj = h.obj /\ g.stack = h.stack /\ SameWeak(h, g)
      BY <1>1, <2>1, <2>2, FinishOK
    <2>4. QED
      BY <2>3 DEF GoesOn
  <1>3. CASE o # Null /\ o \in Refcntd /\ h.obj[o].refcnt <= 1
    <2>1. g = Enter(h, o, "on_delete", c) /\ o \in Objects
      BY <1>1, <1>3 DEF Release
    <2>2. \A d \in All(h.stack) : d.obj # o
      <3>1. (\E d \in All(h.stack) : d.obj = o) => h.obj[o].refcnt >= 2
        BY <2>1, NotTwice
      <3>2. h.obj[o].refcnt \in Nat
        BY <1>1, <2>1, RefsAre
      <3>3. QED
        BY <1>3, <3>1, <3>2
    <2>3. Sound(g) /\ g.obj = h.obj /\ g.raw = h.raw /\ g.weak = h.weak /\ g.valid = h.valid /\ ~Releasing(g)
      <3>1. h.obj[o].life # "none" /\ "on_delete" # "delete"
        BY <2>1, NotTwice
      <3>2. Begun(h, h, o, "on_delete")
        BY <1>1, <2>2, <3>1 DEF Begun
      <3>3. QED
        BY <2>1, <3>2, EnterOK
    <2>4. QED
      BY <2>3 DEF SameWeak, GoesOn
  <1>4. CASE o # Null /\ ~(o \in Refcntd /\ h.obj[o].refcnt <= 1)
    <2>1. g = DropRef(h, o, c) /\ o \in Objects
      BY <1>1, <1>4 DEF Release
    <2>2. h.obj[o].refcnt <= 1 => \A d \in All(h.stack) : d.obj # o
      <3>1. (\E d \in All(h.stack) : d.obj = o) => h.obj[o].refcnt >= 2
        BY <2>1, NotTwice
      <3>2. h.obj[o].refcnt \in Nat
        BY <1>1, <2>1, RefsAre
      <3>3. QED
        BY <3>1, <3>2
    <2>3. QED
      BY <2>1, <2>2, DropRefOK
  <1>5. QED
    BY <1>2, <1>3, <1>4

(***************************************************************************)
(* What the operations do before they release.                             *)
(***************************************************************************)
Similar(h, g) ==
  /\ g.stack = h.stack
  /\ \A x \in Objects : h.obj[x].life # "none" => g.obj[x].life = h.obj[x].life

(* The iptrs that an unfinished assignment is to find, and the others.     *)
Busily(h) == {e.after.slot : e \in All(h.stack)}

(* The elements of the stack.                                              *)
LEMMA EntriesAre ==
  ASSUME Given, NEW h, Shape(h), NEW e \in All(h.stack)
  PROVE  e \in Entries /\ e.obj \in Objects /\ e.after \in Afters /\ e.fn \in {"delete", "on_delete"}
         /\ (e.after.do # "nothing" => e.after.slot \in Slots)
  <1>1. h.stack \in Seq(Entries)
    BY DEF Shape
  <1>2. e \in Entries
    BY <1>1, ElementOfSeq DEF All
  <1>3. e.obj \in Objects /\ e.after \in Afters /\ e.fn \in {"delete", "on_delete"}
    BY <1>2 DEF Entries
  <1>4. QED
    BY <1>2, <1>3, AfterCases

(* An operation that leaves alone what is unfinished.                      *)
LEMMA SimilarInOrder ==
  ASSUME Given, NEW h, Shape(h), InOrder(h), NEW g, Similar(h, g),
         \A u \in Slots : u \in Busily(h) => g.ptr[u] = h.ptr[u]
  PROVE  InOrder(g) /\ (~Releasing(h) => ~Releasing(g))
  <1>1. ASSUME NEW e \in All(h.stack)
        PROVE  /\ e.fn = "delete" => /\ h.obj[e.obj].life # "none" /\ e.obj \in Objects
                                     /\ g.obj[e.obj].life = h.obj[e.obj].life
               /\ e.after.do # "nothing" => g.ptr[e.after.slot] = h.ptr[e.after.slot]
    <2>1. e.fn = "delete" => h.obj[e.obj].life # "none"
      BY DEF All, InOrder, Dies
    <2>2. e.obj \in Objects /\ (e.after.do # "nothing" => e.after.slot \in Slots)
      BY EntriesAre
    <2>3. QED
      BY <2>1, <2>2 DEF Similar, Busily
  <1>2. InOrder(g)
    BY <1>1, OrderKept DEF Similar
  <1>3. ASSUME Releasing(g)
        PROVE  Releasing(h)
    <2>1. h.stack \in Seq(Entries) /\ h.stack # <<>> /\ Last(h.stack).fn = "delete" /\ g.stack = h.stack
          /\ g.obj[Last(h.stack).obj].life = "members"
      BY <1>3 DEF Releasing, Similar, Shape
    <2>2. Last(h.stack) \in All(h.stack)
      <3>1. Len(h.stack) \in DOMAIN h.stack
        BY <2>1, EmptySeq, LenProperties
      <3>2. QED
        BY <3>1 DEF All, Last
    <2>3. QED
      BY <1>1, <2>1, <2>2 DEF Releasing
  <1>4. QED
    BY <1>2, <1>3

(* After the release, too, what is deleted has its last reference while    *)
(* members are released.                                                   *)
LEMMA GoesOnOnly ==
  ASSUME NEW h, Shape(h), Releasing(h) => OnlyOne(h), NEW g, GoesOn(h, g)
  PROVE  Releasing(g) => OnlyOne(g)
  <1>1. CASE /\ g.stack = h.stack
             /\ \A x \in Objects : /\ g.obj[x].life = h.obj[x].life
                                   /\ g.obj[x].refcnt = h.obj[x].refcnt \/ h.obj[x].refcnt > 1
    <2>1. /\ h.stack # <<>> => Last(h.stack).obj \in Objects
          /\ \A k \in DOMAIN h.stack : h.stack[k].obj \in Objects
      <3>1. h.stack \in Seq(Entries)
        BY DEF Shape
      <3>2. /\ h.stack # <<>> => Last(h.stack) \in Entries
            /\ \A k \in DOMAIN h.stack : h.stack[k] \in Entries
        <4>1. h.stack # <<>> => Last(h.stack) \in Entries
          BY <3>1, StackPopped
        <4>2. \A k \in DOMAIN h.stack : h.stack[k] \in Entries
          BY <3>1, ElementOfSeq
        <4>3. QED
          BY <4>1, <4>2
      <3>3. QED
        BY <3>2 DEF Entries
    <2>2. Releasing(g) => OnlyOne(h)
      BY <1>1, <2>1 DEF Releasing
    <2>3. ASSUME OnlyOne(h), NEW k \in DOMAIN g.stack, g.stack[k].fn = "delete"
          PROVE  g.obj[g.stack[k].obj].refcnt = 1
      <3>1. h.obj[h.stack[k].obj].refcnt = 1 /\ h.stack[k].obj \in Objects
        BY <1>1, <2>1, <2>3 DEF OnlyOne
      <3>2. ~(1 > 1)
        OBVIOUS
      <3>3. QED
        BY <1>1, <3>1, <3>2
    <2>4. QED
      BY <2>2, <2>3 DEF OnlyOne
  <1>2. QED
    BY <1>1 DEF GoesOn

(* retain, of a pointer that may be null.                                  *)
LEMMA IncIs ==
  ASSUME Given, NEW h, Shape(h), NEW p \in Objects \cup {Null}, NEW g, g = Inc(h, p)
  PROVE  /\ Shape(g) /\ g.ptr = h.ptr /\ g.raw = h.raw /\ g.weak = h.weak /\ g.valid = h.valid
         /\ g.stack = h.stack
         /\ \A x \in Objects : /\ g.obj[x].life = h.obj[x].life /\ g.obj[x].weak = h.obj[x].weak
                               /\ g.obj[x].refcnt = h.obj[x].refcnt + One(p = x)
                               /\ h.obj[x].refcnt \in Nat /\ (p # x => g.obj[x] = h.obj[x])
  <1>1. \A x \in Objects : /\ h.obj[x] \in [life : Lives, refcnt : Nat, weak : Storages \cup {Null}]
                           /\ h.obj[x].refcnt \in Nat /\ x # Null
    BY DEF Shape, Given, Slots
  <1>2. CASE p = Null
    BY <1>1, <1>2 DEF Inc, One
  <1>3. CASE p # Null
    <2>1. PICK r : r = [h.obj[p] EXCEPT !.refcnt = h.obj[p].refcnt + 1]
      OBVIOUS
    <2>2. p \in Objects /\ h.obj[p].refcnt + 1 \in Nat
      BY <1>1, <1>3
    <2>3. /\ r \in [life : Lives, refcnt : Nat, weak : Storages \cup {Null}]
          /\ r.life = h.obj[p].life /\ r.weak = h.obj[p].weak /\ r.refcnt = h.obj[p].refcnt + 1
      BY <1>1, <2>1, <2>2
    <2>4. g = [h EXCEPT !.obj = [h.obj EXCEPT ![p] = r]]
      BY <1>3, <2>1, <2>2 DEF Inc, Shape
    <2>5. /\ g.ptr = h.ptr /\ g.raw = h.raw /\ g.weak = h.weak /\ g.valid = h.valid /\ g.stack = h.stack
          /\ g.obj = [h.obj EXCEPT ![p] = r]
          /\ g = [obj |-> g.obj, ptr |-> g.ptr, raw |-> g.raw, weak |-> g.weak, valid |-> g.valid, stack |-> g.stack]
      BY <2>4 DEF Shape
    <2>6. /\ g.obj \in [Objects -> [life : Lives, refcnt : Nat, weak : Storages \cup {Null}]]
          /\ g.obj[p] = r /\ \A x \in Objects \ {p} : g.obj[x] = h.obj[x]
      BY <2>2, <2>3, <2>5 DEF Shape
    <2>7. Shape(g)
      BY <2>5, <2>6 DEF Shape
    <2>8. QED
      BY <1>1, <2>2, <2>3, <2>5, <2>6, <2>7 DEF One
  <1>4. QED
    BY <1>2, <1>3

(* A pointer is about to be stored in an iptr that is not being assigned.  *)
LEMMA StoreOwed ==
  ASSUME Given, NEW h, Sound(h), NEW s \in Slots, s \notin Busily(h), NEW p \in Objects \cup {Null},
         NEW g, Shape(g), g.ptr = h.ptr, g.raw = h.raw, Similar(h, g), Alive(g),
         \A x \in Objects : g.obj[x].refcnt = h.obj[x].refcnt + One(p = x)
  PROVE  Owed(g, h.ptr[s], Store(s, p)) /\ (~Releasing(h) => ~Releasing(g))
  <1>1. Shape(h) /\ InOrder(h) /\ Counted(h) /\ g.stack = h.stack
    BY DEF Sound, Similar
  <1>2. PICK c, o : c = Store(s, p) /\ o = h.ptr[s]
    OBVIOUS
  <1>3. c \in Afters /\ c # Nothing /\ c.do = "store" /\ c.slot = s /\ c.from = p
    BY <1>2 DEF Afters, Store, Nothing
  <1>4. o \in Objects \cup {Null}
    BY <1>1, <1>2 DEF Shape
  <1>5. InOrder(g) /\ (~Releasing(h) => ~Releasing(g))
    BY <1>1, SimilarInOrder
  <1>6. Pending(g, o, c, All(g.stack))
    <2>1. \A e \in All(g.stack) : c.slot # e.after.slot
      BY <1>1, <1>3 DEF Busily
    <2>2. QED
      BY <1>2, <1>3, <2>1 DEF Pending
  <1>7. ASSUME NEW x \in Objects
        PROVE  g.obj[x].refcnt = Refs(g, x) + One(Gives(c, x)) + One(c = Nothing /\ o = x)
    <2>1. Gives(c, x) <=> p = x
      BY <1>2 DEF Gives, Store
    <2>2. Refs(g, x) = Refs(h, x) /\ h.obj[x].refcnt = Refs(h, x) /\ Refs(h, x) \in Nat
      BY <1>1, RefsAre DEF Refs, Counted
    <2>3. One(c = Nothing /\ o = x) = 0 /\ One(Gives(c, x)) = One(p = x) /\ One(p = x) \in {0, 1}
      BY <1>3, <2>1 DEF One
    <2>4. QED
      BY <2>2, <2>3
  <1>8. QED
    BY <1>2, <1>3, <1>4, <1>5, <1>6, <1>7 DEF Owed

(* A reference that nobody holds any more is about to be released.         *)
LEMMA NothingOwed ==
  ASSUME Given, NEW g, Shape(g), InOrder(g), Alive(g), NEW o \in Objects \cup {Null},
         \A x \in Objects : g.obj[x].refcnt = Refs(g, x) + One(o = x)
  PROVE  Owed(g, o, Nothing)
  <1>1. PICK c : c = Nothing
    OBVIOUS
  <1>2. c \in Afters /\ c.do = "nothing" /\ \A x \in Objects : ~Gives(c, x)
    BY <1>1, AfterCases DEF Afters, Nothing
  <1>3. Pending(g, o, c, All(g.stack))
    BY <1>1, <1>2 DEF Pending
  <1>4. ASSUME NEW x \in Objects
        PROVE  g.obj[x].refcnt = Refs(g, x) + One(Gives(c, x)) + One(c = Nothing /\ o = x)
    <2>1. One(Gives(c, x)) = 0 /\ One(c = Nothing /\ o = x) = One(o = x) /\ One(o = x) \in {0, 1}
      BY <1>1, <1>2 DEF One
    <2>2. Refs(g, x) \in Nat
      BY RefsAre
    <2>3. QED
      BY <2>1, <2>2
  <1>5. QED
    BY <1>1, <1>2, <1>3, <1>4 DEF Owed

(***************************************************************************)
(* Steps of the program.                                                   *)
(***************************************************************************)
SameWeaks(h, g) == /\ g.weak = h.weak /\ g.valid = h.valid
                   /\ \A x \in Objects : g.obj[x].weak = h.obj[x].weak
RawOK(h) == \A o \in Objects : h.raw[o] <= MaxRaw

(* The heap that a step leaves is the next one, but for storages that      *)
(* nobody has any more.                                                    *)
LEMMA BecomesOK ==
  ASSUME Given, OwnersKept, NEW h, Becomes(h), Sound(h), WeakSound(h), Releasing(h) => OnlyOne(h), RawOK(h)
  PROVE  RefcntInv'
  <1>1. PICK g : g = Heap'
    OBVIOUS
  <1>2. /\ g.obj = h.obj /\ g.ptr = h.ptr /\ g.raw = h.raw /\ g.weak = h.weak /\ g.stack = h.stack
        /\ g.valid = [t \in Storages |-> t \in InUse(h) /\ h.valid[t]]
        /\ g = [obj |-> g.obj, ptr |-> g.ptr, raw |-> g.raw, weak |-> g.weak, valid |-> g.valid, stack |-> g.stack]
    BY <1>1 DEF Becomes, Heap
  <1>3. g.valid \in [Storages -> BOOLEAN] /\ \A t \in Storages : g.valid[t] <=> t \in InUse(h) /\ h.valid[t]
    <2>1. \A t \in Storages : h.valid[t] \in BOOLEAN
      BY DEF Sound, Shape
    <2>2. \A t \in Storages : (t \in InUse(h) /\ h.valid[t]) \in BOOLEAN
      BY <2>1
    <2>3. QED
      BY <1>2, <2>2
  <1>4. Shape(g)
    BY <1>2, <1>3 DEF Sound, Shape
  <1>5. Alive(g)
    BY <1>2 DEF Sound, Alive
  <1>6. Counted(g)
    BY <1>2 DEF Sound, Counted, Refs
  <1>7. InOrder(g)
    <2>1. InOrder(h)
      BY DEF Sound
    <2>2. \A e \in All(h.stack) : /\ e.after.do # "nothing" => g.ptr[e.after.slot] = h.ptr[e.after.slot]
                                  /\ e.fn = "delete" => g.obj[e.obj].life = h.obj[e.obj].life
      BY <1>2
    <2>3. QED
      BY <1>2, <2>1, <2>2, OrderKept
  <1>8. WeakSound(g)
    <2>1. ASSUME NEW o \in Objects, h.obj[o].weak # Null
          PROVE  g.valid[h.obj[o].weak]
      <3>1. h.valid[h.obj[o].weak] /\ h.obj[o].weak \in InUse(h) /\ h.obj[o].weak \in Storages
        BY <2>1 DEF WeakSound, InUse, Sound, Shape
      <3>2. QED
        BY <1>3, <3>1
    <2>2. ASSUME NEW w \in Weaks, h.weak[w].storage # Null, g.valid[h.weak[w].storage]
          PROVE  h.weak[w].object # Null /\ h.obj[h.weak[w].object].weak = h.weak[w].storage
      <3>1. h.weak[w].storage \in Storages
        BY <2>2 DEF Sound, Shape, Places
      <3>2. QED
        BY <1>3, <2>2, <3>1 DEF WeakSound
    <2>3. QED
      BY <1>2, <2>1, <2>2 DEF WeakSound
  <1>9. Outlived(g)
    BY <1>2 DEF Becomes, Outlived
  <1>10. Releasing(g) => OnlyOne(g)
    BY <1>2 DEF Releasing, OnlyOne
  <1>11. /\ Sound(Heap') /\ WeakSound(Heap') /\ Outlived(Heap') /\ (Releasing(Heap') => OnlyOne(Heap'))
    BY <1>1, <1>4, <1>5, <1>6, <1>7, <1>8, <1>9, <1>10 DEF Sound
  <1>12. (\A o \in Objects : raw'[o] <= MaxRaw) /\ Len(stack') <= MaxNesting
    BY DEF Becomes, RawOK
  <1>13. QED
    BY <1>11, <1>12 DEF RefcntInv

(* Weak pointers and storages as they were.                                *)
LEMMA WeakKept ==
  ASSUME NEW h, WeakSound(h), Shape(h), NEW g, SameWeaks(h, g)
  PROVE  WeakSound(g)
  <1>1. \A w \in Weaks : h.weak[w].object # Null => h.weak[w].object \in Objects
    BY DEF Shape, Places
  <1>2. QED
    BY <1>1 DEF WeakSound, SameWeaks

(* A step that releases something.                                         *)
LEMMA ReleaseStep ==
  ASSUME Given, OwnersKept, RefcntInv, NEW g, NEW o, NEW c, Owed(g, o, c), SameWeaks(Heap, g), RawOK(g),
         Releasing(g) => OnlyOne(g), NEW h, h = Release(g, o, c), Becomes(h)
  PROVE  RefcntInv'
  <1>1. Sound(h) /\ SameWeak(g, h) /\ GoesOn(g, h)
    BY ReleaseOK
  <1>2. Releasing(h) => OnlyOne(h)
    BY <1>1, GoesOnOnly DEF Owed
  <1>3. RawOK(h)
    BY <1>1 DEF RawOK, SameWeak
  <1>4. WeakSound(h)
    <2>1. PICK k : k = Heap
      OBVIOUS
    <2>2. WeakSound(k) /\ Shape(k) /\ SameWeaks(k, h)
      BY <1>1, <2>1 DEF RefcntInv, Sound, SameWeaks, SameWeak
    <2>3. QED
      BY <2>2, WeakKept
  <1>5. QED
    BY <1>1, <1>2, <1>3, <1>4, BecomesOK

(* The heap before a step.                                                 *)
LEMMA HeapIs ==
  ASSUME Given, RefcntInv, NEW h, h = Heap
  PROVE  /\ Sound(h) /\ Shape(h) /\ Alive(h) /\ Counted(h) /\ InOrder(h) /\ WeakSound(h) /\ RawOK(h)
         /\ Outlived(h) /\ (Releasing(h) => OnlyOne(h))
         /\ h.obj = obj /\ h.ptr = ptr /\ h.raw = raw /\ h.weak = weak /\ h.valid = valid /\ h.stack = stack
  BY DEF RefcntInv, Sound, Heap, RawOK

(* Who runs is in the body of a callback or in none, and uses iptrs that   *)
(* are not being assigned, of objects that are there.                      *)
LEMMA UsableIs ==
  ASSUME Given, RefcntInv, NEW h, h = Heap
  PROVE  /\ InBody => ~Releasing(h)
         /\ \A s : Usable(s) => /\ InBody /\ s \notin Busily(h)
                                /\ (s \in Objects => h.obj[s].life \notin {"none", "members"})
  <1>1. h.stack = stack /\ h.obj = obj
    BY HeapIs
  <1>2. InBody => ~Releasing(h)
    BY <1>1 DEF InBody, Releasing, Top
  <1>3. Busily(h) = Busy
    BY <1>1 DEF Busily, Busy, All
  <1>4. QED
    BY <1>2, <1>3, <1>1 DEF Usable

(* An object that an iptr points to is there, and so is one that is being  *)
(* deleted or asked.                                                       *)
LEMMA PointedAlive ==
  ASSUME Given, NEW h, Sound(h), NEW s \in Slots
  PROVE  h.ptr[s] # Null => h.ptr[s] \in Objects /\ h.obj[h.ptr[s]].life # "none"
  <1>1. Shape(h) /\ Counted(h) /\ Alive(h)
    BY DEF Sound
  <1>2. h.ptr[s] \in Objects \cup {Null}
    BY <1>1 DEF Shape
  <1>3. ASSUME NEW o \in Objects, h.ptr[s] = o
        PROVE  h.obj[o].life # "none"
    <2>1. SlotCount(h.ptr, o) >= 1
      BY <1>3, SlotsHold
    <2>2. /\ SlotCount(h.ptr, o) \in Nat /\ h.raw[o] \in Nat
          /\ StoreCount(h.stack, o) \in Nat /\ DropCount(h.stack, o) \in Nat
      BY <1>1, RefsAre
    <2>3. h.obj[o].refcnt # 0
      BY <1>1, <2>1, <2>2 DEF Counted, Refs
    <2>4. QED
      BY <1>1, <2>3 DEF Alive, NoObj
  <1>4. QED
    BY <1>2, <1>3

(* A step of assignment: of a pointer to an object that is there, or null. *)
LEMMA AssignPtrStep ==
  ASSUME Given, OwnersKept, RefcntInv, NEW s \in Slots, NEW p \in Objects \cup {Null},
         p # Null => obj[p].life # "none", Usable(s), Becomes(AssignPtr(Heap, s, p))
  PROVE  RefcntInv'
  <1>1. PICK h : h = Heap
    OBVIOUS
  <1>2. /\ Sound(h) /\ Shape(h) /\ Alive(h) /\ RawOK(h) /\ h.obj = obj /\ h.ptr = ptr
        /\ ~Releasing(h) /\ s \notin Busily(h)
    BY <1>1, HeapIs, UsableIs
  <1>3. PICK g : g = Inc(h, p)
    OBVIOUS
  <1>4. /\ Shape(g) /\ g.ptr = h.ptr /\ g.raw = h.raw /\ g.weak = h.weak /\ g.valid = h.valid
        /\ g.stack = h.stack
        /\ \A x \in Objects : /\ g.obj[x].life = h.obj[x].life /\ g.obj[x].weak = h.obj[x].weak
                              /\ g.obj[x].refcnt = h.obj[x].refcnt + One(p = x)
                              /\ h.obj[x].refcnt \in Nat /\ (p # x => g.obj[x] = h.obj[x])
    BY <1>2, <1>3, IncIs
  <1>5. Alive(g)
    <2>1. ASSUME NEW x \in Objects
          PROVE  IF g.obj[x].life = "none" THEN g.obj[x] = NoObj ELSE g.obj[x].refcnt # 0
      <3>1. CASE p # x
        BY <1>2, <1>4, <3>1 DEF Alive
      <3>2. CASE p = x
        <4>1. x # Null
          BY DEF Given, Slots
        <4>2. g.obj[x].life # "none" /\ g.obj[x].refcnt = h.obj[x].refcnt + 1 /\ h.obj[x].refcnt \in Nat
          BY <1>2, <1>4, <3>2, <4>1 DEF One
        <4>3. QED
          BY <4>2
      <3>3. QED
        BY <3>1, <3>2
    <2>2. QED
      BY <2>1 DEF Alive
  <1>6. Similar(h, g)
    BY <1>4 DEF Similar
  <1>7. Owed(g, h.ptr[s], Store(s, p)) /\ ~Releasing(g)
    BY <1>2, <1>4, <1>5, <1>6, StoreOwed
  <1>8. SameWeaks(Heap, g) /\ RawOK(g)
    BY <1>1, <1>2, <1>4 DEF SameWeaks, RawOK
  <1>9. PICK k, c, o : k = Release(g, o, c) /\ c = Store(s, p) /\ o = h.ptr[s]
    OBVIOUS
  <1>10. Becomes(k) /\ Owed(g, o, c)
    BY <1>1, <1>3, <1>7, <1>9 DEF AssignPtr
  <1>11. QED
    BY <1>7, <1>8, <1>9, <1>10, ReleaseStep

(* What is on the stack is there.                                          *)
LEMMA StackAlive ==
  ASSUME Given, NEW h, Sound(h), NEW k \in DOMAIN h.stack
  PROVE  h.stack[k].obj \in Objects /\ h.obj[h.stack[k].obj].life # "none"
  <1>1. Shape(h) /\ Counted(h) /\ Alive(h) /\ InOrder(h) /\ h.stack \in Seq(Entries)
    BY DEF Sound, Shape
  <1>2. PICK e, o : e = h.stack[k] /\ o = e.obj
    OBVIOUS
  <1>3. e \in All(h.stack)
    BY <1>2 DEF All
  <1>4. o \in Objects /\ e.after \in Afters
    BY <1>1, <1>2, <1>3, EntriesAre
  <1>5. CASE e.after = Nothing
    <2>1. Drops(e, o)
      BY <1>2, <1>5 DEF Drops
    <2>2. DropCount(h.stack, o) >= 1
      BY <1>1, <1>2, <2>1, StackCounted
    <2>3. /\ SlotCount(h.ptr, o) \in Nat /\ h.raw[o] \in Nat
          /\ StoreCount(h.stack, o) \in Nat /\ DropCount(h.stack, o) \in Nat
      BY <1>1, <1>4, RefsAre
    <2>4. h.obj[o].refcnt # 0
      BY <1>1, <1>4, <2>2, <2>3 DEF Counted, Refs
    <2>5. QED
      BY <1>1, <1>2, <1>4, <2>4 DEF Alive, NoObj
  <1>6. CASE e.after # Nothing
    <2>1. e.after.do # "nothing" /\ e.after.slot \in Slots
      BY <1>4, <1>6, AfterCases
    <2>2. h.ptr[e.after.slot] = o
      BY <1>1, <1>2, <2>1 DEF InOrder, Pending
    <2>3. o # Null
      BY <1>4 DEF Given, Slots
    <2>4. QED
      BY <1>2, <1>4, <2>1, <2>2, <2>3, PointedAlive
  <1>7. QED
    BY <1>5, <1>6

(* Assign and AssignThis.                                                  *)
LEMMA AssignStep ==
  ASSUME Given, OwnersKept, RefcntInv, NEW s \in Slots, AssignThis(s) \/ \E t \in Slots : Assign(s, t)
  PROVE  RefcntInv'
  <1>1. PICK h : h = Heap
    OBVIOUS
  <1>2. Sound(h) /\ Shape(h) /\ h.obj = obj /\ h.ptr = ptr /\ h.stack = stack
    BY <1>1, HeapIs
  <1>3. ASSUME NEW t \in Slots, Assign(s, t)
        PROVE  RefcntInv'
    <2>1. PICK p : p = ptr[t]
      OBVIOUS
    <2>2. p \in Objects \cup {Null} /\ (p # Null => obj[p].life # "none")
      BY <1>2, <2>1, PointedAlive DEF Shape
    <2>3. Usable(s) /\ Becomes(AssignPtr(Heap, s, p))
      BY <1>3, <2>1 DEF Assign, Step
    <2>4. QED
      BY <2>2, <2>3, AssignPtrStep
  <1>4. ASSUME AssignThis(s)
        PROVE  RefcntInv'
    <2>1. PICK p : p = Top.obj
      OBVIOUS
    <2>2. Len(h.stack) \in DOMAIN h.stack
      <3>1. h.stack \in Seq(Entries) /\ h.stack # <<>>
        BY <1>2, <1>4 DEF AssignThis, Shape
      <3>2. QED
        BY <3>1, EmptySeq, LenProperties
    <2>3. p \in Objects /\ obj[p].life # "none"
      BY <1>2, <2>1, <2>2, StackAlive DEF Top, Last
    <2>4. Usable(s) /\ Becomes(AssignPtr(Heap, s, p))
      BY <1>4, <2>1 DEF AssignThis, Step
    <2>5. QED
      BY <2>3, <2>4, AssignPtrStep
  <1>5. QED
    BY <1>3, <1>4

(* An object is made and given to an iptr.                                 *)
LEMMA MakeStep ==
  ASSUME Given, OwnersKept, RefcntInv, NEW s \in Slots, Make(s)
  PROVE  RefcntInv'
  <1>1. PICK o \in Objects : /\ obj[o].life = "none" /\ Usable(s)
                             /\ Becomes(AssignPtr([Heap EXCEPT !.obj[o].life = "live"], s, o))
    BY DEF Make, Step
  <1>2. PICK h : h = Heap
    OBVIOUS
  <1>3. /\ Sound(h) /\ Shape(h) /\ Alive(h) /\ RawOK(h) /\ h.obj = obj /\ h.ptr = ptr
        /\ ~Releasing(h) /\ s \notin Busily(h)
    BY <1>1, <1>2, HeapIs, UsableIs
  <1>4. PICK k : k = [h EXCEPT !.obj[o].life = "live"]
    OBVIOUS
  <1>5. PICK r : r = [h.obj[o] EXCEPT !.life = "live"]
    OBVIOUS
  <1>6. /\ h.obj[o] \in [life : Lives, refcnt : Nat, weak : Storages \cup {Null}]
        /\ h.obj[o] = NoObj
    BY <1>1, <1>3 DEF Shape, Alive
  <1>7. /\ r \in [life : Lives, refcnt : Nat, weak : Storages \cup {Null}]
        /\ r.life = "live" /\ r.refcnt = h.obj[o].refcnt /\ r.weak = h.obj[o].weak /\ r.refcnt = 0
    BY <1>5, <1>6 DEF Lives, NoObj
  <1>8. /\ k.ptr = h.ptr /\ k.raw = h.raw /\ k.weak = h.weak /\ k.valid = h.valid /\ k.stack = h.stack
        /\ k.obj = [h.obj EXCEPT ![o] = r]
        /\ k = [obj |-> k.obj, ptr |-> k.ptr, raw |-> k.raw, weak |-> k.weak, valid |-> k.valid, stack |-> k.stack]
    BY <1>3, <1>4, <1>5 DEF Shape
  <1>9. /\ k.obj \in [Objects -> [life : Lives, refcnt : Nat, weak : Storages \cup {Null}]]
        /\ k.obj[o] = r /\ \A x \in Objects \ {o} : k.obj[x] = h.obj[x]
    BY <1>3, <1>7, <1>8 DEF Shape
  <1>10. Shape(k)
    BY <1>3, <1>8, <1>9 DEF Shape
  <1>11. PICK g : g = Inc(k, o)
    OBVIOUS
  <1>12. /\ Shape(g) /\ g.ptr = k.ptr /\ g.raw = k.raw /\ g.weak = k.weak /\ g.valid = k.valid
         /\ g.stack = k.stack
         /\ \A x \in Objects : /\ g.obj[x].life = k.obj[x].life /\ g.obj[x].weak = k.obj[x].weak
                               /\ g.obj[x].refcnt = k.obj[x].refcnt + One(o = x)
                               /\ k.obj[x].refcnt \in Nat /\ (o # x => g.obj[x] = k.obj[x])
    BY <1>10, <1>11, IncIs
  <1>13. ASSUME NEW x \in Objects
         PROVE  /\ g.obj[x].weak = h.obj[x].weak
                /\ g.obj[x].refcnt = h.obj[x].refcnt + One(o = x)
                /\ h.obj[x].life # "none" => g.obj[x].life = h.obj[x].life
    <2>1. k.obj[x].weak = h.obj[x].weak /\ k.obj[x].refcnt = h.obj[x].refcnt
      BY <1>7, <1>9
    <2>2. h.obj[x].life # "none" => k.obj[x].life = h.obj[x].life
      BY <1>1, <1>3, <1>9
    <2>3. QED
      BY <1>12, <2>1, <2>2
  <1>14. Alive(g)
    <2>1. g.obj[o].life = "live" /\ g.obj[o].refcnt # 0
      BY <1>7, <1>9, <1>12 DEF One
    <2>2. \A x \in Objects \ {o} : g.obj[x] = h.obj[x]
      BY <1>9, <1>12
    <2>3. QED
      BY <1>3, <2>1, <2>2 DEF Alive
  <1>15. Similar(h, g) /\ g.ptr = h.ptr /\ g.raw = h.raw
    BY <1>8, <1>12, <1>13 DEF Similar
  <1>16. Owed(g, h.ptr[s], Store(s, o)) /\ ~Releasing(g)
    BY <1>3, <1>12, <1>13, <1>14, <1>15, StoreOwed
  <1>17. SameWeaks(Heap, g) /\ RawOK(g)
    BY <1>2, <1>3, <1>8, <1>12, <1>13 DEF SameWeaks, RawOK
  <1>18. PICK n, c, q : n = Release(g, q, c) /\ c = Store(s, o) /\ q = h.ptr[s]
    OBVIOUS
  <1>19. Becomes(n) /\ Owed(g, q, c)
    BY <1>1, <1>2, <1>4, <1>8, <1>11, <1>16, <1>18 DEF AssignPtr
  <1>20. QED
    BY <1>16, <1>17, <1>18, <1>19, ReleaseStep

(* An iptr is emptied, or takes what another one of another type had.      *)
LEMMA ResetStep ==
  ASSUME Given, OwnersKept, RefcntInv, NEW s \in Slots, Reset(s)
  PROVE  RefcntInv'
  <1>1. PICK h : h = Heap
    OBVIOUS
  <1>2. /\ Sound(h) /\ Shape(h) /\ Alive(h) /\ RawOK(h) /\ h.ptr = ptr
        /\ ~Releasing(h) /\ s \notin Busily(h)
    BY <1>1, HeapIs, UsableIs DEF Reset, Step
  <1>3. \A x \in Objects : h.obj[x].refcnt = h.obj[x].refcnt + One(Null = x)
    <2>1. \A x \in Objects : h.obj[x].refcnt \in Nat /\ Null # x
      BY <1>2 DEF Shape, Given, Slots
    <2>2. QED
      BY <2>1 DEF One
  <1>4. Similar(h, h)
    BY DEF Similar
  <1>5. Owed(h, h.ptr[s], Store(s, Null)) /\ ~Releasing(h)
    BY <1>2, <1>3, <1>4, StoreOwed
  <1>6. SameWeaks(Heap, h)
    BY <1>1 DEF SameWeaks
  <1>7. PICK k, c, o : k = Release(h, o, c) /\ c = Store(s, Null) /\ o = h.ptr[s]
    OBVIOUS
  <1>8. Becomes(k) /\ Owed(h, o, c)
    BY <1>1, <1>2, <1>5, <1>7 DEF Reset, Step
  <1>9. QED
    BY <1>2, <1>6, <1>7, <1>8, ReleaseStep

(* The move assignment of an iptr of another type.                         *)
LEMMA MoveOtherStep ==
  ASSUME Given, OwnersKept, RefcntInv, NEW s \in Slots, NEW t \in Slots, MoveOther(s, t)
  PROVE  RefcntInv'
  <1>1. PICK h : h = Heap
    OBVIOUS
  <1>2. /\ Sound(h) /\ Shape(h) /\ Alive(h) /\ InOrder(h) /\ Counted(h) /\ WeakSound(h) /\ RawOK(h) /\ h.ptr = ptr
        /\ ~Releasing(h) /\ s \notin Busily(h) /\ t \notin Busily(h) /\ t \in Vars /\ s # t
        /\ Becomes(MoveForeign(h, s, t))
    BY <1>1, HeapIs, UsableIs DEF MoveOther, Step
  <1>3. CASE MoveForeign(h, s, t) = h
    BY <1>2, <1>3, BecomesOK
  <1>4. PICK c, o, k : c = Steal(s, t) /\ o = h.ptr[s] /\ k = Release(h, o, c)
    OBVIOUS
  <1>5. CASE MoveForeign(h, s, t) = k
    <2>1. c \in Afters /\ c # Nothing /\ c.do = "steal" /\ c.slot = s /\ c.from = t
      BY <1>2, <1>4 DEF Afters, Steal, Nothing
    <2>2. o \in Objects \cup {Null}
      BY <1>2, <1>4 DEF Shape
    <2>3. Pending(h, o, c, All(h.stack))
      <3>1. \A e \in All(h.stack) : c.slot # e.after.slot /\ c.from # e.after.slot
        BY <1>2, <2>1 DEF Busily
      <3>2. QED
        BY <1>2, <1>4, <2>1, <3>1 DEF Pending
    <2>4. ASSUME NEW x \in Objects
          PROVE  h.obj[x].refcnt = Refs(h, x) + One(Gives(c, x)) + One(c = Nothing /\ o = x)
      <3>1. ~Gives(c, x)
        BY <2>1 DEF Gives, Store
      <3>2. h.obj[x].refcnt = Refs(h, x) /\ Refs(h, x) \in Nat
        BY <1>2, RefsAre DEF Counted
      <3>3. QED
        BY <2>1, <3>1, <3>2 DEF One
    <2>5. Owed(h, o, c)
      BY <1>2, <2>1, <2>2, <2>3, <2>4 DEF Owed
    <2>6. SameWeaks(Heap, h)
      BY <1>1 DEF SameWeaks
    <2>7. QED
      BY <1>2, <1>4, <1>5, <2>5, <2>6, ReleaseStep
  <1>6. QED
    BY <1>3, <1>4, <1>5 DEF MoveForeign

(***************************************************************************)
(* Iptrs exchanged, references taken out of iptrs and given back.          *)
(***************************************************************************)
LEMMA StaysSound ==
  ASSUME Given, NEW h, Sound(h), NEW g, Shape(g), Similar(h, g), Alive(g),
         \A u \in Slots : u \in Busily(h) => g.ptr[u] = h.ptr[u],
         \A x \in Objects : g.obj[x].refcnt = Refs(g, x)
  PROVE  Sound(g) /\ (~Releasing(h) => ~Releasing(g))
  BY SimilarInOrder DEF Sound, Counted

(* Two iptrs are exchanged.                                                *)
LEMMA MoveStep ==
  ASSUME Given, OwnersKept, RefcntInv, NEW s \in Slots, NEW t \in Slots, Move(s, t)
  PROVE  RefcntInv'
  <1>1. PICK h : h = Heap
    OBVIOUS
  <1>2. /\ Sound(h) /\ Shape(h) /\ Alive(h) /\ Counted(h) /\ WeakSound(h) /\ RawOK(h) /\ h.ptr = ptr
        /\ ~Releasing(h) /\ s \notin Busily(h) /\ t \notin Busily(h)
        /\ Becomes(Swapped(h, s, t))
    BY <1>1, HeapIs, UsableIs DEF Move, Step
  <1>3. PICK g : g = Swapped(h, s, t)
    OBVIOUS
  <1>4. PICK q : q = [h.ptr EXCEPT ![s] = h.ptr[t]]
    OBVIOUS
  <1>5. h.ptr \in [Slots -> Objects \cup {Null}] /\ h.ptr[s] \in Objects \cup {Null} /\ h.ptr[t] \in Objects \cup {Null}
    BY <1>2 DEF Shape
  <1>6. /\ q \in [Slots -> Objects \cup {Null}] /\ q[s] = h.ptr[t]
        /\ \A u \in Slots \ {s} : q[u] = h.ptr[u]
    BY <1>4, <1>5
  <1>7. /\ g.obj = h.obj /\ g.raw = h.raw /\ g.weak = h.weak /\ g.valid = h.valid /\ g.stack = h.stack
        /\ g.ptr = [q EXCEPT ![t] = h.ptr[s]]
        /\ g = [obj |-> g.obj, ptr |-> g.ptr, raw |-> g.raw, weak |-> g.weak, valid |-> g.valid, stack |-> g.stack]
    BY <1>2, <1>3, <1>4 DEF Swapped, Shape
  <1>8. /\ g.ptr \in [Slots -> Objects \cup {Null}] /\ g.ptr[t] = h.ptr[s]
        /\ \A u \in Slots \ {t} : g.ptr[u] = q[u]
    BY <1>5, <1>6, <1>7
  <1>9. Shape(g)
    BY <1>2, <1>7, <1>8 DEF Shape
  <1>10. ASSUME NEW x \in Objects
         PROVE  g.obj[x].refcnt = Refs(g, x)
    <2>1. OnlyAt(h.ptr, q, s) /\ OnlyAt(q, g.ptr, t)
      BY <1>6, <1>8 DEF OnlyAt
    <2>2. SlotCount(q, x) = SlotCount(h.ptr, x) - One(h.ptr[s] = x) + One(q[s] = x)
      BY <2>1, SlotSet
    <2>3. SlotCount(g.ptr, x) = SlotCount(q, x) - One(q[t] = x) + One(g.ptr[t] = x)
      BY <2>1, SlotSet
    <2>4. SlotCount(h.ptr, x) \in Nat /\ SlotCount(q, x) \in Nat
      BY SlotsCounted
    <2>5. q[t] = h.ptr[t]
      BY <1>6
    <2>6. SlotCount(g.ptr, x) = SlotCount(h.ptr, x)
      BY <1>6, <1>8, <2>2, <2>3, <2>4, <2>5 DEF One
    <2>7. QED
      BY <1>2, <1>7, <2>6 DEF Counted, Refs
  <1>11. Similar(h, g) /\ Alive(g) /\ SameWeaks(h, g) /\ RawOK(g)
    BY <1>2, <1>7 DEF Similar, Alive, SameWeaks, RawOK
  <1>12. \A u \in Slots : u \in Busily(h) => g.ptr[u] = h.ptr[u]
    BY <1>2, <1>6, <1>8
  <1>13. Sound(g) /\ ~Releasing(g)
    BY <1>2, <1>9, <1>10, <1>11, <1>12, StaysSound
  <1>14. WeakSound(g)
    BY <1>2, <1>11, WeakKept
  <1>15. QED
    BY <1>2, <1>3, <1>11, <1>13, <1>14, BecomesOK

(* References that the program holds without an iptr.                      *)
LEMMA RawSet ==
  ASSUME NEW h, Shape(h), NEW o \in Objects, NEW n \in Nat, NEW g, g = [h EXCEPT !.raw[o] = n]
  PROVE  /\ Shape(g) /\ g.obj = h.obj /\ g.ptr = h.ptr /\ g.weak = h.weak /\ g.valid = h.valid /\ g.stack = h.stack
         /\ g.raw[o] = n /\ \A x \in Objects \ {o} : g.raw[x] = h.raw[x]
  <1>1. /\ g.obj = h.obj /\ g.ptr = h.ptr /\ g.weak = h.weak /\ g.valid = h.valid /\ g.stack = h.stack
        /\ g.raw = [h.raw EXCEPT ![o] = n]
        /\ g = [obj |-> g.obj, ptr |-> g.ptr, raw |-> g.raw, weak |-> g.weak, valid |-> g.valid, stack |-> g.stack]
    BY DEF Shape
  <1>2. g.raw \in [Objects -> Nat] /\ g.raw[o] = n /\ \A x \in Objects \ {o} : g.raw[x] = h.raw[x]
    BY <1>1 DEF Shape
  <1>3. QED
    BY <1>1, <1>2 DEF Shape

(* detach(): the iptr's reference becomes the program's.                   *)
LEMMA DetachStep ==
  ASSUME Given, BoundsAssumption, OwnersKept, RefcntInv, NEW s \in Slots, Detach(s)
  PROVE  RefcntInv'
  <1>1. PICK h : h = Heap
    OBVIOUS
  <1>2. PICK o : o = h.ptr[s]
    OBVIOUS
  <1>3. /\ Sound(h) /\ Shape(h) /\ Alive(h) /\ Counted(h) /\ WeakSound(h) /\ RawOK(h)
        /\ h.ptr = ptr /\ h.raw = raw
        /\ ~Releasing(h) /\ s \notin Busily(h) /\ o # Null /\ h.raw[o] < MaxRaw
        /\ Becomes([h EXCEPT !.raw[o] = @ + 1, !.ptr[s] = Null])
    BY <1>1, <1>2, HeapIs, UsableIs DEF Detach, Step
  <1>4. h.ptr \in [Slots -> Objects \cup {Null}] /\ o \in Objects /\ h.raw[o] \in Nat
    BY <1>2, <1>3 DEF Shape
  <1>5. PICK k : k = [h EXCEPT !.raw[o] = h.raw[o] + 1]
    OBVIOUS
  <1>6. /\ Shape(k) /\ k.obj = h.obj /\ k.ptr = h.ptr /\ k.weak = h.weak /\ k.valid = h.valid /\ k.stack = h.stack
        /\ k.raw[o] = h.raw[o] + 1 /\ \A x \in Objects \ {o} : k.raw[x] = h.raw[x]
    BY <1>3, <1>4, <1>5, RawSet
  <1>7. PICK g : g = [k EXCEPT !.ptr[s] = Null]
    OBVIOUS
  <1>8. Becomes(g)
    BY <1>3, <1>4, <1>5, <1>7 DEF Shape
  <1>9. /\ g.obj = h.obj /\ g.raw = k.raw /\ g.weak = h.weak /\ g.valid = h.valid /\ g.stack = h.stack
        /\ g.ptr = [h.ptr EXCEPT ![s] = Null]
        /\ g = [obj |-> g.obj, ptr |-> g.ptr, raw |-> g.raw, weak |-> g.weak, valid |-> g.valid, stack |-> g.stack]
    BY <1>6, <1>7 DEF Shape
  <1>10. /\ g.ptr \in [Slots -> Objects \cup {Null}] /\ g.ptr[s] = Null
         /\ \A u \in Slots \ {s} : g.ptr[u] = h.ptr[u]
    BY <1>4, <1>9
  <1>11. Shape(g)
    BY <1>6, <1>9, <1>10 DEF Shape
  <1>12. ASSUME NEW x \in Objects
         PROVE  g.obj[x].refcnt = Refs(g, x)
    <2>1. OnlyAt(h.ptr, g.ptr, s)
      BY <1>10 DEF OnlyAt
    <2>2. SlotCount(g.ptr, x) = SlotCount(h.ptr, x) - One(h.ptr[s] = x) + One(g.ptr[s] = x)
      BY <2>1, SlotSet
    <2>3. /\ SlotCount(h.ptr, x) \in Nat /\ h.raw[x] \in Nat
          /\ StoreCount(h.stack, x) \in Nat /\ DropCount(h.stack, x) \in Nat /\ Null # x
      BY <1>3, RefsAre DEF Given, Slots
    <2>4. SlotCount(g.ptr, x) + g.raw[x] = SlotCount(h.ptr, x) + h.raw[x]
      BY <1>2, <1>6, <1>9, <1>10, <2>2, <2>3 DEF One
    <2>5. SlotCount(g.ptr, x) \in Nat /\ g.raw[x] \in Nat
      BY <1>11, RefsAre
    <2>6. QED
      BY <1>3, <1>9, <2>3, <2>4, <2>5 DEF Counted, Refs
  <1>13. Similar(h, g) /\ Alive(g) /\ SameWeaks(h, g)
    BY <1>3, <1>9 DEF Similar, Alive, SameWeaks
  <1>14. RawOK(g)
    BY <1>3, <1>4, <1>6, <1>9 DEF RawOK, BoundsAssumption
  <1>15. \A u \in Slots : u \in Busily(h) => g.ptr[u] = h.ptr[u]
    BY <1>3, <1>10
  <1>16. Sound(g) /\ ~Releasing(g)
    BY <1>3, <1>11, <1>12, <1>13, <1>15, StaysSound
  <1>17. WeakSound(g)
    BY <1>3, <1>13, WeakKept
  <1>18. QED
    BY <1>8, <1>14, <1>16, <1>17, BecomesOK

(* retain(): a reference more.                                             *)
LEMMA RetainStep ==
  ASSUME Given, BoundsAssumption, OwnersKept, RefcntInv, NEW s \in Slots, Retain(s)
  PROVE  RefcntInv'
  <1>1. PICK h : h = Heap
    OBVIOUS
  <1>2. PICK o : o = h.ptr[s]
    OBVIOUS
  <1>3. /\ Sound(h) /\ Shape(h) /\ Alive(h) /\ Counted(h) /\ WeakSound(h) /\ RawOK(h)
        /\ h.ptr = ptr /\ h.raw = raw /\ ~Releasing(h) /\ o # Null /\ h.raw[o] < MaxRaw
        /\ Becomes(Inc([h EXCEPT !.raw[o] = @ + 1], o))
    BY <1>1, <1>2, HeapIs, UsableIs DEF Retain, Step
  <1>4. o \in Objects /\ h.raw[o] \in Nat /\ h.obj[o].life # "none"
    BY <1>2, <1>3, PointedAlive DEF Shape
  <1>5. PICK k : k = [h EXCEPT !.raw[o] = h.raw[o] + 1]
    OBVIOUS
  <1>6. /\ Shape(k) /\ k.obj = h.obj /\ k.ptr = h.ptr /\ k.weak = h.weak /\ k.valid = h.valid /\ k.stack = h.stack
        /\ k.raw[o] = h.raw[o] + 1 /\ \A x \in Objects \ {o} : k.raw[x] = h.raw[x]
    <2>1. PICK n \in Nat : n = h.raw[o] + 1
      BY <1>4
    <2>2. k = [h EXCEPT !.raw[o] = n]
      BY <1>5, <2>1
    <2>3. QED
      BY <1>3, <1>4, <2>1, <2>2, RawSet
  <1>7. PICK g : g = Inc(k, o)
    OBVIOUS
  <1>8. Becomes(g)
    BY <1>3, <1>5, <1>7
  <1>9. /\ Shape(g) /\ g.ptr = h.ptr /\ g.raw = k.raw /\ g.weak = h.weak /\ g.valid = h.valid /\ g.stack = h.stack
        /\ \A x \in Objects : /\ g.obj[x].life = h.obj[x].life /\ g.obj[x].weak = h.obj[x].weak
                              /\ g.obj[x].refcnt = h.obj[x].refcnt + One(o = x)
                              /\ h.obj[x].refcnt \in Nat /\ (o # x => g.obj[x] = h.obj[x])
    BY <1>4, <1>6, <1>7, IncIs
  <1>10. ASSUME NEW x \in Objects
         PROVE  g.obj[x].refcnt = Refs(g, x)
    <2>1. /\ SlotCount(h.ptr, x) \in Nat /\ h.raw[x] \in Nat
          /\ StoreCount(h.stack, x) \in Nat /\ DropCount(h.stack, x) \in Nat
      BY <1>3, RefsAre
    <2>2. g.raw[x] = h.raw[x] + One(o = x)
      BY <1>6, <1>9, <2>1 DEF One
    <2>3. One(o = x) \in {0, 1}
      BY DEF One
    <2>4. QED
      BY <1>3, <1>9, <2>1, <2>2, <2>3 DEF Counted, Refs
  <1>11. Alive(g)
    <2>1. ASSUME NEW x \in Objects
          PROVE  IF g.obj[x].life = "none" THEN g.obj[x] = NoObj ELSE g.obj[x].refcnt # 0
      <3>1. CASE o # x
        BY <1>3, <1>9, <3>1 DEF Alive
      <3>2. CASE o = x
        BY <1>4, <1>9, <3>2 DEF One
      <3>3. QED
        BY <3>1, <3>2
    <2>2. QED
      BY <2>1 DEF Alive
  <1>12. Similar(h, g) /\ SameWeaks(h, g)
    BY <1>9 DEF Similar, SameWeaks
  <1>13. RawOK(g)
    BY <1>3, <1>4, <1>6, <1>9 DEF RawOK, BoundsAssumption
  <1>14. \A u \in Slots : u \in Busily(h) => g.ptr[u] = h.ptr[u]
    BY <1>9
  <1>15. Sound(g) /\ ~Releasing(g)
    BY <1>3, <1>9, <1>10, <1>11, <1>12, <1>14, StaysSound
  <1>16. WeakSound(g)
    BY <1>3, <1>12, WeakKept
  <1>17. QED
    BY <1>8, <1>13, <1>15, <1>16, BecomesOK

(* release(): a reference without an iptr is dropped.                      *)
LEMMA DropStep ==
  ASSUME Given, BoundsAssumption, OwnersKept, RefcntInv, NEW o \in Objects, Drop(o)
  PROVE  RefcntInv'
  <1>1. PICK h : h = Heap
    OBVIOUS
  <1>2. /\ Sound(h) /\ Shape(h) /\ Alive(h) /\ Counted(h) /\ InOrder(h) /\ RawOK(h)
        /\ h.raw = raw /\ ~Releasing(h) /\ h.raw[o] > 0
        /\ Becomes(Release([h EXCEPT !.raw[o] = @ - 1], o, Nothing))
    BY <1>1, HeapIs, UsableIs DEF Drop
  <1>3. h.raw[o] \in Nat /\ h.raw[o] - 1 \in Nat
    BY <1>2 DEF Shape
  <1>4. PICK g : g = [h EXCEPT !.raw[o] = h.raw[o] - 1]
    OBVIOUS
  <1>5. /\ Shape(g) /\ g.obj = h.obj /\ g.ptr = h.ptr /\ g.weak = h.weak /\ g.valid = h.valid /\ g.stack = h.stack
        /\ g.raw[o] = h.raw[o] - 1 /\ \A x \in Objects \ {o} : g.raw[x] = h.raw[x]
    <2>1. PICK n \in Nat : n = h.raw[o] - 1
      BY <1>3
    <2>2. g = [h EXCEPT !.raw[o] = n]
      BY <1>4, <2>1
    <2>3. QED
      BY <1>2, <2>1, <2>2, RawSet
  <1>6. Similar(h, g) /\ Alive(g) /\ SameWeaks(Heap, g)
    BY <1>1, <1>2, <1>5 DEF Similar, Alive, SameWeaks
  <1>7. InOrder(g) /\ ~Releasing(g)
    BY <1>2, <1>5, <1>6, SimilarInOrder
  <1>8. RawOK(g)
    <2>1. \A x \in Objects : h.raw[x] \in Nat /\ h.raw[x] <= MaxRaw
      BY <1>2 DEF Shape, RawOK
    <2>2. QED
      BY <1>5, <2>1 DEF RawOK, BoundsAssumption
  <1>9. ASSUME NEW x \in Objects
        PROVE  g.obj[x].refcnt = Refs(g, x) + One(o = x)
    <2>1. /\ SlotCount(h.ptr, x) \in Nat /\ h.raw[x] \in Nat
          /\ StoreCount(h.stack, x) \in Nat /\ DropCount(h.stack, x) \in Nat
      BY <1>2, RefsAre
    <2>2. h.raw[x] = g.raw[x] + One(o = x) /\ g.raw[x] \in Nat
      BY <1>3, <1>5, <2>1 DEF One
    <2>3. One(o = x) \in {0, 1}
      BY DEF One
    <2>4. QED
      BY <1>2, <1>5, <2>1, <2>2, <2>3 DEF Counted, Refs
  <1>10. Owed(g, o, Nothing)
    BY <1>5, <1>6, <1>7, <1>9, NothingOwed
  <1>11. PICK k : k = Release(g, o, Nothing)
    OBVIOUS
  <1>12. Becomes(k)
    BY <1>2, <1>4, <1>11
  <1>13. QED
    BY <1>6, <1>7, <1>8, <1>10, <1>11, <1>12, ReleaseStep

(* lock(): what a valid weak pointer points to is there.                   *)
LEMMA LockedAlive ==
  ASSUME Given, NEW h, Sound(h), WeakSound(h), NEW w \in Weaks, NEW p, p = Locked(h, h.weak[w])
  PROVE  p \in Objects \cup {Null} /\ (p # Null => h.obj[p].life # "none")
  <1>1. CASE ~IsValid(h, h.weak[w])
    BY <1>1 DEF Locked
  <1>2. CASE IsValid(h, h.weak[w])
    <2>1. p = h.weak[w].object /\ p # Null /\ h.obj[p].weak = h.weak[w].storage /\ h.weak[w].storage # Null
      BY <1>2 DEF Locked, IsValid, WeakSound
    <2>2. p \in Objects
      BY <2>1 DEF Sound, Shape, Places
    <2>3. h.obj[p].life # "none"
      BY <2>1, <2>2 DEF Sound, Alive, NoObj
    <2>4. QED
      BY <2>2, <2>3
  <1>3. QED
    BY <1>1, <1>2

LEMMA LockStep ==
  ASSUME Given, OwnersKept, RefcntInv, NEW s \in Slots, NEW w \in Weaks, Lock(s, w)
  PROVE  RefcntInv'
  <1>1. PICK h : h = Heap
    OBVIOUS
  <1>2. PICK p : p = Locked(h, h.weak[w])
    OBVIOUS
  <1>3. /\ Sound(h) /\ Shape(h) /\ Alive(h) /\ Counted(h) /\ InOrder(h) /\ WeakSound(h) /\ RawOK(h)
        /\ h.weak = weak /\ ~Releasing(h) /\ s \notin Busily(h) /\ Becomes(TakeOver(h, s, p))
    BY <1>1, <1>2, HeapIs, UsableIs DEF Lock, Step
  <1>4. p \in Objects \cup {Null} /\ (p # Null => h.obj[p].life # "none")
    BY <1>2, <1>3, LockedAlive
  <1>5. PICK m : m = Inc(h, p)
    OBVIOUS
  <1>6. /\ Shape(m) /\ m.ptr = h.ptr /\ m.raw = h.raw /\ m.weak = h.weak /\ m.valid = h.valid
        /\ m.stack = h.stack
        /\ \A x \in Objects : /\ m.obj[x].life = h.obj[x].life /\ m.obj[x].weak = h.obj[x].weak
                              /\ m.obj[x].refcnt = h.obj[x].refcnt + One(p = x)
                              /\ h.obj[x].refcnt \in Nat /\ (p # x => m.obj[x] = h.obj[x])
    BY <1>3, <1>4, <1>5, IncIs
  <1>7. PICK g : g = [m EXCEPT !.ptr[s] = p]
    OBVIOUS
  <1>8. PICK o : o = h.ptr[s]
    OBVIOUS
  <1>9. /\ g.obj = m.obj /\ g.raw = h.raw /\ g.weak = h.weak /\ g.valid = h.valid /\ g.stack = h.stack
        /\ g.ptr = [h.ptr EXCEPT ![s] = p]
        /\ g = [obj |-> g.obj, ptr |-> g.ptr, raw |-> g.raw, weak |-> g.weak, valid |-> g.valid, stack |-> g.stack]
    BY <1>6, <1>7 DEF Shape
  <1>10. /\ g.ptr \in [Slots -> Objects \cup {Null}] /\ g.ptr[s] = p
         /\ \A u \in Slots \ {s} : g.ptr[u] = h.ptr[u]
         /\ o \in Objects \cup {Null}
    <2>1. h.ptr \in [Slots -> Objects \cup {Null}]
      BY <1>3 DEF Shape
    <2>2. QED
      BY <1>4, <1>8, <1>9, <2>1
  <1>11. Shape(g)
    BY <1>6, <1>9, <1>10 DEF Shape
  <1>12. Alive(g)
    <2>1. ASSUME NEW x \in Objects
          PROVE  IF g.obj[x].life = "none" THEN g.obj[x] = NoObj ELSE g.obj[x].refcnt # 0
      <3>1. CASE p # x
        BY <1>3, <1>6, <1>9, <3>1 DEF Alive
      <3>2. CASE p = x
        <4>1. x # Null
          BY DEF Given, Slots
        <4>2. g.obj[x].life # "none" /\ g.obj[x].refcnt = h.obj[x].refcnt + 1 /\ h.obj[x].refcnt \in Nat
          BY <1>4, <1>6, <1>9, <3>2, <4>1 DEF One
        <4>3. QED
          BY <4>2
      <3>3. QED
        BY <3>1, <3>2
    <2>2. QED
      BY <2>1 DEF Alive
  <1>13. Similar(h, g) /\ SameWeaks(Heap, g) /\ RawOK(g)
    BY <1>1, <1>3, <1>6, <1>9 DEF Similar, SameWeaks, RawOK
  <1>14. \A u \in Slots : u \in Busily(h) => g.ptr[u] = h.ptr[u]
    BY <1>3, <1>10
  <1>15. InOrder(g) /\ ~Releasing(g)
    BY <1>3, <1>13, <1>14, SimilarInOrder
  <1>16. ASSUME NEW x \in Objects
         PROVE  g.obj[x].refcnt = Refs(g, x) + One(o = x)
    <2>1. OnlyAt(h.ptr, g.ptr, s)
      BY <1>10 DEF OnlyAt
    <2>2. SlotCount(g.ptr, x) = SlotCount(h.ptr, x) - One(h.ptr[s] = x) + One(g.ptr[s] = x)
      BY <2>1, SlotSet
    <2>3. /\ SlotCount(h.ptr, x) \in Nat /\ h.raw[x] \in Nat
          /\ StoreCount(h.stack, x) \in Nat /\ DropCount(h.stack, x) \in Nat
      BY <1>3, RefsAre
    <2>4. One(o = x) \in {0, 1} /\ One(p = x) \in {0, 1}
      BY DEF One
    <2>5. g.obj[x].refcnt = h.obj[x].refcnt + One(p = x) /\ h.obj[x].refcnt = Refs(h, x)
      BY <1>3, <1>6, <1>9 DEF Counted
    <2>6. QED
      BY <1>8, <1>9, <1>10, <2>2, <2>3, <2>4, <2>5 DEF Refs
  <1>17. Owed(g, o, Nothing)
    BY <1>10, <1>11, <1>12, <1>15, <1>16, NothingOwed
  <1>18. PICK k : k = Release(g, o, Nothing)
    OBVIOUS
  <1>19. Becomes(k)
    BY <1>3, <1>5, <1>7, <1>8, <1>18 DEF TakeOver
  <1>20. QED
    BY <1>13, <1>15, <1>17, <1>18, <1>19, ReleaseStep

(***************************************************************************)
(* Weak pointers.                                                          *)
(***************************************************************************)
(* Only weak pointers change, each to null or to what another one is.      *)
OnlyWeaks(h, g) ==
  /\ Shape(g) /\ g.obj = h.obj /\ g.ptr = h.ptr /\ g.raw = h.raw /\ g.valid = h.valid /\ g.stack = h.stack
  /\ \A w \in Weaks : g.weak[w].storage # Null => \E v \in Weaks : g.weak[w] = h.weak[v]
LEMMA OnlyWeaksStep ==
  ASSUME Given, OwnersKept, RefcntInv, InBody, NEW g, OnlyWeaks(Heap, g), Becomes(g)
  PROVE  RefcntInv'
  <1>1. PICK h : h = Heap
    OBVIOUS
  <1>2. /\ Sound(h) /\ Shape(h) /\ Alive(h) /\ Counted(h) /\ InOrder(h) /\ WeakSound(h) /\ RawOK(h)
        /\ ~Releasing(h)
    BY <1>1, HeapIs, UsableIs
  <1>3. /\ Shape(g) /\ g.obj = h.obj /\ g.ptr = h.ptr /\ g.raw = h.raw /\ g.valid = h.valid /\ g.stack = h.stack
        /\ \A w \in Weaks : g.weak[w].storage # Null => \E v \in Weaks : g.weak[w] = h.weak[v]
    BY <1>1 DEF OnlyWeaks
  <1>4. Similar(h, g) /\ Alive(g) /\ RawOK(g)
    BY <1>2, <1>3 DEF Similar, Alive, RawOK
  <1>5. \A x \in Objects : g.obj[x].refcnt = Refs(g, x)
    BY <1>2, <1>3 DEF Counted, Refs
  <1>6. \A u \in Slots : u \in Busily(h) => g.ptr[u] = h.ptr[u]
    BY <1>3
  <1>7. Sound(g) /\ ~Releasing(g)
    BY <1>2, <1>3, <1>4, <1>5, <1>6, StaysSound
  <1>8. WeakSound(g)
    BY <1>2, <1>3 DEF WeakSound
  <1>9. QED
    BY <1>4, <1>7, <1>8, BecomesOK

(* Copy, reset and move of a weak_iptr.                                    *)
LEMMA WeakStep ==
  ASSUME Given, OwnersKept, RefcntInv, NEW w \in Weaks,
         ResetWeak(w) \/ \E v \in Weaks : CopyWeak(w, v) \/ MoveWeak(w, v)
  PROVE  RefcntInv'
  <1>1. PICK h : h = Heap
    OBVIOUS
  <1>2. Shape(h) /\ h.weak = weak
    BY <1>1, HeapIs
  <1>3. h.weak \in [Weaks -> Places] /\ Empty \in Places /\ Empty.storage = Null
    BY <1>2 DEF Shape, Places, Empty
  <1>4. CASE ResetWeak(w)
    <2>1. PICK g : g = [h EXCEPT !.weak[w] = Empty]
      OBVIOUS
    <2>2. /\ g.obj = h.obj /\ g.ptr = h.ptr /\ g.raw = h.raw /\ g.valid = h.valid /\ g.stack = h.stack
          /\ g.weak = [h.weak EXCEPT ![w] = Empty]
          /\ g = [obj |-> g.obj, ptr |-> g.ptr, raw |-> g.raw, weak |-> g.weak, valid |-> g.valid, stack |-> g.stack]
      BY <1>2, <2>1 DEF Shape
    <2>3. g.weak \in [Weaks -> Places] /\ g.weak[w] = Empty /\ \A u \in Weaks \ {w} : g.weak[u] = h.weak[u]
      BY <1>3, <2>2
    <2>4. OnlyWeaks(h, g)
      BY <1>2, <1>3, <2>2, <2>3 DEF Shape, OnlyWeaks
    <2>5. InBody /\ Becomes(g)
      BY <1>1, <1>4, <2>1 DEF ResetWeak
    <2>6. QED
      BY <1>1, <2>4, <2>5, OnlyWeaksStep
  <1>5. ASSUME NEW v \in Weaks, CopyWeak(w, v)
        PROVE  RefcntInv'
    <2>1. PICK g : g = [h EXCEPT !.weak[w] = h.weak[v]]
      OBVIOUS
    <2>2. /\ g.obj = h.obj /\ g.ptr = h.ptr /\ g.raw = h.raw /\ g.valid = h.valid /\ g.stack = h.stack
          /\ g.weak = [h.weak EXCEPT ![w] = h.weak[v]]
          /\ g = [obj |-> g.obj, ptr |-> g.ptr, raw |-> g.raw, weak |-> g.weak, valid |-> g.valid, stack |-> g.stack]
      BY <1>2, <2>1 DEF Shape
    <2>3. g.weak \in [Weaks -> Places] /\ g.weak[w] = h.weak[v] /\ \A u \in Weaks \ {w} : g.weak[u] = h.weak[u]
      BY <1>3, <2>2
    <2>4. OnlyWeaks(h, g)
      BY <1>2, <1>3, <2>2, <2>3 DEF Shape, OnlyWeaks
    <2>5. InBody /\ Becomes(g)
      BY <1>1, <1>2, <1>5, <2>1 DEF CopyWeak
    <2>6. QED
      BY <1>1, <2>4, <2>5, OnlyWeaksStep
  <1>6. ASSUME NEW v \in Weaks, MoveWeak(w, v)
        PROVE  RefcntInv'
    <2>1. PICK q : q = [h.weak EXCEPT ![w] = h.weak[v]]
      OBVIOUS
    <2>2. q \in [Weaks -> Places] /\ q[w] = h.weak[v] /\ \A u \in Weaks \ {w} : q[u] = h.weak[u]
      BY <1>3, <2>1
    <2>3. PICK g : g = WeakMoved(h, w, v)
      OBVIOUS
    <2>4. h.weak[w].storage = Null /\ InBody /\ Becomes(g)
      BY <1>1, <1>2, <1>6, <2>3 DEF MoveWeak
    <2>5. PICK r : r = [q[v] EXCEPT !.storage = Null]
      OBVIOUS
    <2>6. r \in Places /\ r.storage = Null
      BY <2>2, <2>5 DEF Places
    <2>7. /\ g.obj = h.obj /\ g.ptr = h.ptr /\ g.raw = h.raw /\ g.valid = h.valid /\ g.stack = h.stack
          /\ g.weak = [q EXCEPT ![v] = r]
          /\ g = [obj |-> g.obj, ptr |-> g.ptr, raw |-> g.raw, weak |-> g.weak, valid |-> g.valid, stack |-> g.stack]
      BY <1>2, <2>1, <2>3, <2>4, <2>5 DEF Shape, WeakMoved
    <2>8. g.weak \in [Weaks -> Places] /\ g.weak[v] = r /\ \A u \in Weaks \ {v} : g.weak[u] = q[u]
      BY <2>2, <2>6, <2>7
    <2>9. \A u \in Weaks : g.weak[u].storage # Null => \E x \in Weaks : g.weak[u] = h.weak[x]
      BY <2>2, <2>6, <2>8
    <2>10. OnlyWeaks(h, g)
      BY <1>2, <2>7, <2>8, <2>9 DEF Shape, OnlyWeaks
    <2>11. QED
      BY <1>1, <2>4, <2>10, OnlyWeaksStep
  <1>7. QED
    BY <1>4, <1>5, <1>6

(* get_weak(): an object has a storage, of its own.                        *)
LEMMA GetWeakIs ==
  ASSUME Given, NEW h, Shape(h), WeakSound(h), NEW p \in Objects, h.obj[p].life # "none",
         h.obj[p].weak # Null \/ Unused(h) # {}, NEW g, g = GetWeak(h, p)
  PROVE  /\ Shape(g) /\ g.ptr = h.ptr /\ g.raw = h.raw /\ g.weak = h.weak /\ g.stack = h.stack
         /\ \A x \in Objects : g.obj[x].life = h.obj[x].life /\ g.obj[x].refcnt = h.obj[x].refcnt
         /\ \A x \in Objects \ {p} : g.obj[x] = h.obj[x]
         /\ g.obj[p].weak # Null /\ WeakSound(g)
  <1>1. CASE h.obj[p].weak # Null
    BY <1>1 DEF GetWeak
  <1>2. CASE h.obj[p].weak = Null
    <2>1. PICK t : t = CHOOSE u \in Unused(h) : TRUE
      OBVIOUS
    <2>2. t \in Unused(h) /\ t \in Storages /\ t \notin InUse(h)
      BY <1>2, <2>1 DEF Unused
    <2>3. /\ t # Null /\ (\A x \in Objects : h.obj[x].weak # t) /\ \A w \in Weaks : h.weak[w].storage # t
      BY <2>2 DEF InUse, Given
    <2>4. PICK r : r = [h.obj[p] EXCEPT !.weak = t]
      OBVIOUS
    <2>5. /\ r \in [life : Lives, refcnt : Nat, weak : Storages \cup {Null}]
          /\ r.life = h.obj[p].life /\ r.refcnt = h.obj[p].refcnt /\ r.weak = t
      <3>1. h.obj[p] \in [life : Lives, refcnt : Nat, weak : Storages \cup {Null}]
        BY DEF Shape
      <3>2. QED
        BY <2>2, <2>4, <3>1
    <2>6. /\ g.ptr = h.ptr /\ g.raw = h.raw /\ g.weak = h.weak /\ g.stack = h.stack
          /\ g.obj = [h.obj EXCEPT ![p] = r] /\ g.valid = [h.valid EXCEPT ![t] = TRUE]
          /\ g = [obj |-> g.obj, ptr |-> g.ptr, raw |-> g.raw, weak |-> g.weak, valid |-> g.valid, stack |-> g.stack]
      BY <1>2, <2>1, <2>4 DEF Shape, GetWeak
    <2>7. /\ g.obj \in [Objects -> [life : Lives, refcnt : Nat, weak : Storages \cup {Null}]]
          /\ g.obj[p] = r /\ \A x \in Objects \ {p} : g.obj[x] = h.obj[x]
      <3>1. h.obj \in [Objects -> [life : Lives, refcnt : Nat, weak : Storages \cup {Null}]]
        BY DEF Shape
      <3>2. QED
        BY <2>5, <2>6, <3>1
    <2>8. /\ g.valid \in [Storages -> BOOLEAN] /\ g.valid[t] = TRUE
          /\ \A u \in Storages \ {t} : g.valid[u] = h.valid[u]
      <3>1. h.valid \in [Storages -> BOOLEAN]
        BY DEF Shape
      <3>2. QED
        BY <2>2, <2>6, <3>1
    <2>9. Shape(g)
      BY <2>6, <2>7, <2>8 DEF Shape
    <2>10. WeakSound(g)
      <3>1. \A x \in Objects : g.obj[x].weak # Null =>
              /\ g.valid[g.obj[x].weak]
              /\ \A y \in Objects : g.obj[y].weak = g.obj[x].weak => y = x
        <4>1. \A x \in Objects : h.obj[x].weak \in Storages \cup {Null}
          BY DEF Shape
        <4>2. QED
          BY <2>3, <2>5, <2>7, <2>8, <4>1 DEF WeakSound
      <3>2. ASSUME NEW w \in Weaks, h.weak[w].storage # Null, g.valid[h.weak[w].storage]
            PROVE  h.weak[w].object # Null /\ g.obj[h.weak[w].object].weak = h.weak[w].storage
        <4>1. h.weak[w].storage \in Storages /\ h.weak[w].storage # t
              /\ h.weak[w].object \in Objects \cup {Null}
          BY <2>3, <3>2 DEF Shape, Places
        <4>2. h.weak[w].object # Null /\ h.obj[h.weak[w].object].weak = h.weak[w].storage
          BY <2>8, <3>2, <4>1 DEF WeakSound
        <4>3. h.weak[w].object # p
          BY <1>2, <3>2, <4>2
        <4>4. QED
          BY <2>7, <4>1, <4>2, <4>3
      <3>3. QED
        BY <2>6, <3>1, <3>2 DEF WeakSound
    <2>11. QED
      BY <2>3, <2>5, <2>6, <2>7, <2>9, <2>10
  <1>3. QED
    BY <1>1, <1>2

(* A weak_iptr made of what an iptr points to.                             *)
LEMMA WeakenStep ==
  ASSUME Given, OwnersKept, RefcntInv, NEW w \in Weaks, NEW s \in Slots, Weaken(w, s)
  PROVE  RefcntInv'
  <1>1. PICK h : h = Heap
    OBVIOUS
  <1>2. PICK p : p = h.ptr[s]
    OBVIOUS
  <1>3. /\ Sound(h) /\ Shape(h) /\ Alive(h) /\ Counted(h) /\ WeakSound(h) /\ RawOK(h)
        /\ h.ptr = ptr /\ h.obj = obj /\ ~Releasing(h) /\ InBody /\ Becomes(PointWeakly(h, w, p))
        /\ (p # Null => h.obj[p].weak # Null \/ Unused(h) # {})
    BY <1>1, <1>2, HeapIs, UsableIs DEF Weaken, Step, HasStorage
  <1>4. h.weak \in [Weaks -> Places] /\ Empty \in Places /\ Empty.storage = Null
    BY <1>3 DEF Shape, Places, Empty
  <1>5. CASE p = Null
    <2>1. PICK g : g = [h EXCEPT !.weak[w] = Empty]
      OBVIOUS
    <2>2. /\ g.obj = h.obj /\ g.ptr = h.ptr /\ g.raw = h.raw /\ g.valid = h.valid /\ g.stack = h.stack
          /\ g.weak = [h.weak EXCEPT ![w] = Empty]
          /\ g = [obj |-> g.obj, ptr |-> g.ptr, raw |-> g.raw, weak |-> g.weak, valid |-> g.valid, stack |-> g.stack]
      BY <1>3, <2>1 DEF Shape
    <2>3. g.weak \in [Weaks -> Places] /\ g.weak[w] = Empty /\ \A u \in Weaks \ {w} : g.weak[u] = h.weak[u]
      BY <1>4, <2>2
    <2>4. OnlyWeaks(h, g)
      BY <1>3, <1>4, <2>2, <2>3 DEF Shape, OnlyWeaks
    <2>5. Becomes(g)
      BY <1>3, <1>5, <2>1 DEF PointWeakly
    <2>6. QED
      BY <1>1, <1>3, <2>4, <2>5, OnlyWeaksStep
  <1>6. CASE p # Null
    <2>1. p \in Objects /\ h.obj[p].life # "none"
      BY <1>2, <1>3, <1>6, PointedAlive
    <2>2. PICK m : m = GetWeak(h, p)
      OBVIOUS
    <2>3. /\ Shape(m) /\ m.ptr = h.ptr /\ m.raw = h.raw /\ m.weak = h.weak /\ m.stack = h.stack
          /\ \A x \in Objects : m.obj[x].life = h.obj[x].life /\ m.obj[x].refcnt = h.obj[x].refcnt
          /\ \A x \in Objects \ {p} : m.obj[x] = h.obj[x]
          /\ m.obj[p].weak # Null /\ WeakSound(m)
      BY <1>3, <1>6, <2>1, <2>2, GetWeakIs
    <2>4. PICK r : r = [storage |-> m.obj[p].weak, object |-> p]
      OBVIOUS
    <2>5. r \in Places /\ r.object = p /\ r.storage = m.obj[p].weak
      BY <2>1, <2>3, <2>4 DEF Shape, Places
    <2>6. PICK g : g = [m EXCEPT !.weak[w] = r]
      OBVIOUS
    <2>7. /\ g.obj = m.obj /\ g.ptr = h.ptr /\ g.raw = h.raw /\ g.valid = m.valid /\ g.stack = h.stack
          /\ g.weak = [h.weak EXCEPT ![w] = r]
          /\ g = [obj |-> g.obj, ptr |-> g.ptr, raw |-> g.raw, weak |-> g.weak, valid |-> g.valid, stack |-> g.stack]
      BY <2>3, <2>6 DEF Shape
    <2>8. g.weak \in [Weaks -> Places] /\ g.weak[w] = r /\ \A u \in Weaks \ {w} : g.weak[u] = m.weak[u]
      BY <1>4, <2>3, <2>5, <2>7
    <2>9. Shape(g)
      BY <2>3, <2>7, <2>8 DEF Shape
    <2>10. Becomes(g)
      BY <1>3, <1>6, <2>2, <2>4, <2>6 DEF PointWeakly
    <2>11. Alive(g)
      <3>1. \A x \in Objects : IF m.obj[x].life = "none" THEN m.obj[x] = NoObj ELSE m.obj[x].refcnt # 0
        BY <1>3, <2>1, <2>3 DEF Alive
      <3>2. QED
        BY <2>7, <3>1 DEF Alive
    <2>12. Similar(h, g) /\ RawOK(g)
      BY <1>3, <2>3, <2>7 DEF Similar, RawOK
    <2>13. \A x \in Objects : g.obj[x].refcnt = Refs(g, x)
      BY <1>3, <2>3, <2>7 DEF Counted, Refs
    <2>14. \A u \in Slots : u \in Busily(h) => g.ptr[u] = h.ptr[u]
      BY <2>7
    <2>15. Sound(g) /\ ~Releasing(g)
      BY <1>3, <2>9, <2>11, <2>12, <2>13, <2>14, StaysSound
    <2>16. WeakSound(g)
      BY <1>6, <2>3, <2>5, <2>7, <2>8 DEF WeakSound
    <2>17. QED
      BY <2>10, <2>12, <2>15, <2>16, BecomesOK
  <1>7. QED
    BY <1>5, <1>6

(***************************************************************************)
(* Callbacks end.                                                          *)
(***************************************************************************)
(* The last release that was begun is owed again.                          *)
WithoutLast(h, g) ==
  /\ Shape(g) /\ g.stack = But(h.stack) /\ g.ptr = h.ptr /\ g.raw = h.raw
  /\ \A x \in Objects \ {Last(h.stack).obj} : g.obj[x].life = h.obj[x].life
LEMMA PoppedIs ==
  ASSUME Given, NEW h, Sound(h), h.stack # <<>>, NEW g, WithoutLast(h, g),
         NEW o, NEW c, o = Last(h.stack).obj, c = Last(h.stack).after
  PROVE  /\ o \in Objects /\ c \in Afters /\ InOrder(g) /\ Pending(g, o, c, All(g.stack))
         /\ \A d \in All(g.stack) : d.obj # o
         /\ \A x \in Objects : Refs(h, x) = Refs(g, x) + One(Gives(c, x)) + One(c = Nothing /\ o = x)
  <1>1. Shape(h) /\ InOrder(h) /\ h.stack \in Seq(Entries)
    BY DEF Sound, Shape
  <1>2. /\ Shape(g) /\ g.stack = But(h.stack) /\ g.ptr = h.ptr /\ g.raw = h.raw
        /\ \A x \in Objects \ {Last(h.stack).obj} : g.obj[x].life = h.obj[x].life
    BY DEF WithoutLast
  <1>3. Last(h.stack) \in Entries
    BY <1>1, StackPopped
  <1>4. o \in Objects /\ c \in Afters
    BY <1>3 DEF Entries
  <1>5. InOrder(g) /\ Pending(g, o, c, All(g.stack)) /\ \A d \in All(g.stack) : d.obj # o
    BY <1>1, <1>2, OrderPopped
  <1>6. ASSUME NEW x \in Objects
        PROVE  Refs(h, x) = Refs(g, x) + One(Gives(c, x)) + One(c = Nothing /\ o = x)
    <2>1. /\ StoreCount(g.stack, x) = StoreCount(h.stack, x) - StoreOne(Last(h.stack), x)
          /\ DropCount(g.stack, x) = DropCount(h.stack, x) - DropOne(Last(h.stack), x)
      BY <1>1, <1>2, StackPopped
    <2>2. /\ SlotCount(h.ptr, x) \in Nat /\ h.raw[x] \in Nat
          /\ StoreCount(h.stack, x) \in Nat /\ DropCount(h.stack, x) \in Nat
      BY <1>1, RefsAre
    <2>3. /\ StoreOne(Last(h.stack), x) = One(Gives(c, x))
          /\ DropOne(Last(h.stack), x) = One(c = Nothing /\ o = x)
      BY DEF StoreOne, DropOne, Stores, Drops
    <2>4. One(Gives(c, x)) \in {0, 1} /\ One(c = Nothing /\ o = x) \in {0, 1}
      BY DEF One
    <2>5. QED
      BY <1>2, <2>1, <2>2, <2>3, <2>4 DEF Refs
  <1>7. QED
    BY <1>4, <1>5, <1>6

(* Popping only the stack.                                                 *)
LEMMA PopShape ==
  ASSUME NEW h, Shape(h), h.stack # <<>>, NEW g, g = Popped(h)
  PROVE  /\ Shape(g) /\ g.obj = h.obj /\ g.ptr = h.ptr /\ g.raw = h.raw /\ g.weak = h.weak /\ g.valid = h.valid
         /\ g.stack = But(h.stack) /\ (OnlyOne(h) => OnlyOne(g))
  <1>1. /\ g.obj = h.obj /\ g.ptr = h.ptr /\ g.raw = h.raw /\ g.weak = h.weak /\ g.valid = h.valid
        /\ g.stack = But(h.stack)
        /\ g = [obj |-> g.obj, ptr |-> g.ptr, raw |-> g.raw, weak |-> g.weak, valid |-> g.valid, stack |-> g.stack]
    BY DEF Shape, Popped
  <1>2. h.stack \in Seq(Entries)
    BY DEF Shape
  <1>3. /\ g.stack \in Seq(Entries) /\ Len(h.stack) \in Nat \ {0}
        /\ DOMAIN g.stack = 1..(Len(h.stack) - 1) /\ DOMAIN h.stack = 1..Len(h.stack)
        /\ \A k \in 1..(Len(h.stack) - 1) : g.stack[k] = h.stack[k]
    BY <1>1, <1>2, StackPopped
  <1>4. Shape(g)
    BY <1>1, <1>3 DEF Shape
  <1>5. OnlyOne(h) => OnlyOne(g)
    BY <1>1, <1>3 DEF OnlyOne
  <1>6. QED
    BY <1>1, <1>4, <1>5

(* on_delete returns, and the reference is dropped after all.              *)
LEMMA OnDeleteStep ==
  ASSUME Given, OwnersKept, RefcntInv, OnDeleteReturns
  PROVE  RefcntInv'
  <1>1. PICK h : h = Heap
    OBVIOUS
  <1>2. /\ Sound(h) /\ Shape(h) /\ Alive(h) /\ Counted(h) /\ WeakSound(h) /\ RawOK(h)
        /\ h.stack = stack /\ h.obj = obj /\ h.stack # <<>> /\ OnlyOne(h)
        /\ Becomes(AfterOnDelete(h, Last(h.stack)))
    <2>1. /\ Sound(h) /\ Shape(h) /\ Alive(h) /\ Counted(h) /\ WeakSound(h) /\ RawOK(h)
          /\ h.stack = stack /\ h.obj = obj
      BY <1>1, HeapIs
    <2>2. h.stack # <<>> /\ OnlyOne(h) /\ Becomes(AfterOnDelete(h, Last(h.stack)))
      BY <1>1, <2>1 DEF OnDeleteReturns, NoneKept, OnlyOne, Top
    <2>3. QED
      BY <2>1, <2>2
  <1>3. PICK k : k = Popped(h)
    OBVIOUS
  <1>4. /\ Shape(k) /\ k.obj = h.obj /\ k.ptr = h.ptr /\ k.raw = h.raw /\ k.weak = h.weak /\ k.valid = h.valid
        /\ k.stack = But(h.stack) /\ OnlyOne(k)
    BY <1>2, <1>3, PopShape
  <1>5. PICK o, c : o = Last(h.stack).obj /\ c = Last(h.stack).after
    OBVIOUS
  <1>6. /\ o \in Objects /\ c \in Afters /\ InOrder(k) /\ Pending(k, o, c, All(k.stack))
        /\ \A d \in All(k.stack) : d.obj # o
        /\ \A x \in Objects : Refs(h, x) = Refs(k, x) + One(Gives(c, x)) + One(c = Nothing /\ o = x)
    <2>1. WithoutLast(h, k)
      BY <1>4 DEF WithoutLast
    <2>2. QED
      BY <1>2, <1>5, <2>1, PoppedIs
  <1>7. Alive(k)
    BY <1>2, <1>4 DEF Alive
  <1>8. Owed(k, o, c)
    BY <1>2, <1>4, <1>6, <1>7 DEF Owed, Counted
  <1>9. PICK g : g = DropRef(k, o, c)
    OBVIOUS
  <1>10. Sound(g) /\ SameWeak(k, g) /\ GoesOn(k, g)
    BY <1>6, <1>8, <1>9, DropRefOK
  <1>11. Becomes(g)
    BY <1>2, <1>3, <1>5, <1>9 DEF AfterOnDelete
  <1>12. Releasing(g) => OnlyOne(g)
    BY <1>4, <1>10, GoesOnOnly
  <1>13. SameWeaks(h, g) /\ RawOK(g)
    BY <1>2, <1>4, <1>10 DEF SameWeaks, SameWeak, RawOK
  <1>14. WeakSound(g)
    BY <1>2, <1>13, WeakKept
  <1>15. QED
    BY <1>10, <1>11, <1>12, <1>13, <1>14, BecomesOK

(* The body of a destructor returns, and the member is released.           *)
LEMMA BodyStep ==
  ASSUME Given, OwnersKept, RefcntInv, BodyReturns
  PROVE  RefcntInv'
  <1>1. PICK h : h = Heap
    OBVIOUS
  <1>2. PICK o : o = Last(h.stack).obj
    OBVIOUS
  <1>3. /\ Sound(h) /\ Shape(h) /\ Alive(h) /\ Counted(h) /\ InOrder(h) /\ WeakSound(h) /\ RawOK(h) /\ Outlived(h)
        /\ h.stack = stack /\ h.obj = obj
    BY <1>1, HeapIs
  <1>4. /\ h.stack # <<>> /\ Last(h.stack).fn = "delete" /\ h.obj[o].life = "destructor" /\ OnlyOne(h)
        /\ Becomes(ReleaseMember(h, o))
    BY <1>1, <1>2, <1>3 DEF BodyReturns, NoneKept, OnlyOne, Top
  <1>5. /\ h.stack \in Seq(Entries) /\ Len(h.stack) \in Nat \ {0} /\ Last(h.stack) \in Entries
        /\ DOMAIN h.stack = 1..Len(h.stack)
    <2>1. h.stack \in Seq(Entries)
      BY <1>3 DEF Shape
    <2>2. QED
      BY <1>4, <2>1, StackPopped
  <1>6. o \in Objects /\ o \in Slots /\ o # Null
    BY <1>2, <1>5 DEF Entries, Slots, Given
  <1>7. PICK p : p = h.ptr[o]
    OBVIOUS
  <1>8. PICK r : r = [h.obj[o] EXCEPT !.life = "members"]
    OBVIOUS
  <1>9. /\ r \in [life : Lives, refcnt : Nat, weak : Storages \cup {Null}]
        /\ r.life = "members" /\ r.refcnt = h.obj[o].refcnt /\ r.weak = h.obj[o].weak
    <2>1. h.obj[o] \in [life : Lives, refcnt : Nat, weak : Storages \cup {Null}]
      BY <1>3, <1>6 DEF Shape
    <2>2. "members" \in Lives
      BY DEF Lives
    <2>3. QED
      BY <1>8, <2>1, <2>2
  <1>10. PICK g : g = [h EXCEPT !.obj[o].life = "members", !.ptr[o] = Null]
    OBVIOUS
  <1>11. /\ g.obj = [h.obj EXCEPT ![o] = r] /\ g.ptr = [h.ptr EXCEPT ![o] = Null]
         /\ g.raw = h.raw /\ g.weak = h.weak /\ g.valid = h.valid /\ g.stack = h.stack
         /\ g = [obj |-> g.obj, ptr |-> g.ptr, raw |-> g.raw, weak |-> g.weak, valid |-> g.valid, stack |-> g.stack]
    BY <1>3, <1>8, <1>10 DEF Shape
  <1>12. /\ g.obj \in [Objects -> [life : Lives, refcnt : Nat, weak : Storages \cup {Null}]]
         /\ g.obj[o] = r /\ \A x \in Objects \ {o} : g.obj[x] = h.obj[x]
    <2>1. h.obj \in [Objects -> [life : Lives, refcnt : Nat, weak : Storages \cup {Null}]]
      BY <1>3 DEF Shape
    <2>2. QED
      BY <1>6, <1>9, <1>11, <2>1
  <1>13. /\ g.ptr \in [Slots -> Objects \cup {Null}] /\ g.ptr[o] = Null /\ p \in Objects \cup {Null}
         /\ \A u \in Slots \ {o} : g.ptr[u] = h.ptr[u]
    <2>1. h.ptr \in [Slots -> Objects \cup {Null}]
      BY <1>3 DEF Shape
    <2>2. QED
      BY <1>6, <1>7, <1>11, <2>1
  <1>14. Shape(g)
    BY <1>3, <1>11, <1>12, <1>13 DEF Shape
  <1>15. InOrder(g)
    <2>1. ASSUME NEW k \in DOMAIN h.stack
          PROVE  /\ Pending(g, h.stack[k].obj, h.stack[k].after, Below(h.stack, k))
                 /\ \A d \in Below(h.stack, k) : d.obj # h.stack[k].obj
                 /\ Dies(g.obj[h.stack[k].obj].life, h.stack[k].fn)
      <3>1. /\ Pending(h, h.stack[k].obj, h.stack[k].after, Below(h.stack, k))
            /\ \A d \in Below(h.stack, k) : d.obj # h.stack[k].obj
            /\ Dies(h.obj[h.stack[k].obj].life, h.stack[k].fn)
        BY <1>3 DEF InOrder
      <3>2. h.stack[k].after.slot # o
        <4>1. Len(h.stack) \in DOMAIN h.stack
          BY <1>5
        <4>2. QED
          BY <1>2, <1>4, <1>3, <4>1 DEF Outlived, Last
      <3>3. h.stack[k] \in All(h.stack)
        BY DEF All
      <3>4. h.stack[k].obj \in Objects /\ (h.stack[k].after.do # "nothing" => h.stack[k].after.slot \in Slots)
        BY <1>3, <3>3, EntriesAre
      <3>5. h.stack[k].after.do # "nothing" => g.ptr[h.stack[k].after.slot] = h.ptr[h.stack[k].after.slot]
        BY <1>13, <3>2, <3>4
      <3>6. Pending(g, h.stack[k].obj, h.stack[k].after, Below(h.stack, k))
        BY <3>1, <3>5 DEF Pending
      <3>7. Dies(g.obj[h.stack[k].obj].life, h.stack[k].fn)
        BY <1>9, <1>12, <3>1, <3>4 DEF Dies
      <3>8. QED
        BY <3>1, <3>6, <3>7
    <2>2. QED
      BY <1>11, <2>1 DEF InOrder
  <1>16. /\ Alive(g) /\ RawOK(g) /\ (Releasing(g) => OnlyOne(g))
    <2>1. Alive(g)
      <3>1. h.obj[o].refcnt # 0
        BY <1>3, <1>4, <1>6 DEF Alive
      <3>2. QED
        BY <1>3, <1>9, <1>12, <3>1 DEF Alive
    <2>2. RawOK(g)
      BY <1>3, <1>11 DEF RawOK
    <2>3. \A x \in Objects : g.obj[x].refcnt = h.obj[x].refcnt
      BY <1>9, <1>12
    <2>4. \A k \in DOMAIN h.stack : h.stack[k].obj \in Objects
      BY <1>3, StackAlive
    <2>5. OnlyOne(g)
      BY <1>4, <1>11, <2>3, <2>4 DEF OnlyOne
    <2>6. QED
      BY <2>1, <2>2, <2>5
  <1>17. SameWeaks(Heap, g)
    <2>1. \A x \in Objects : g.obj[x].weak = h.obj[x].weak
      BY <1>9, <1>12
    <2>2. QED
      BY <1>1, <1>11, <2>1 DEF SameWeaks
  <1>18. ASSUME NEW x \in Objects
         PROVE  g.obj[x].refcnt = Refs(g, x) + One(p = x)
    <2>1. OnlyAt(h.ptr, g.ptr, o)
      BY <1>6, <1>13 DEF OnlyAt
    <2>2. SlotCount(g.ptr, x) = SlotCount(h.ptr, x) - One(h.ptr[o] = x) + One(g.ptr[o] = x)
      BY <2>1, SlotSet
    <2>3. /\ SlotCount(h.ptr, x) \in Nat /\ h.raw[x] \in Nat
          /\ StoreCount(h.stack, x) \in Nat /\ DropCount(h.stack, x) \in Nat
      BY <1>3, RefsAre
    <2>4. One(p = x) \in {0, 1} /\ One(g.ptr[o] = x) = 0
      BY <1>13 DEF One, Given, Slots
    <2>5. g.obj[x].refcnt = Refs(h, x)
      BY <1>3, <1>9, <1>12 DEF Counted
    <2>6. QED
      BY <1>7, <1>11, <2>2, <2>3, <2>4, <2>5 DEF Refs
  <1>19. Owed(g, p, Nothing)
    BY <1>13, <1>14, <1>15, <1>16, <1>18, NothingOwed
  <1>20. PICK k : k = Release(g, p, Nothing)
    OBVIOUS
  <1>21. Becomes(k)
    BY <1>4, <1>7, <1>10, <1>20 DEF ReleaseMember
  <1>22. QED
    BY <1>16, <1>17, <1>19, <1>20, <1>21, ReleaseStep

(* The object is gone, and its weak pointers expire.                       *)
LEMMA DeletedStep ==
  ASSUME Given, OwnersKept, RefcntInv, Deleted
  PROVE  RefcntInv'
  <1>1. PICK h : h = Heap
    OBVIOUS
  <1>2. PICK o, c, t : o = Last(h.stack).obj /\ c = Last(h.stack).after /\ t = h.obj[o].weak
    OBVIOUS
  <1>3. /\ Sound(h) /\ Shape(h) /\ Alive(h) /\ Counted(h) /\ WeakSound(h) /\ RawOK(h)
        /\ (Releasing(h) => OnlyOne(h)) /\ h.stack = stack /\ h.obj = obj
    BY <1>1, HeapIs
  <1>4. /\ h.stack # <<>> /\ Last(h.stack).fn = "delete" /\ h.obj[o].life = "members"
        /\ Becomes(Gone(h, Last(h.stack)))
    BY <1>1, <1>2, <1>3 DEF Deleted, Top
  <1>5. OnlyOne(h)
    BY <1>2, <1>3, <1>4 DEF Releasing
  <1>6. /\ h.stack \in Seq(Entries) /\ Len(h.stack) \in Nat \ {0} /\ Last(h.stack) \in Entries
        /\ DOMAIN h.stack = 1..Len(h.stack)
        /\ DOMAIN But(h.stack) = 1..(Len(h.stack) - 1)
        /\ \A k \in 1..(Len(h.stack) - 1) : But(h.stack)[k] = h.stack[k]
        /\ But(h.stack) \in Seq(Entries)
    <2>1. h.stack \in Seq(Entries)
      BY <1>3 DEF Shape
    <2>2. QED
      BY <1>4, <2>1, StackPopped
  <1>7. o \in Objects /\ t \in Storages \cup {Null} /\ h.obj[o].refcnt = 1
    <2>1. o \in Objects
      BY <1>2, <1>6 DEF Entries
    <2>2. Len(h.stack) \in DOMAIN h.stack
      BY <1>6
    <2>3. h.obj[o].refcnt = 1
      BY <1>2, <1>4, <1>5, <2>2 DEF OnlyOne, Last
    <2>4. QED
      BY <1>2, <1>3, <2>1, <2>3 DEF Shape
  <1>8. PICK v : v = IF t = Null THEN h.valid ELSE [h.valid EXCEPT ![t] = FALSE]
    OBVIOUS
  <1>9. /\ v \in [Storages -> BOOLEAN] /\ (t # Null => ~v[t])
        /\ \A u \in Storages \ {t} : v[u] = h.valid[u]
    <2>1. h.valid \in [Storages -> BOOLEAN]
      BY <1>3 DEF Shape
    <2>2. CASE t = Null
      BY <1>8, <2>1, <2>2
    <2>3. CASE t # Null
      <3>1. v = [h.valid EXCEPT ![t] = FALSE] /\ t \in Storages
        BY <1>7, <1>8, <2>3
      <3>2. QED
        BY <2>1, <3>1
    <2>4. QED
      BY <2>2, <2>3
  <1>10. PICK m : m = IF t = Null THEN h ELSE [h EXCEPT !.valid[t] = FALSE]
    OBVIOUS
  <1>11. /\ m.obj = h.obj /\ m.ptr = h.ptr /\ m.raw = h.raw /\ m.weak = h.weak /\ m.stack = h.stack /\ m.valid = v
         /\ m = [obj |-> m.obj, ptr |-> m.ptr, raw |-> m.raw, weak |-> m.weak, valid |-> m.valid, stack |-> m.stack]
    BY <1>3, <1>8, <1>10 DEF Shape
  <1>12. PICK n : n = [Popped(m) EXCEPT !.obj[o] = NoObj]
    OBVIOUS
  <1>13. /\ n.obj = [h.obj EXCEPT ![o] = NoObj] /\ n.ptr = h.ptr /\ n.raw = h.raw /\ n.weak = h.weak
         /\ n.stack = But(h.stack) /\ n.valid = v
         /\ n = [obj |-> n.obj, ptr |-> n.ptr, raw |-> n.raw, weak |-> n.weak, valid |-> n.valid, stack |-> n.stack]
    <2>1. PICK k : k = Popped(m)
      OBVIOUS
    <2>2. /\ k.obj = h.obj /\ k.ptr = h.ptr /\ k.raw = h.raw /\ k.weak = h.weak /\ k.valid = v
          /\ k.stack = But(h.stack)
          /\ k = [obj |-> k.obj, ptr |-> k.ptr, raw |-> k.raw, weak |-> k.weak, valid |-> k.valid, stack |-> k.stack]
      BY <1>11, <2>1 DEF Popped
    <2>3. n = [k EXCEPT !.obj[o] = NoObj]
      BY <1>12, <2>1
    <2>4. QED
      BY <2>2, <2>3
  <1>14. /\ n.obj \in [Objects -> [life : Lives, refcnt : Nat, weak : Storages \cup {Null}]]
         /\ n.obj[o] = NoObj /\ \A x \in Objects \ {o} : n.obj[x] = h.obj[x]
    <2>1. h.obj \in [Objects -> [life : Lives, refcnt : Nat, weak : Storages \cup {Null}]]
      BY <1>3 DEF Shape
    <2>2. NoObj \in [life : Lives, refcnt : Nat, weak : Storages \cup {Null}]
      BY DEF NoObj, Lives
    <2>3. QED
      BY <1>7, <1>13, <2>1, <2>2
  <1>15. Shape(n)
    BY <1>3, <1>6, <1>9, <1>13, <1>14 DEF Shape
  <1>16. /\ c \in Afters /\ InOrder(n) /\ Pending(n, o, c, All(n.stack))
         /\ \A d \in All(n.stack) : d.obj # o
         /\ \A x \in Objects : Refs(h, x) = Refs(n, x) + One(Gives(c, x)) + One(c = Nothing /\ o = x)
    <2>1. WithoutLast(h, n)
      BY <1>2, <1>13, <1>14, <1>15 DEF WithoutLast
    <2>2. QED
      BY <1>2, <1>3, <1>4, <2>1, PoppedIs
  <1>17. Alive(n)
    BY <1>3, <1>14 DEF Alive, NoObj
  <1>18. ASSUME NEW x \in Objects
         PROVE  n.obj[x].refcnt + One(o = x)
                  = Refs(n, x) + One(Gives(c, x)) + One(c = Nothing /\ o = x)
    <2>1. n.obj[x].refcnt + One(o = x) = h.obj[x].refcnt
      <3>1. h.obj[x].refcnt \in Nat
        BY <1>3, RefsAre
      <3>2. CASE o = x
        BY <1>7, <1>14, <3>2 DEF One, NoObj
      <3>3. CASE o # x
        BY <1>14, <3>1, <3>3 DEF One
      <3>4. QED
        BY <3>2, <3>3
    <2>2. h.obj[x].refcnt = Refs(h, x)
      BY <1>3 DEF Counted
    <2>3. QED
      BY <1>16, <2>1, <2>2
  <1>19. PICK g : g = Finish(n, c)
    OBVIOUS
  <1>20. Sound(g) /\ g.obj = n.obj /\ g.stack = n.stack /\ SameWeak(n, g)
    BY <1>7, <1>15, <1>16, <1>17, <1>18, <1>19, FinishOK
  <1>21. Becomes(g)
    BY <1>2, <1>4, <1>10, <1>12, <1>19 DEF Gone
  <1>22. RawOK(g)
    BY <1>3, <1>13, <1>20 DEF RawOK, SameWeak
  <1>23. OnlyOne(g)
    <2>1. ASSUME NEW k \in DOMAIN n.stack, n.stack[k].fn = "delete"
          PROVE  n.obj[n.stack[k].obj].refcnt = 1
      <3>1. k \in DOMAIN h.stack /\ n.stack[k] = h.stack[k]
        BY <1>6, <1>13, <2>1
      <3>2. n.stack[k] \in All(n.stack)
        BY DEF All
      <3>3. n.stack[k].obj \in Objects /\ n.stack[k].obj # o
        BY <1>15, <1>16, <3>2, EntriesAre
      <3>4. QED
        BY <1>5, <1>14, <2>1, <3>1, <3>3 DEF OnlyOne
    <2>2. QED
      BY <1>20, <2>1 DEF OnlyOne
  <1>24. WeakSound(g)
    <2>1. g.obj = n.obj /\ g.weak = h.weak /\ g.valid = v
      BY <1>13, <1>20 DEF SameWeak
    <2>2. ASSUME NEW x \in Objects, n.obj[x].weak # Null
          PROVE  v[n.obj[x].weak] /\ \A y \in Objects : n.obj[y].weak = n.obj[x].weak => y = x
      <3>1. x # o /\ n.obj[x].weak = h.obj[x].weak
        BY <1>14, <2>2 DEF NoObj
      <3>2. h.obj[x].weak \in Storages /\ h.valid[h.obj[x].weak] /\ h.obj[x].weak # t
        BY <1>2, <1>3, <1>7, <2>2, <3>1 DEF Shape, WeakSound
      <3>3. v[h.obj[x].weak]
        BY <1>9, <3>2
      <3>4. \A y \in Objects : n.obj[y].weak = h.obj[x].weak => h.obj[y].weak = h.obj[x].weak
        BY <1>14, <2>2, <3>1 DEF NoObj
      <3>5. QED
        BY <1>3, <2>2, <3>1, <3>3, <3>4 DEF WeakSound
    <2>3. ASSUME NEW w \in Weaks, h.weak[w].storage # Null, v[h.weak[w].storage]
          PROVE  h.weak[w].object # Null /\ n.obj[h.weak[w].object].weak = h.weak[w].storage
      <3>1. h.weak[w].storage \in Storages /\ h.weak[w].object \in Objects \cup {Null}
        BY <1>3, <2>3 DEF Shape, Places
      <3>2. h.weak[w].storage # t
        BY <1>9, <2>3, <3>1
      <3>3. h.weak[w].object # Null /\ h.obj[h.weak[w].object].weak = h.weak[w].storage
        BY <1>3, <1>9, <2>3, <3>1, <3>2 DEF WeakSound
      <3>4. h.weak[w].object # o
        BY <1>2, <3>2, <3>3
      <3>5. QED
        BY <1>14, <3>1, <3>3, <3>4
    <2>4. QED
      BY <2>1, <2>2, <2>3 DEF WeakSound
  <1>25. QED
    BY <1>20, <1>21, <1>22, <1>23, <1>24, BecomesOK

(***************************************************************************)
(* The invariant holds in every state.                                     *)
(***************************************************************************)
LEMMA InitRefcntInv ==
  ASSUME Given, BoundsAssumption, Init
  PROVE  RefcntInv
  <1>1. PICK h : h = Heap
    OBVIOUS
  <1>2. /\ h.obj = [o \in Objects |-> NoObj] /\ h.ptr = [s \in Slots |-> Null] /\ h.raw = [o \in Objects |-> 0]
        /\ h.weak = [w \in Weaks |-> Empty] /\ h.valid = [t \in Storages |-> FALSE] /\ h.stack = <<>>
        /\ h = [obj |-> h.obj, ptr |-> h.ptr, raw |-> h.raw, weak |-> h.weak, valid |-> h.valid, stack |-> h.stack]
        /\ raw = h.raw /\ stack = h.stack
    BY <1>1 DEF Init, NewHeap, Heap
  <1>3. Shape(h)
    <2>1. NoObj \in [life : Lives, refcnt : Nat, weak : Storages \cup {Null}] /\ Empty \in Places
      BY DEF NoObj, Lives, Empty, Places
    <2>2. /\ h.obj \in [Objects -> [life : Lives, refcnt : Nat, weak : Storages \cup {Null}]]
          /\ h.ptr \in [Slots -> Objects \cup {Null}] /\ h.raw \in [Objects -> Nat]
          /\ h.weak \in [Weaks -> Places] /\ h.valid \in [Storages -> BOOLEAN]
      BY <1>2, <2>1
    <2>3. h.stack \in Seq(Entries)
      BY <1>2
    <2>4. QED
      BY <1>2, <2>2, <2>3 DEF Shape
  <1>4. Alive(h)
    BY <1>2 DEF Alive, NoObj
  <1>5. ASSUME NEW x \in Objects
        PROVE  h.obj[x].refcnt = Refs(h, x)
    <2>1. {s \in Slots : h.ptr[s] = x} = {}
      BY <1>2 DEF Given, Slots
    <2>2. DOMAIN h.stack = {}
      BY <1>2
    <2>3. /\ SlotCount(h.ptr, x) = 0 /\ StoreCount(h.stack, x) = 0 /\ DropCount(h.stack, x) = 0
      BY <2>1, <2>2, FS_EmptySet DEF SlotCount, StoreCount, DropCount
    <2>4. QED
      BY <1>2, <2>3 DEF Refs, NoObj
  <1>6. InOrder(h) /\ Outlived(h) /\ ~Releasing(h)
    BY <1>2 DEF InOrder, Outlived, Releasing
  <1>7. WeakSound(h)
    BY <1>2 DEF WeakSound, NoObj, Empty
  <1>8. (\A o \in Objects : raw[o] <= MaxRaw) /\ Len(stack) <= MaxNesting
    BY <1>2 DEF BoundsAssumption
  <1>9. QED
    BY <1>1, <1>3, <1>4, <1>5, <1>6, <1>7, <1>8 DEF RefcntInv, Sound, Counted

LEMMA NextRefcntInv ==
  ASSUME Given, BoundsAssumption, OwnersKept, RefcntInv, [Next]_vars
  PROVE  RefcntInv'
  <1>1. CASE UNCHANGED vars
    BY <1>1 DEF vars, RefcntInv, Heap
  <1>2. ASSUME NEW s \in Slots, Make(s) \/ Reset(s) \/ AssignThis(s) \/ Detach(s) \/ Retain(s)
        PROVE  RefcntInv'
    BY <1>2, MakeStep, ResetStep, AssignStep, DetachStep, RetainStep
  <1>3. ASSUME NEW s \in Slots, NEW t \in Slots, Assign(s, t) \/ Move(s, t) \/ MoveOther(s, t)
        PROVE  RefcntInv'
    BY <1>3, AssignStep, MoveStep, MoveOtherStep
  <1>4. ASSUME NEW o \in Objects, Drop(o)
        PROVE  RefcntInv'
    BY <1>4, DropStep
  <1>5. ASSUME NEW w \in Weaks, NEW s \in Slots, Weaken(w, s) \/ Lock(s, w)
        PROVE  RefcntInv'
    BY <1>5, WeakenStep, LockStep
  <1>6. ASSUME NEW w \in Weaks, ResetWeak(w) \/ \E v \in Weaks : CopyWeak(w, v) \/ MoveWeak(w, v)
        PROVE  RefcntInv'
    BY <1>6, WeakStep
  <1>7. CASE OnDeleteReturns
    BY <1>7, OnDeleteStep
  <1>8. CASE BodyReturns
    BY <1>8, BodyStep
  <1>9. CASE Deleted
    BY <1>9, DeletedStep
  <1>10. QED
    BY <1>1, <1>2, <1>3, <1>4, <1>5, <1>6, <1>7, <1>8, <1>9 DEF Next

(* What the invariant says of the counts.                                  *)
LEMMA InvCounts ==
  ASSUME Given, BoundsAssumption, RefcntInv
  PROVE  RefcntIsHolders
  <1>1. PICK h : h = Heap
    OBVIOUS
  <1>2. /\ Shape(h) /\ Alive(h) /\ Counted(h)
        /\ h.obj = obj /\ h.ptr = ptr /\ h.raw = raw /\ h.weak = weak /\ h.valid = valid /\ h.stack = stack
    BY <1>1, HeapIs
  <1>3. ASSUME NEW o \in Objects
        PROVE  obj[o].refcnt = Holds(o)
    <2>1. {s \in Slots : ptr[s] = o} = {s \in Slots : h.ptr[s] = o}
      BY <1>2
    <2>2. {k \in DOMAIN stack : stack[k].after = Store(stack[k].after.slot, o)}
            = {k \in DOMAIN h.stack : Stores(h.stack[k], o)}
      BY <1>2 DEF Stores, Gives
    <2>3. {k \in DOMAIN stack : stack[k].after = Nothing /\ stack[k].obj = o}
            = {k \in DOMAIN h.stack : Drops(h.stack[k], o)}
      BY <1>2 DEF Drops
    <2>4. Holds(o) = Refs(h, o)
      BY <1>2, <2>1, <2>2, <2>3 DEF Holds, Refs, SlotCount, StoreCount, DropCount
    <2>5. QED
      BY <1>2, <2>4 DEF Counted
  <1>4. ASSUME NEW o \in Objects
        PROVE  obj[o].refcnt \in 0..AllRefs
    <2>1. /\ SlotCount(h.ptr, o) \in Nat /\ SlotCount(h.ptr, o) <= Cardinality(Slots) /\ Cardinality(Slots) \in Nat
      BY SlotsCounted
    <2>2. /\ StoreCount(h.stack, o) \in Nat /\ DropCount(h.stack, o) \in Nat
          /\ StoreCount(h.stack, o) + DropCount(h.stack, o) <= Len(h.stack) /\ Len(h.stack) \in Nat
      <3>1. h.stack \in Seq(Entries)
        BY <1>2 DEF Shape
      <3>2. QED
        BY <3>1, StackCounted
    <2>3. h.raw[o] \in Nat /\ h.raw[o] <= MaxRaw /\ Len(h.stack) <= MaxNesting /\ MaxRaw \in Nat /\ MaxNesting \in Nat
      BY <1>2 DEF Shape, RefcntInv, BoundsAssumption
    <2>4. obj[o].refcnt = SlotCount(h.ptr, o) + h.raw[o] + StoreCount(h.stack, o) + DropCount(h.stack, o)
      BY <1>2 DEF Counted, Refs
    <2>5. QED
      BY <2>1, <2>2, <2>3, <2>4 DEF AllRefs
  <1>5. obj \in [Objects -> [life : Lives, refcnt : 0..AllRefs, weak : Storages \cup {Null}]]
    <2>1. obj \in [Objects -> [life : Lives, refcnt : Nat, weak : Storages \cup {Null}]]
      BY <1>2 DEF Shape
    <2>2. \A o \in Objects : obj[o] \in [life : Lives, refcnt : 0..AllRefs, weak : Storages \cup {Null}]
      BY <1>4, <2>1
    <2>3. QED
      BY <2>1, <2>2
  <1>6. raw \in [Objects -> 0..MaxRaw]
    <2>1. raw \in [Objects -> Nat] /\ \A o \in Objects : raw[o] <= MaxRaw
      BY <1>2 DEF Shape, RefcntInv
    <2>2. \A o \in Objects : raw[o] \in 0..MaxRaw
      BY <2>1 DEF BoundsAssumption
    <2>3. QED
      BY <2>1, <2>2
  <1>7. TypeOK
    BY <1>2, <1>5, <1>6 DEF TypeOK, Shape, Places
  <1>8. \A o \in Objects : obj[o].life = "none" <=> obj[o].refcnt = 0
    BY <1>2 DEF Alive, NoObj
  <1>9. QED
    BY <1>3, <1>7, <1>8 DEF RefcntIsHolders

(* What it says of the releases in progress, and of weak pointers.         *)
LEMMA InvOnce ==
  ASSUME Given, RefcntInv
  PROVE  DeletedOnce
  <1>1. PICK h : h = Heap
    OBVIOUS
  <1>2. Shape(h) /\ InOrder(h) /\ h.stack = stack
    BY <1>1, HeapIs
  <1>3. stack \in Seq(Entries)
    BY <1>2 DEF Shape
  <1>4. ASSUME NEW j \in DOMAIN stack, NEW k \in DOMAIN stack, j < k
        PROVE  stack[j].obj # stack[k].obj
    <2>1. j \in 1..(k - 1)
      BY <1>3, <1>4
    <2>2. stack[j] \in Below(h.stack, k)
      BY <1>2, <2>1 DEF Below
    <2>3. QED
      BY <1>2, <2>2 DEF InOrder
  <1>5. \A j, k \in DOMAIN stack : j < k \/ k < j \/ j = k
    BY <1>3
  <1>6. QED
    BY <1>4, <1>5 DEF DeletedOnce

LEMMA InvWeak ==
  ASSUME Given, RefcntInv
  PROVE  WeakKnowsItsObject
  <1>1. PICK h : h = Heap
    OBVIOUS
  <1>2. WeakSound(h) /\ h.obj = obj /\ h.weak = weak /\ h.valid = valid
    BY <1>1, HeapIs
  <1>3. ASSUME NEW w \in Weaks, weak[w].storage # Null, valid[weak[w].storage]
        PROVE  weak[w].object # Null /\ obj[weak[w].object].weak = weak[w].storage
    BY <1>2, <1>3 DEF WeakSound
  <1>4. ASSUME NEW w \in Weaks, weak[w].storage # Null, ~valid[weak[w].storage], NEW o \in Objects
        PROVE  obj[o].weak # weak[w].storage
    BY <1>2, <1>4 DEF WeakSound
  <1>5. QED
    BY <1>3, <1>4 DEF WeakKnowsItsObject

(***************************************************************************)
(* The theorems.  They are about programs that keep the owner of an iptr   *)
(* while the iptr is assigned (OwnersKept): the others use memory that is  *)
(* freed.                                                                  *)
(***************************************************************************)
(* RefcntInv is inductive: through any nesting of destructors and          *)
(* on_delete callbacks of refcnt.h, each of which may do any operation,    *)
(* every release that is not finished accounts for exactly one reference.  *)
THEOREM RefcntInductive ==
  ASSUME OwnersKept
  PROVE  Spec => []RefcntInv
  <1>1. Given
    BY RefcntAssumption DEF Given
  <1>2. Init => RefcntInv
    BY <1>1, BoundsAssumption, InitRefcntInv
  <1>3. RefcntInv /\ [Next]_vars => RefcntInv'
    BY <1>1, BoundsAssumption, NextRefcntInv
  <1>4. QED
    BY <1>2, <1>3, PTL DEF Spec

(* The count of every object is the number of iptrs, raw references and    *)
(* unfinished releases that hold it, an object with none is gone, and no   *)
(* count exceeds the references there can be.                              *)
THEOREM CountsRight ==
  ASSUME OwnersKept
  PROVE  Spec => []RefcntIsHolders
  <1>1. RefcntInv => RefcntIsHolders
    BY RefcntAssumption, BoundsAssumption, InvCounts DEF Given
  <1>2. QED
    BY <1>1, RefcntInductive, PTL

(* Refcnt::release and Refcntd::release never begin to delete an object,   *)
(* nor call its on_delete, while one or the other is in progress.          *)
THEOREM OnceDeleted ==
  ASSUME OwnersKept
  PROVE  Spec => []DeletedOnce
  <1>1. RefcntInv => DeletedOnce
    BY RefcntAssumption, InvOnce DEF Given
  <1>2. QED
    BY <1>1, RefcntInductive, PTL

(* A weak_iptr whose storage is valid points to the object that has this   *)
(* storage, and no object has the storage of one that has expired.         *)
THEOREM WeakRight ==
  ASSUME OwnersKept
  PROVE  Spec => []WeakKnowsItsObject
  <1>1. RefcntInv => WeakKnowsItsObject
    BY RefcntAssumption, InvWeak DEF Given
  <1>2. QED
    BY <1>1, RefcntInductive, PTL
=============================================================================
