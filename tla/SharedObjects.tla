--------------------------- MODULE SharedObjects ---------------------------
(***************************************************************************)
(* Threads that share objects of an AtomicRefcnt class (refcnt.h,          *)
(* refcnt.cc) whose memory comes from AllocatedObject (memory.h): the      *)
(* composition of the atomic counter, the weak pointers and the memory     *)
(* pools of each thread.                                                   *)
(*                                                                         *)
(*   heap      the memory pools (MemoryPools)                              *)
(*   obj[b]    the object in block b: its size, _refcnt and _weak          *)
(*   hold[b]   who points to the object in block b: an iptr is written as  *)
(*             <<thread that has it, its number>>                          *)
(*   store[w]  atomic_weak_storage w: its _refcnt and valid; `gone` is a   *)
(*             history variable, whether its object has been destroyed     *)
(*   weak[t]   the weak_iptr of thread t                                   *)
(*   pc[t]     what thread t is in the middle of, and with which block     *)
(*   crashed   "no", or the memory that was touched and is not there, or   *)
(*             the check that failed and aborted                           *)
(*                                                                         *)
(* An access to an atomic, to first_free or to _weak is a step of its own. *)
(***************************************************************************)
EXTENDS MemoryPools, FiniteSets

CONSTANTS
    Threads,
    WeakThreads, \* threads that make weak pointers
    LockRace,    \* whether an object may lose its last holder before or while a lock() runs
    Warm,        \* whether every thread has used its dynamic pools before it shares
    MaxHold,     \* bound: iptr of one thread to one object
    Storages,    \* atomic_weak_storage objects that can exist at once
    Null

ASSUME SharedAssumption == Null \notin Storages

VARIABLES heap, obj, hold, store, weak, pc, crashed

vars == <<heap, obj, hold, store, weak, pc, crashed>>

NoObj   == [size |-> 0, refcnt |-> 0, weak |-> Null]
NoStore == [refcnt |-> 0, valid |-> FALSE, of |-> 0, gone |-> FALSE]
NoWeak  == [storage |-> Null, object |-> 0]
Idle    == [do |-> "idle", b |-> 0, size |-> 0]
Do(what, b) == [do |-> what, b |-> b, size |-> 0]

\* Mutant: the key of the thread's instance has no thread id in it.
SameInstance(t) == CHOOSE u \in Threads : TRUE

\* __get_global_tls_ptr: the pools of a thread are found by its id.
Instance(t) == t

\* Every thread already has objects of the derived sizes, which nobody here uses: they
\* fill the first chunk of its dynamic pools.
WarmHeap ==
    [NewHeap(Threads) EXCEPT !.pool = [i \in Threads |-> [n \in Names |->
        IF n[1] = "static" THEN NoPool
        ELSE [exists |-> TRUE, chunk |-> 2 * START_SIZE, mine |-> {}, free |-> <<>>]]]]

Init ==
    /\ heap = IF Warm THEN WarmHeap ELSE NewHeap(Threads)
    /\ obj = [b \in Blocks |-> NoObj]
    /\ hold = [b \in Blocks |-> {}]
    /\ store = [w \in Storages |-> NoStore]
    /\ weak = [t \in Threads |-> NoWeak]
    /\ pc = [t \in Threads |-> Idle]
    /\ crashed = "no"

Iptrs == Threads \X (1 .. MaxHold)
Has(t, b) == \E h \in hold[b] : h[1] = t

MayCall(t) == crashed = "no" /\ pc[t] = Idle
At(t, what) == crashed = "no" /\ pc[t].do = what

-----------------------------------------------------------------------------
(* operator new of AllocatedObject, and make_iptr                          *)

Allocate(t, size) ==
    LET n == PoolName(size)  i == Instance(t)  p == heap.pool[i][n]  m == Ready(heap, i, n, size) IN
    /\ MayCall(t)
    /\ p.free # <<>> \/ CanGrow(heap, p)
    /\ heap' = m
    /\ pc' = [pc EXCEPT ![t] = [do |-> "allocate", b |-> Head(m.pool[i][n].free), size |-> size]]
    /\ UNCHANGED <<obj, hold, store, weak, crashed>>

Construct(t) ==
    LET b == pc[t].b  size == pc[t].size IN
    /\ At(t, "allocate")
    /\ heap' = Unlinked(heap, Instance(t), PoolName(size), b)
    /\ obj' = [obj EXCEPT ![b] = [size |-> size, refcnt |-> 1, weak |-> Null]]
    /\ hold' = [hold EXCEPT ![b] = {<<t, 1>>}]
    /\ pc' = [pc EXCEPT ![t] = Idle]
    /\ UNCHANGED <<store, weak, crashed>>

-----------------------------------------------------------------------------
(* iptr: copies, also into a variable of another thread, and releases      *)

\* Mutant: the new holder is not counted.
RetainedNot(h) == h

Retained(h) == h + 1

Copy(t, h, b) ==
    /\ MayCall(t) /\ Has(t, b) /\ h \in Iptrs \ hold[b]
    /\ pc[h[1]].do # "lock"      \* the iptr may be the one that lock() fills
    /\ obj' = [obj EXCEPT ![b].refcnt = Retained(@)]
    /\ hold' = [hold EXCEPT ![b] = @ \cup {h}]
    /\ UNCHANGED <<heap, store, weak, pc, crashed>>

\* Mutant: the test is on the count before the decrement.
LastBefore(n) == n = 0

\* release: who brings the counter to zero deletes the object.
IsLast(n) == n = 1

Release(t, h, b) ==
    /\ MayCall(t) /\ h \in hold[b] /\ h[1] = t
    /\ (\E u \in Threads : pc[u].do = "lock" /\ pc[u].b = b) /\ ~LockRace => obj[b].refcnt > 1
    /\ obj' = [obj EXCEPT ![b].refcnt = @ - 1]
    /\ hold' = [hold EXCEPT ![b] = @ \ {h}]
    /\ pc' = [pc EXCEPT ![t] = IF IsLast(obj[b].refcnt) THEN Do("destroy", b) ELSE Idle]
    /\ UNCHANGED <<heap, store, weak, crashed>>

\* A reference to storage w is given up.
DropStore(s, w) ==
    LET d == s[w] IN
    [s EXCEPT ![w] = IF d.refcnt = 1 THEN NoStore ELSE [d EXCEPT !.refcnt = d.refcnt - 1]]

\* Mutant: the destructor forgets the flag.
StillValid(s, w) == s

\* ~AtomicRefcnt
Invalidated(s, w) == IF w = Null THEN s ELSE [s EXCEPT ![w].valid = FALSE]

Destroy(t) ==
    LET b == pc[t].b
        w == obj[b].weak
        s == Invalidated([v \in Storages |-> [store[v] EXCEPT !.gone = @ \/ store[v].of = b]], w)
    IN
    /\ At(t, "destroy")
    /\ store' = IF w = Null THEN s ELSE DropStore(s, w)
    /\ pc' = [pc EXCEPT ![t] = [do |-> "free", b |-> b, size |-> obj[b].size]]
    /\ obj' = [obj EXCEPT ![b] = NoObj]
    /\ UNCHANGED <<heap, hold, weak, crashed>>

\* operator delete, on the thread that destroyed the object
Free(t) ==
    LET n == PoolName(pc[t].size)
        i == Instance(t)
        failure == deallocate_fails(heap, i, n, pc[t].b)
    IN
    /\ At(t, "free")
    /\ IF failure # "no"
       THEN crashed' = failure /\ UNCHANGED <<heap, pc>>
       ELSE /\ heap' = deallocate(heap, i, n, pc[t].b)
            /\ pc' = [pc EXCEPT ![t] = Idle]
            /\ UNCHANGED crashed
    /\ UNCHANGED <<obj, hold, store, weak>>

-----------------------------------------------------------------------------
(* Weak pointers                                                           *)

\* weak_iptr(iptr): get_weak tests _weak, makes a storage if there is none, then
\* reads _weak again.
MakeWeak(t, b) ==
    /\ MayCall(t) /\ t \in WeakThreads /\ Has(t, b) /\ weak[t] = NoWeak
    /\ Cardinality({w \in Storages : store[w] = NoStore}) > Cardinality({u \in Threads : pc[u].do = "new_weak"})
    /\ pc' = [pc EXCEPT ![t] = Do(IF obj[b].weak = Null THEN "new_weak" ELSE "take_weak", b)]
    /\ UNCHANGED <<heap, obj, hold, store, weak, crashed>>

NewWeak(t) ==
    LET b == pc[t].b  old == obj[b].weak IN
    /\ At(t, "new_weak")
    /\ \E w \in Storages :
          /\ store[w] = NoStore
          /\ obj' = [obj EXCEPT ![b].weak = w]
          /\ store' = LET s == [store EXCEPT ![w] = [refcnt |-> 1, valid |-> TRUE, of |-> b, gone |-> FALSE]]
                      IN  IF old = Null THEN s ELSE DropStore(s, old)
    /\ pc' = [pc EXCEPT ![t].do = "take_weak"]
    /\ UNCHANGED <<heap, hold, weak, crashed>>

TakeWeak(t) ==
    LET b == pc[t].b  w == obj[b].weak IN
    /\ At(t, "take_weak")
    /\ store' = [store EXCEPT ![w].refcnt = @ + 1]
    /\ weak' = [weak EXCEPT ![t] = [storage |-> w, object |-> b]]
    /\ pc' = [pc EXCEPT ![t] = Idle]
    /\ UNCHANGED <<heap, obj, hold, crashed>>

ResetWeak(t) ==
    /\ MayCall(t) /\ weak[t] # NoWeak
    /\ store' = DropStore(store, weak[t].storage)
    /\ weak' = [weak EXCEPT ![t] = NoWeak]
    /\ UNCHANGED <<heap, obj, hold, pc, crashed>>

\* lock() tests valid; the iptr it returns takes its reference afterwards.
LockTests(t) ==
    /\ MayCall(t) /\ weak[t] # NoWeak /\ store[weak[t].storage].valid
    /\ ~LockRace => hold[weak[t].object] # {}
    /\ ({t} \X (1 .. MaxHold)) \ hold[weak[t].object] # {}
    /\ pc' = [pc EXCEPT ![t] = Do("lock", weak[t].object)]
    /\ UNCHANGED <<heap, obj, hold, store, weak, crashed>>

LockTakes(t) ==
    LET b == pc[t].b IN
    /\ At(t, "lock")
    /\ IF obj[b] = NoObj
       THEN crashed' = "dead object" /\ UNCHANGED <<obj, hold, pc>>
       ELSE /\ \E h \in Iptrs \ hold[b] :
                  h[1] = t /\ hold' = [hold EXCEPT ![b] = @ \cup {h}]
            /\ obj' = [obj EXCEPT ![b].refcnt = Retained(@)]
            /\ pc' = [pc EXCEPT ![t] = Idle]
            /\ UNCHANGED crashed
    /\ UNCHANGED <<heap, store, weak>>

-----------------------------------------------------------------------------
\* A call that has begun goes on: the steps a thread takes by itself.
Step(t) ==
    Construct(t) \/ Destroy(t) \/ Free(t) \/ NewWeak(t) \/ TakeWeak(t) \/ LockTakes(t)

\* A thread calls an operation.
Call(t) ==
    \/ \E size \in Sizes : Allocate(t, size)
    \/ \E b \in Blocks : MakeWeak(t, b) \/ \E h \in Iptrs : Copy(t, h, b) \/ Release(t, h, b)
    \/ ResetWeak(t) \/ LockTests(t)

Next == \E t \in Threads : Step(t) \/ Call(t)

\* The scheduler runs every thread: a call that has begun does not stop half way.
Fairness == \A t \in Threads : WF_vars(Step(t))

Spec == Init /\ [][Next]_vars /\ Fairness

-----------------------------------------------------------------------------
(* Properties                                                              *)

InFree(i, n, b) == {k \in DOMAIN heap.pool[i][n].free : heap.pool[i][n].free[k] = b}

\* The places in free lists where block b is.
FreeAt(b) == UNION {{<<i, n, k>> : k \in InFree(i, n, b)} : i \in Threads, n \in Names}

\* Type invariant.
TypeOK ==
    /\ heap.brk \in 0 .. MaxBlocks
    /\ \A i \in Threads, n \in Names : heap.pool[i][n].free \in Seq(1 .. heap.brk)
    /\ \A b \in Blocks : obj[b].size \in Sizes \cup {0} /\ obj[b].weak \in Storages \cup {Null}
    /\ \A t \in Threads : pc[t].b \in 0 .. MaxBlocks /\ weak[t].storage \in Storages \cup {Null}
    /\ crashed \in {"no", "null pool", "not mine", "dead object"}

\* What a thread has an iptr to is alive, and nobody is destroying it: a block is never
\* given back while it is used, on whatever threads the counter went up and down
\* (refcnt.h, AtomicRefcnt::retain and release).
HeldIsAlive ==
    \A b \in Blocks : hold[b] # {} =>
        /\ obj[b] # NoObj
        /\ \A t \in Threads : pc[t].b = b => pc[t].do \notin {"destroy", "free", "allocate"}

\* Every block the pools have taken is at one place, and at one only: in a free list, in
\* an object, or in the hands of the thread that frees it; blocks wander from the pool
\* of one thread to that of another, which a build with TEST_FULL does not let them
\* (BlockReturnsHome), and are neither lost nor handed out twice (memory.h, allocate
\* and deallocate without a lock).
BlocksOnce ==
    TypeOK /\ \A b \in 1 .. heap.brk :
        Cardinality(FreeAt(b))
          + (IF obj[b] = NoObj THEN 0 ELSE 1)
          + Cardinality({t \in Threads : pc[t].do = "free" /\ pc[t].b = b}) = 1

\* An object never lies in a block smaller than itself, whichever pools the block has
\* been through (memory.h, the size classes of DynamicMemoryPool and round_up).
BlockFits ==
    /\ \A b \in Blocks : obj[b] # NoObj => obj[b].size <= heap.block[b]
    /\ \A t \in Threads : pc[t].do = "allocate" => pc[t].size <= heap.block[pc[t].b]

\* A weak pointer that another thread still has knows when the object is destroyed.
WeakKnowsDeath ==
    \A w \in Storages : store[w] # NoStore => store[w].valid = ~store[w].gone

\* Once nobody holds an object it is destroyed and its block can be used again, whoever
\* was the last: the counter cannot miss its zero (refcnt.h, release).
UnheldIsFreed ==
    \A b \in Blocks :
        (obj[b] # NoObj /\ hold[b] = {}) ~>
            \E i \in Threads, n \in Names : InFree(i, n, b) # {}

\* doc/refcnt.md: pointers in different threads are what AtomicRefcnt is for.  The block
\* of an object that another thread made can be given back to the pool of this one.
PoolIsThere == crashed # "null pool"

\* "you MUST NEVER pass a pointer that wasn't created via current mempool"
\* (memory.h:95): a block goes back to the pool that it comes from.
BlockReturnsHome == crashed # "not mine"

\* lock() gives an object that is alive, or nothing.
LockedIsAlive == crashed # "dead object"
=============================================================================
