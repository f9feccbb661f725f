---------------------------- MODULE MemoryPools ----------------------------
(***************************************************************************)
(* MemoryPool, StaticMemoryPool and DynamicMemoryPool (memory.h,           *)
(* memory.cc) as operators.                                                *)
(*                                                                         *)
(* A heap m is a record: m.pool[i][s] is the MemoryPool of instance i for  *)
(* blocks of s bytes, with whether it exists, the number of blocks of its  *)
(* next chunk, the blocks of its chunks so far (`pools` in the code) and   *)
(* its free list, first block first; m.block[b] is the size of block b;    *)
(* m.brk counts the blocks taken from the system so far.  Blocks are       *)
(* numbered in the order they come.                                        *)
(***************************************************************************)
EXTENDS Integers, Sequences

CONSTANTS
    TEST_FULL,   \* whether the library is built with this macro, which adds a check
    TARGET,      \* sizeof(TARGET) of the AllocatedObject class
    Sizes,       \* sizes of the objects made: TARGET and those of derived classes
    START_SIZE,  \* blocks in the first chunk of a pool (16 in the code)
    MaxBlocks    \* bound: blocks the pools may take from the system

\* Larger objects are refused.
MaxSize == 262144

ASSUME PoolAssumption ==
    /\ TEST_FULL \in BOOLEAN
    /\ TARGET \in 1 .. MaxSize /\ Sizes \subseteq 1 .. MaxSize
    /\ START_SIZE \in Nat \ {0} /\ MaxBlocks \in Nat

Blocks == 1 .. MaxBlocks
Ptr == 8         \* sizeof(void*)

\* round_up: adds a whole pointer and cuts off what is beyond the last one.
round_up(size) == IF size % Ptr = 0 THEN size ELSE ((size + Ptr) \div Ptr) * Ptr

\* The granularity of the pools of DynamicMemoryPool that serve this size.
Grain(size) == CASE size <= 1024  -> 4
                 [] size > 1024 /\ size <= 16384 -> 64
                 [] size > 16384 -> 1024

\* The index in small_pools, medium_pools or big_pools.
Index(size) == (size - 1) \div Grain(size)

\* Mutant: the last, partial grain is dropped.
BlockSizeCut(size) == IF size <= 8 THEN 8 ELSE round_up(Index(size) * Grain(size))

\* 4 and 8 bytes share a pool of their own.
BlockSize(size) == IF size <= 8 THEN 8 ELSE round_up((Index(size) + 1) * Grain(size))

\* StaticMemoryPool<1..7> is StaticMemoryPool<8>.
StaticBlockSize == IF TARGET < 8 THEN 8 ELSE round_up(TARGET)

\* The pool that AllocatedObject uses for an object of this size, by its name: the
\* static one of the class, or the dynamic one of the index.
PoolName(size) ==
    IF size = TARGET THEN <<"static", 0, 0>> ELSE <<"dynamic", Grain(size), IF size <= 8 THEN 0 ELSE Index(size)>>

Names == {PoolName(s) : s \in Sizes}

NoPool  == [exists |-> FALSE, chunk |-> START_SIZE, mine |-> {}, free |-> <<>>]

NewHeap(instances) ==
    [pool |-> [i \in instances |-> [n \in Names |-> NoPool]], block |-> [b \in Blocks |-> 0], brk |-> 0]

CanGrow(m, p) == m.brk + p.chunk <= MaxBlocks

\* A new chunk, its blocks linked in order; the free list was empty.  The first chunk has
\* START_SIZE blocks, each later one twice as many as the one before.
grow(m, i, n, size) ==
    LET p     == m.pool[i][n]
        chunk == m.brk + 1 .. m.brk + p.chunk
        bytes == IF n[1] = "static" THEN StaticBlockSize ELSE BlockSize(size)
    IN [pool  |-> [m.pool EXCEPT ![i][n] = [exists |-> TRUE, chunk |-> 2 * p.chunk, mine |-> p.mine \cup chunk,
                                            free |-> [k \in 1 .. p.chunk |-> m.brk + k]]],
        block |-> [b \in Blocks |-> IF b \in chunk THEN bytes ELSE m.block[b]],
        brk   |-> m.brk + p.chunk]

\* The pool is made at the first allocation; it grows when no block is free.
Ready(m, i, n, size) ==
    IF m.pool[i][n].free = <<>> THEN grow(m, i, n, size) ELSE m

\* allocate: the first free block is unlinked.
Unlinked(m, i, n, b) ==
    [m EXCEPT !.pool[i][n].free = IF @ # <<>> /\ Head(@) = b THEN Tail(@) ELSE @]

\* deallocate writes through a null pointer when the dynamic pool was never made; a
\* static pool is made by instance(), and that of 8 bytes with the dynamic pools.
deallocate_crashes(m, i, n) ==
    n[1] = "dynamic" /\ n # <<"dynamic", 4, 0>> /\ ~m.pool[i][n].exists

\* Whether the block lies in a chunk of this pool.
is_mine(m, i, n, b) == b \in m.pool[i][n].mine

\* What ends the program in deallocate, or "no".  A build with TEST_FULL aborts on a block
\* of another pool (and reads out of bounds in a pool without chunks, where is_mine has
\* nothing to look at); other builds link the block in all the same.
deallocate_fails(m, i, n, b) ==
    CASE deallocate_crashes(m, i, n) -> "null pool"
      [] ~deallocate_crashes(m, i, n) /\ TEST_FULL /\ ~is_mine(m, i, n, b) -> "not mine"
      [] OTHER -> "no"

deallocate(m, i, n, b) ==
    LET p == m.pool[i][n] IN
    [m EXCEPT !.pool[i][n] = [p EXCEPT !.exists = TRUE, !.free = <<b>> \o p.free]]
=============================================================================
