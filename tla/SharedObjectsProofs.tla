------------------------ MODULE SharedObjectsProofs ------------------------
(***************************************************************************)
(* SharedObjects for any threads, sizes, holders and blocks: a block is at *)
(* one place, what a thread points to is alive, and an object fits in its  *)
(* block, as long as nobody locks an object that can lose its last holder. *)
(***************************************************************************)
EXTENDS SharedObjects, SequenceTheorems, FiniteSetTheorems, TLAPS

(***************************************************************************)
(* The size classes: who shares a pool fits in its blocks.                 *)
(***************************************************************************)
LEMMA RoundUpCovers ==
    ASSUME NEW n \in Nat
    PROVE  round_up(n) \in Nat /\ n <= round_up(n)
  BY DEF round_up, Ptr

LEMMA IndexCovers ==
    ASSUME NEW s \in 1 .. MaxSize
    PROVE  /\ Grain(s) \in {4, 64, 1024} /\ Index(s) \in Nat
           /\ (Index(s) + 1) * Grain(s) \in Nat /\ s <= (Index(s) + 1) * Grain(s)
           /\ s > 8 /\ Grain(s) = 4 => Index(s) > 1
  <1>1. CASE s <= 1024
    BY <1>1 DEF Grain, Index
  <1>2. CASE s > 1024 /\ s <= 16384
    BY <1>2 DEF Grain, Index
  <1>3. CASE s > 16384
    BY <1>3 DEF Grain, Index
  <1>4. QED
    BY <1>1, <1>2, <1>3

\* The bytes that grow() gives to the blocks of pool n.
Bytes(n, size) == IF n[1] = "static" THEN StaticBlockSize ELSE BlockSize(size)

LEMMA SharedPoolFits ==
    ASSUME NEW r \in Sizes, NEW s \in Sizes, PoolName(r) = PoolName(s)
    PROVE  r <= Bytes(PoolName(s), s) /\ Bytes(PoolName(s), s) \in Nat
  <1>1. TARGET \in 1 .. MaxSize /\ r \in 1 .. MaxSize /\ s \in 1 .. MaxSize
    BY PoolAssumption
  <1>2. CASE s = TARGET
    <2>1. r = TARGET /\ PoolName(s)[1] = "static"
      BY <1>2 DEF PoolName
    <2>2. TARGET <= StaticBlockSize /\ StaticBlockSize \in Nat
      BY <1>1, RoundUpCovers DEF StaticBlockSize
    <2>3. QED
      BY <2>1, <2>2 DEF Bytes
  <1>3. CASE s # TARGET
    <2>1. r # TARGET /\ PoolName(s)[1] = "dynamic"
      BY <1>3 DEF PoolName
    <2>2. Grain(r) = Grain(s) /\ (IF r <= 8 THEN 0 ELSE Index(r)) = (IF s <= 8 THEN 0 ELSE Index(s))
      BY <1>3, <2>1 DEF PoolName
    <2>3. Bytes(PoolName(s), s) = BlockSize(s)
      BY <2>1 DEF Bytes
    <2>4. CASE s <= 8
      <3>1. Grain(s) = 4
        BY <1>1, <2>4 DEF Grain
      <3>2. r <= 8
        BY <1>1, <2>2, <2>4, <3>1, IndexCovers
      <3>3. QED
        BY <2>3, <2>4, <3>2 DEF BlockSize
    <2>5. CASE s > 8
      <3>1. /\ (Index(s) + 1) * Grain(s) \in Nat /\ Index(s) \in Nat /\ Grain(s) \in {4, 64, 1024}
            /\ (Grain(s) = 4 => Index(s) > 1)
        BY <1>1, <2>5, IndexCovers
      <3>2. r > 8
        <4> SUFFICES ASSUME r <= 8 PROVE FALSE
          BY <1>1
        <4>1. Grain(r) = 4
          BY <1>1 DEF Grain
        <4>2. 0 = Index(s)
          BY <1>1, <2>2, <2>5
        <4>3. Index(s) > 1
          BY <2>2, <3>1, <4>1
        <4>4. QED
          BY <4>2, <4>3
      <3>3. r <= (Index(s) + 1) * Grain(s)
        BY <1>1, <2>2, <2>5, <3>2, IndexCovers
      <3>4. BlockSize(s) = round_up((Index(s) + 1) * Grain(s))
        BY <1>1, <2>5 DEF BlockSize
      <3>5. round_up((Index(s) + 1) * Grain(s)) \in Nat /\ (Index(s) + 1) * Grain(s) <= round_up((Index(s) + 1) * Grain(s))
        BY <3>1, RoundUpCovers
      <3>6. QED
        BY <1>1, <2>3, <3>1, <3>3, <3>4, <3>5
    <2>6. QED
      BY <1>1, <2>4, <2>5
  <1>4. QED
    BY <1>2, <1>3

(***************************************************************************)
(* The heap: free lists of blocks that fit, no block twice in them.        *)
(***************************************************************************)
FreeOf(h, i, n) == h.pool[i][n].free
Fits(h, b, n)   == \A s \in Sizes : PoolName(s) = n => s <= h.block[b]

Pools == [exists : BOOLEAN, chunk : Nat \ {0}, mine : SUBSET Nat, free : Seq(Nat)]

HeapType(h) ==
    /\ h \in [pool : [Threads -> [Names -> Pools]], block : [Blocks -> Nat], brk : Nat]
    /\ h.brk <= MaxBlocks

\* Where block b is: k-th in the list of pool n of thread i.
Lies(h, b, i, n, k) == k \in DOMAIN FreeOf(h, i, n) /\ FreeOf(h, i, n)[k] = b
InPool(h, b) == \E i \in Threads, n \in Names, k \in Nat : Lies(h, b, i, n, k)

HeapOk(h) ==
    /\ HeapType(h)
    /\ \A i \in Threads, n \in Names, k \in Nat, b \in Nat :
          Lies(h, b, i, n, k) => b \in 1 .. h.brk /\ Fits(h, b, n)
    /\ \A b \in Nat, i, j \in Threads, n, m \in Names, k, l \in Nat :
          Lies(h, b, i, n, k) /\ Lies(h, b, j, m, l) => i = j /\ n = m /\ k = l

LEMMA FreeOfType ==
    ASSUME NEW h, HeapType(h), NEW i \in Threads, NEW n \in Names
    PROVE  /\ h.pool[i][n] \in Pools
           /\ FreeOf(h, i, n) \in Seq(Nat)
           /\ \A k : k \in DOMAIN FreeOf(h, i, n) => k \in Nat
           /\ h.pool[i][n].chunk \in Nat \ {0}
  <1>1. h.pool[i][n] \in Pools
    BY DEF HeapType
  <1>2. FreeOf(h, i, n) \in Seq(Nat) /\ h.pool[i][n].chunk \in Nat \ {0}
    BY <1>1 DEF Pools, FreeOf
  <1>3. DOMAIN FreeOf(h, i, n) = 1 .. Len(FreeOf(h, i, n))
    BY <1>2, LenProperties
  <1>4. QED
    BY <1>1, <1>2, <1>3

\* One list changes and the others stay: what is in the new one must be fit to be there.
LEMMA OneListChanges ==
    ASSUME NEW h, HeapOk(h), NEW g, HeapType(g), NEW i \in Threads, NEW n \in Names,
           \A j \in Threads, m \in Names : j # i \/ m # n => FreeOf(g, j, m) = FreeOf(h, j, m),
           h.brk <= g.brk,
           \A b \in 1 .. h.brk : g.block[b] = h.block[b],
           \A b, k \in Nat : Lies(g, b, i, n, k) =>
              /\ b \in 1 .. g.brk /\ Fits(g, b, n)
              /\ \A j \in Threads, m \in Names, l \in Nat : Lies(h, b, j, m, l) => j = i /\ m = n
              /\ \A l \in Nat : Lies(g, b, i, n, l) => k = l
    PROVE  HeapOk(g)
  <1>1. ASSUME NEW j \in Threads, NEW m \in Names, NEW k \in Nat, NEW b \in Nat, Lies(g, b, j, m, k)
        PROVE  b \in 1 .. g.brk /\ Fits(g, b, m)
    <2>1. CASE j = i /\ m = n
      BY <1>1, <2>1
    <2>2. CASE ~(j = i /\ m = n)
      <3>1. Lies(h, b, j, m, k)
        BY <1>1, <2>2 DEF Lies
      <3>2. b \in 1 .. h.brk /\ Fits(h, b, m)
        BY <3>1 DEF HeapOk
      <3>3. h.brk \in Nat /\ g.brk \in Nat
        BY DEF HeapOk, HeapType
      <3>4. QED
        BY <3>2, <3>3 DEF Fits
    <2>3. QED
      BY <2>1, <2>2
  <1>2. ASSUME NEW b \in Nat, NEW u \in Threads, NEW j \in Threads, NEW p \in Names, NEW m \in Names,
               NEW k \in Nat, NEW l \in Nat, Lies(g, b, u, p, k), Lies(g, b, j, m, l)
        PROVE  u = j /\ p = m /\ k = l
    <2>1. CASE u = i /\ p = n /\ j = i /\ m = n
      BY <1>2, <2>1
    <2>2. CASE ~(u = i /\ p = n) /\ ~(j = i /\ m = n)
      <3>1. Lies(h, b, u, p, k) /\ Lies(h, b, j, m, l)
        BY <1>2, <2>2 DEF Lies
      <3>2. QED
        BY <3>1 DEF HeapOk
    <2>3. CASE u = i /\ p = n /\ ~(j = i /\ m = n)
      <3>1. Lies(h, b, j, m, l)
        BY <1>2, <2>3 DEF Lies
      <3>2. QED
        BY <1>2, <2>3, <3>1
    <2>4. CASE ~(u = i /\ p = n) /\ j = i /\ m = n
      <3>1. Lies(h, b, u, p, k)
        BY <1>2, <2>4 DEF Lies
      <3>2. QED
        BY <1>2, <2>4, <3>1
    <2>5. QED
      BY <2>1, <2>2, <2>3, <2>4
  <1>3. QED
    BY <1>1, <1>2 DEF HeapOk

LEMMA GrowIs ==
    ASSUME NEW h, HeapOk(h), NEW i \in Threads, NEW size \in Sizes,
           FreeOf(h, i, PoolName(size)) = <<>>, CanGrow(h, h.pool[i][PoolName(size)])
    PROVE  LET n == PoolName(size)
               g == grow(h, i, n, size)
           IN  /\ HeapOk(g) /\ h.brk <= g.brk
               /\ \A b \in 1 .. h.brk : g.block[b] = h.block[b]
               /\ \A b \in Nat : InPool(g, b) <=> InPool(h, b) \/ b \in h.brk + 1 .. g.brk
               /\ FreeOf(g, i, n) # <<>>
               /\ \A j \in Threads : j # i => g.pool[j] = h.pool[j]
  <1> DEFINE n     == PoolName(size)
             p     == h.pool[i][n]
             c     == p.chunk
             bytes == IF n[1] = "static" THEN StaticBlockSize ELSE BlockSize(size)
             L     == [k \in 1 .. c |-> h.brk + k]
             M     == p.mine \cup h.brk + 1 .. h.brk + c
             g     == grow(h, i, n, size)
  <1>1. HeapType(h) /\ n \in Names /\ h.brk \in Nat /\ h.brk <= MaxBlocks /\ MaxBlocks \in Nat
    BY PoolAssumption DEF HeapOk, HeapType, Names
  <1>2. p \in Pools /\ c \in Nat \ {0}
    BY <1>1, FreeOfType
  <1>3. bytes \in Nat /\ \A s \in Sizes : PoolName(s) = n => s <= bytes
    BY SharedPoolFits DEF Bytes
  <1>4. h.brk + c <= MaxBlocks
    BY DEF CanGrow
  <1>5. L \in Seq(Nat) /\ Len(L) = c /\ DOMAIN L = 1 .. c /\ \A k \in 1 .. c : L[k] = h.brk + k
    BY <1>1, <1>2
  <1>6. /\ g.pool = [h.pool EXCEPT ![i][n] = [exists |-> TRUE, chunk |-> 2 * c, mine |-> M, free |-> L]]
        /\ g.block = [b \in Blocks |-> IF b \in h.brk + 1 .. h.brk + c THEN bytes ELSE h.block[b]]
        /\ g.brk = h.brk + c
        /\ g = [pool |-> g.pool, block |-> g.block, brk |-> g.brk]
    BY DEF grow
  <1>22. M \in SUBSET Nat
    BY <1>1, <1>2 DEF Pools
  <1> HIDE DEF g, L, M, bytes
  <1>7. [exists |-> TRUE, chunk |-> 2 * c, mine |-> M, free |-> L] \in Pools
    BY <1>2, <1>5, <1>22 DEF Pools
  <1>8. g.pool \in [Threads -> [Names -> Pools]]
    BY <1>1, <1>6, <1>7 DEF HeapType
  <1>9. g.block \in [Blocks -> Nat]
    BY <1>1, <1>3, <1>6 DEF HeapType
  <1>20. g.brk = h.brk + c /\ g.brk \in Nat /\ g.brk <= MaxBlocks
    <2>1. g.brk = h.brk + c
      BY <1>6
    <2>2. QED
      BY <1>1, <1>2, <1>4, <2>1
  <1>21. g = [pool |-> g.pool, block |-> g.block, brk |-> g.brk]
    BY <1>6
  <1>10. HeapType(g)
    BY <1>8, <1>9, <1>20, <1>21 DEF HeapType
  <1>11. /\ FreeOf(g, i, n) = L
         /\ \A j \in Threads, m \in Names : j # i \/ m # n => FreeOf(g, j, m) = FreeOf(h, j, m)
         /\ \A j \in Threads : j # i => g.pool[j] = h.pool[j]
    BY <1>1, <1>6 DEF FreeOf, HeapType
  <1>12. \A b \in 1 .. h.brk : g.block[b] = h.block[b]
    BY <1>1, <1>6 DEF Blocks
  <1>13. \A b, k : Lies(g, b, i, n, k) <=> k \in 1 .. c /\ b = h.brk + k
    BY <1>5, <1>11 DEF Lies
  <1>14. ASSUME NEW b \in h.brk + 1 .. g.brk PROVE Fits(g, b, n)
    BY <1>1, <1>2, <1>3, <1>4, <1>6, <1>14 DEF Fits, Blocks
  <1>15. \A b \in Nat, j \in Threads, m \in Names, l \in Nat : Lies(h, b, j, m, l) => b <= h.brk
    BY <1>1 DEF HeapOk
  <1>16. HeapOk(g)
    <2>1. ASSUME NEW b \in Nat, NEW k \in Nat, Lies(g, b, i, n, k)
          PROVE  /\ b \in 1 .. g.brk /\ Fits(g, b, n)
                 /\ \A j \in Threads, m \in Names, l \in Nat : Lies(h, b, j, m, l) => j = i /\ m = n
                 /\ \A l \in Nat : Lies(g, b, i, n, l) => k = l
      <3>1. k \in 1 .. c /\ b = h.brk + k
        BY <1>13, <2>1
      <3>2. b \in h.brk + 1 .. g.brk /\ b \in 1 .. g.brk
        BY <1>1, <1>2, <1>20, <3>1
      <3>3. Fits(g, b, n)
        BY <1>14, <3>2
      <3>4. \A j \in Threads, m \in Names, l \in Nat : ~Lies(h, b, j, m, l)
        BY <1>1, <1>15, <3>2
      <3>5. \A l \in Nat : Lies(g, b, i, n, l) => k = l
        BY <1>1, <1>13, <3>1
      <3>6. QED
        BY <3>2, <3>3, <3>4, <3>5
    <2>2. h.brk <= g.brk
      BY <1>1, <1>2, <1>6
    <2>3. QED
      BY <1>1, <1>10, <1>11, <1>12, <2>1, <2>2, OneListChanges
  <1>17. ASSUME NEW b \in Nat PROVE InPool(g, b) <=> InPool(h, b) \/ b \in h.brk + 1 .. g.brk
    <2>1. ASSUME InPool(g, b) PROVE InPool(h, b) \/ b \in h.brk + 1 .. g.brk
      <3>1. PICK j \in Threads, m \in Names, k \in Nat : Lies(g, b, j, m, k)
        BY <2>1 DEF InPool
      <3>2. CASE j = i /\ m = n
        BY <1>1, <1>2, <1>6, <1>13, <3>1, <3>2
      <3>3. CASE j # i \/ m # n
        BY <1>11, <3>1, <3>3 DEF Lies, InPool
      <3>4. QED
        BY <3>2, <3>3
    <2>2. ASSUME InPool(h, b) PROVE InPool(g, b)
      <3>1. PICK j \in Threads, m \in Names, k \in Nat : Lies(h, b, j, m, k)
        BY <2>2 DEF InPool
      <3>2. j # i \/ m # n
        BY <3>1, EmptySeq DEF Lies
      <3>3. QED
        BY <1>11, <3>1, <3>2 DEF Lies, InPool
    <2>3. ASSUME b \in h.brk + 1 .. g.brk PROVE InPool(g, b)
      <3>1. b - h.brk \in 1 .. c /\ b - h.brk \in Nat /\ b = h.brk + (b - h.brk)
        BY <1>1, <1>2, <1>6, <2>3
      <3>2. Lies(g, b, i, n, b - h.brk)
        BY <1>13, <3>1
      <3>3. QED
        BY <1>1, <3>1, <3>2 DEF InPool
    <2>4. QED
      BY <2>1, <2>2, <2>3
  <1>18. FreeOf(g, i, n) # <<>> /\ h.brk <= g.brk
    BY <1>1, <1>2, <1>5, <1>6, <1>11
  <1>19. QED
    BY <1>11, <1>12, <1>16, <1>17, <1>18 DEF g

LEMMA UnlinkIs ==
    ASSUME NEW h, HeapOk(h), NEW i \in Threads, NEW n \in Names,
           FreeOf(h, i, n) # <<>>, NEW b, b = Head(FreeOf(h, i, n))
    PROVE  LET u == Unlinked(h, i, n, b)
           IN  /\ HeapOk(u) /\ u.brk = h.brk /\ u.block = h.block
               /\ b \in 1 .. h.brk /\ Fits(h, b, n) /\ InPool(h, b)
               /\ \A c \in Nat : InPool(u, c) <=> InPool(h, c) /\ c # b
               /\ \A j \in Threads : j # i => u.pool[j] = h.pool[j]
  <1> DEFINE L == FreeOf(h, i, n)
             u == Unlinked(h, i, n, b)
  <1>1. HeapType(h) /\ L \in Seq(Nat) /\ h.pool[i][n] \in Pools /\ h.brk \in Nat
    BY FreeOfType DEF HeapOk, HeapType
  <1>2. /\ Tail(L) \in Seq(Nat) /\ Len(L) \in Nat \ {0} /\ Len(Tail(L)) = Len(L) - 1
        /\ \A k \in 1 .. Len(Tail(L)) : Tail(L)[k] = L[k + 1]
    BY <1>1, HeadTailProperties, EmptySeq
  <1>3. DOMAIN L = 1 .. Len(L) /\ DOMAIN Tail(L) = 1 .. Len(Tail(L)) /\ L[1] = b
    BY <1>1, <1>2, LenProperties
  <1>4. /\ u.pool = [h.pool EXCEPT ![i][n].free = Tail(L)]
        /\ u.block = h.block /\ u.brk = h.brk
        /\ u = [pool |-> u.pool, block |-> u.block, brk |-> u.brk]
    <2>1. h.pool[i][n].free = L /\ L # <<>> /\ Head(L) = b
      BY DEF FreeOf
    <2>2. u = [h EXCEPT !.pool = [h.pool EXCEPT ![i] = [h.pool[i] EXCEPT ![n] =
                 [h.pool[i][n] EXCEPT !.free = IF h.pool[i][n].free # <<>> /\ Head(h.pool[i][n].free) = b
                                               THEN Tail(h.pool[i][n].free) ELSE h.pool[i][n].free]]]]
      BY DEF Unlinked
    <2>3. u = [h EXCEPT !.pool = [h.pool EXCEPT ![i] = [h.pool[i] EXCEPT ![n] =
                 [h.pool[i][n] EXCEPT !.free = Tail(L)]]]]
      BY <2>1, <2>2
    <2> HIDE DEF L, u
    <2>4. QED
      BY <1>1, <2>3 DEF HeapType
  <1> HIDE DEF u
  <1>5. [h.pool[i][n] EXCEPT !.free = Tail(L)] \in Pools
    BY <1>1, <1>2 DEF Pools
  <1>6. u.pool \in [Threads -> [Names -> Pools]]
    BY <1>1, <1>4, <1>5 DEF HeapType
  <1>7. HeapType(u)
    BY <1>1, <1>4, <1>6 DEF HeapType
  <1> HIDE DEF L
  <1>8. /\ FreeOf(u, i, n) = Tail(L)
        /\ \A j \in Threads, m \in Names : j # i \/ m # n => FreeOf(u, j, m) = FreeOf(h, j, m)
        /\ \A j \in Threads : j # i => u.pool[j] = h.pool[j]
    BY <1>1, <1>4 DEF FreeOf, HeapType, Pools
  <1>9. Lies(h, b, i, n, 1) /\ \A c, k : Lies(h, c, i, n, k) <=> k \in 1 .. Len(L) /\ L[k] = c
    BY <1>2, <1>3 DEF Lies, L
  <1>10. b \in 1 .. h.brk /\ b \in Nat /\ Fits(h, b, n) /\ InPool(h, b)
    <2>1. b \in Nat
      BY <1>1, <1>2, <1>3, ElementOfSeq
    <2>2. QED
      BY <1>9, <2>1 DEF HeapOk, InPool
  <1>11. ASSUME NEW c \in Nat, NEW k \in Nat
         PROVE  Lies(u, c, i, n, k) <=> k >= 1 /\ Lies(h, c, i, n, k + 1)
    <2>1. Lies(u, c, i, n, k) <=> k \in 1 .. Len(Tail(L)) /\ Tail(L)[k] = c
      BY <1>3, <1>8 DEF Lies
    <2>2. QED
      BY <1>2, <1>9, <2>1
  <1>12. HeapOk(u)
    <2>1. ASSUME NEW c \in Nat, NEW k \in Nat, Lies(u, c, i, n, k)
          PROVE  /\ c \in 1 .. u.brk /\ Fits(u, c, n)
                 /\ \A j \in Threads, m \in Names, l \in Nat : Lies(h, c, j, m, l) => j = i /\ m = n
                 /\ \A l \in Nat : Lies(u, c, i, n, l) => k = l
      <3>1. k + 1 \in Nat /\ Lies(h, c, i, n, k + 1)
        BY <1>11, <2>1
      <3>2. c \in 1 .. h.brk /\ Fits(h, c, n)
        BY <3>1 DEF HeapOk
      <3>3. \A j \in Threads, m \in Names, l \in Nat : Lies(h, c, j, m, l) => j = i /\ m = n /\ l = k + 1
        BY <3>1 DEF HeapOk
      <3>4. ASSUME NEW l \in Nat, Lies(u, c, i, n, l) PROVE k = l
        <4>1. l + 1 \in Nat /\ Lies(h, c, i, n, l + 1)
          BY <1>11, <3>4
        <4>2. l + 1 = k + 1
          BY <3>3, <4>1
        <4>3. QED
          BY <4>2
      <3>5. QED
        BY <1>4, <3>2, <3>3, <3>4 DEF Fits
    <2>2. QED
      BY <1>1, <1>4, <1>7, <1>8, <2>1, OneListChanges
  <1>13. ASSUME NEW c \in Nat PROVE InPool(u, c) <=> InPool(h, c) /\ c # b
    <2>1. ASSUME InPool(u, c) PROVE InPool(h, c) /\ c # b
      <3>1. PICK j \in Threads, m \in Names, k \in Nat : Lies(u, c, j, m, k)
        BY <2>1 DEF InPool
      <3>2. CASE j = i /\ m = n
        <4>1. k + 1 \in Nat /\ k >= 1 /\ Lies(h, c, i, n, k + 1)
          BY <1>11, <3>1, <3>2
        <4>2. k + 1 # 1
          BY <4>1
        <4>3. c # b
          BY <1>9, <4>1, <4>2 DEF HeapOk
        <4>4. QED
          BY <4>1, <4>3 DEF InPool
      <3>3. CASE j # i \/ m # n
        <4>1. Lies(h, c, j, m, k)
          BY <1>8, <3>1, <3>3 DEF Lies
        <4>2. c # b
          BY <1>9, <3>3, <4>1 DEF HeapOk
        <4>3. QED
          BY <4>1, <4>2 DEF InPool
      <3>4. QED
        BY <3>2, <3>3
    <2>2. ASSUME InPool(h, c), c # b PROVE InPool(u, c)
      <3>1. PICK j \in Threads, m \in Names, k \in Nat : Lies(h, c, j, m, k)
        BY <2>2 DEF InPool
      <3>2. CASE j = i /\ m = n
        <4>1. k \in 1 .. Len(L) /\ k # 1
          BY <1>3, <1>9, <2>2, <3>1, <3>2
        <4>2. k - 1 \in Nat /\ k - 1 >= 1 /\ (k - 1) + 1 = k
          BY <1>2, <4>1
        <4>3. Lies(u, c, i, n, k - 1)
          BY <1>11, <3>1, <3>2, <4>2
        <4>4. QED
          BY <4>2, <4>3 DEF InPool
      <3>3. CASE j # i \/ m # n
        BY <1>8, <3>1, <3>3 DEF Lies, InPool
      <3>4. QED
        BY <3>2, <3>3
    <2>3. QED
      BY <2>1, <2>2
  <1>14. QED
    BY <1>4, <1>8, <1>10, <1>12, <1>13 DEF u

LEMMA DeallocIs ==
    ASSUME NEW h, HeapOk(h), NEW i \in Threads, NEW n \in Names,
           NEW b \in 1 .. h.brk, ~InPool(h, b), Fits(h, b, n)
    PROVE  LET d == deallocate(h, i, n, b)
           IN  /\ HeapOk(d) /\ d.brk = h.brk /\ d.block = h.block
               /\ \A c \in Nat : InPool(d, c) <=> InPool(h, c) \/ c = b
               /\ \A j \in Threads : j # i => d.pool[j] = h.pool[j]
  <1> DEFINE L == FreeOf(h, i, n)
             N == <<b>> \o L
             d == deallocate(h, i, n, b)
  <1>1. HeapType(h) /\ L \in Seq(Nat) /\ h.pool[i][n] \in Pools /\ h.brk \in Nat /\ b \in Nat
    <2>1. HeapType(h) /\ h.brk \in Nat
      BY DEF HeapOk, HeapType
    <2>2. QED
      BY <2>1, FreeOfType
  <1>2. /\ N \in Seq(Nat) /\ Len(N) = Len(L) + 1 /\ Len(L) \in Nat
        /\ N[1] = b /\ \A k \in 2 .. Len(L) + 1 : N[k] = L[k - 1]
    BY <1>1
  <1>3. DOMAIN L = 1 .. Len(L) /\ DOMAIN N = 1 .. Len(N)
    BY <1>1, <1>2, LenProperties
  <1> HIDE DEF N
  <1>4. /\ d.pool = [h.pool EXCEPT ![i][n] = [@ EXCEPT !.exists = TRUE, !.free = N]]
        /\ d.block = h.block /\ d.brk = h.brk
        /\ d = [pool |-> d.pool, block |-> d.block, brk |-> d.brk]
    <2>1. <<b>> \o h.pool[i][n].free = N
      BY DEF FreeOf, N
    <2>2. d = [h EXCEPT !.pool = [h.pool EXCEPT ![i] = [h.pool[i] EXCEPT ![n] =
                 [h.pool[i][n] EXCEPT !.exists = TRUE, !.free = <<b>> \o h.pool[i][n].free]]]]
      BY DEF deallocate
    <2>3. d = [h EXCEPT !.pool = [h.pool EXCEPT ![i] = [h.pool[i] EXCEPT ![n] =
                 [h.pool[i][n] EXCEPT !.exists = TRUE, !.free = N]]]]
      BY <2>1, <2>2
    <2> HIDE DEF d
    <2>4. QED
      BY <1>1, <2>3 DEF HeapType
  <1> HIDE DEF d
  <1>5. [h.pool[i][n] EXCEPT !.exists = TRUE, !.free = N] \in Pools
    BY <1>1, <1>2 DEF Pools
  <1>6. d.pool \in [Threads -> [Names -> Pools]]
    BY <1>1, <1>4, <1>5 DEF HeapType
  <1>7. HeapType(d)
    BY <1>1, <1>4, <1>6 DEF HeapType
  <1> HIDE DEF L
  <1>8. /\ FreeOf(d, i, n) = N
        /\ \A j \in Threads, m \in Names : j # i \/ m # n => FreeOf(d, j, m) = FreeOf(h, j, m)
        /\ \A j \in Threads : j # i => d.pool[j] = h.pool[j]
    BY <1>1, <1>4 DEF FreeOf, HeapType, Pools
  <1>9. \A c, k : Lies(h, c, i, n, k) <=> k \in 1 .. Len(L) /\ L[k] = c
    BY <1>3 DEF Lies, L
  <1>10. ASSUME NEW c \in Nat, NEW k \in Nat
         PROVE  Lies(d, c, i, n, k) <=> (k = 1 /\ c = b) \/ (k >= 2 /\ Lies(h, c, i, n, k - 1))
    <2>1. Lies(d, c, i, n, k) <=> k \in 1 .. Len(L) + 1 /\ N[k] = c
      BY <1>2, <1>3, <1>8 DEF Lies
    <2>2. CASE k >= 2
      <3>1. k \in 1 .. Len(L) + 1 <=> k - 1 \in 1 .. Len(L)
        BY <1>2, <2>2
      <3>2. k \in 1 .. Len(L) + 1 => N[k] = L[k - 1]
        BY <1>2, <2>2
      <3>3. Lies(h, c, i, n, k - 1) <=> k - 1 \in 1 .. Len(L) /\ L[k - 1] = c
        BY <1>9
      <3>4. QED
        BY <2>1, <2>2, <3>1, <3>2, <3>3
    <2>3. CASE k = 1
      BY <1>2, <2>1, <2>3
    <2>4. CASE k = 0
      BY <1>2, <2>1, <2>4
    <2>5. QED
      BY <2>2, <2>3, <2>4
  <1>11. \A j \in Threads, m \in Names, l \in Nat : ~Lies(h, b, j, m, l)
    BY DEF InPool
  <1>12. HeapOk(d)
    <2>1. ASSUME NEW c \in Nat, NEW k \in Nat, Lies(d, c, i, n, k)
          PROVE  /\ c \in 1 .. d.brk /\ Fits(d, c, n)
                 /\ \A j \in Threads, m \in Names, l \in Nat : Lies(h, c, j, m, l) => j = i /\ m = n
                 /\ \A l \in Nat : Lies(d, c, i, n, l) => k = l
      <3>1. CASE k = 1 /\ c = b
        <4>1. \A l \in Nat : Lies(d, c, i, n, l) => l = 1
          BY <1>10, <1>11, <3>1
        <4>2. QED
          BY <1>4, <1>11, <3>1, <4>1 DEF Fits
      <3>2. CASE k >= 2 /\ Lies(h, c, i, n, k - 1)
        <4>1. k - 1 \in Nat
          BY <3>2
        <4>2. c \in 1 .. h.brk /\ Fits(h, c, n)
          BY <3>2, <4>1 DEF HeapOk
        <4>3. \A j \in Threads, m \in Names, l \in Nat : Lies(h, c, j, m, l) => j = i /\ m = n /\ l = k - 1
          BY <3>2, <4>1 DEF HeapOk
        <4>4. ASSUME NEW l \in Nat, Lies(d, c, i, n, l) PROVE k = l
          <5>1. c # b
            BY <1>11, <3>2, <4>1
          <5>2. l >= 2 /\ Lies(h, c, i, n, l - 1) /\ l - 1 \in Nat
            BY <1>10, <4>4, <5>1
          <5>3. l - 1 = k - 1
            BY <4>3, <5>2
          <5>4. QED
            BY <5>3
        <4>5. QED
          BY <1>4, <4>2, <4>3, <4>4 DEF Fits
      <3>3. QED
        BY <1>10, <2>1, <3>1, <3>2
    <2>2. QED
      BY <1>1, <1>4, <1>7, <1>8, <2>1, OneListChanges
  <1>13. ASSUME NEW c \in Nat PROVE InPool(d, c) <=> InPool(h, c) \/ c = b
    <2>1. ASSUME InPool(d, c) PROVE InPool(h, c) \/ c = b
      <3>1. PICK j \in Threads, m \in Names, k \in Nat : Lies(d, c, j, m, k)
        BY <2>1 DEF InPool
      <3>2. CASE j = i /\ m = n
        <4>1. (k = 1 /\ c = b) \/ (k >= 2 /\ Lies(h, c, i, n, k - 1))
          BY <1>10, <3>1, <3>2
        <4>2. QED
          BY <4>1 DEF InPool
      <3>3. CASE j # i \/ m # n
        BY <1>8, <3>1, <3>3 DEF Lies, InPool
      <3>4. QED
        BY <3>2, <3>3
    <2>2. ASSUME InPool(h, c) PROVE InPool(d, c)
      <3>1. PICK j \in Threads, m \in Names, k \in Nat : Lies(h, c, j, m, k)
        BY <2>2 DEF InPool
      <3>2. CASE j = i /\ m = n
        <4>1. k >= 1 /\ k + 1 \in Nat /\ k + 1 >= 2 /\ (k + 1) - 1 = k
          BY <1>9, <3>1, <3>2
        <4>2. Lies(d, c, i, n, k + 1)
          BY <1>10, <3>1, <3>2, <4>1
        <4>3. QED
          BY <4>1, <4>2 DEF InPool
      <3>3. CASE j # i \/ m # n
        BY <1>8, <3>1, <3>3 DEF Lies, InPool
      <3>4. QED
        BY <3>2, <3>3
    <2>3. ASSUME c = b PROVE InPool(d, c)
      <3>1. Lies(d, c, i, n, 1)
        BY <1>10, <2>3
      <3>2. QED
        BY <3>1 DEF InPool
    <2>4. QED
      BY <2>1, <2>2, <2>3
  <1>14. QED
    BY <1>4, <1>8, <1>12, <1>13 DEF d

LEMMA ReadyIs ==
    ASSUME NEW h, HeapOk(h), NEW i \in Threads, NEW size \in Sizes,
           FreeOf(h, i, PoolName(size)) # <<>> \/ CanGrow(h, h.pool[i][PoolName(size)])
    PROVE  LET n == PoolName(size)
               g == Ready(h, i, n, size)
           IN  /\ HeapOk(g) /\ h.brk <= g.brk
               /\ \A b \in 1 .. h.brk : g.block[b] = h.block[b]
               /\ \A b \in Nat : InPool(g, b) <=> InPool(h, b) \/ b \in h.brk + 1 .. g.brk
               /\ FreeOf(g, i, n) # <<>>
               /\ \A j \in Threads : j # i => g.pool[j] = h.pool[j]
  <1>1. CASE FreeOf(h, i, PoolName(size)) = <<>>
    BY <1>1, GrowIs DEF Ready, FreeOf
  <1>2. CASE FreeOf(h, i, PoolName(size)) # <<>>
    <2>1. Ready(h, i, PoolName(size), size) = h
      BY <1>2 DEF Ready, FreeOf
    <2>2. h.brk \in Nat
      BY DEF HeapOk, HeapType
    <2>3. QED
      BY <1>2, <2>1, <2>2
  <1>3. QED
    BY <1>1, <1>2

(***************************************************************************)
(* The invariant.  An object has as many references as holders, and is out *)
(* of the free lists; who destroys or frees a block has it alone; who      *)
(* allocates still has the first block of a list of its own; who makes or  *)
(* locks a weak pointer works on an object that somebody holds.            *)
(***************************************************************************)
Tasks == {"idle", "allocate", "destroy", "free", "new_weak", "take_weak", "lock"}

Shape ==
    /\ HeapOk(heap)
    /\ obj \in [Blocks -> [size : Nat, refcnt : Nat, weak : Storages \cup {Null}]]
    /\ hold \in [Blocks -> SUBSET (Threads \X Nat)]
    /\ pc \in [Threads -> [do : Tasks, b : Nat, size : Nat]]
    /\ weak \in [Threads -> [storage : Storages \cup {Null}, object : Blocks \cup {0}]]
    /\ \A t \in Threads : weak[t] # NoWeak => weak[t].object # 0
    /\ crashed \in {"no", "null pool", "not mine"}

Frees(t, b) == pc[t].do = "free" /\ pc[t].b = b

\* An object that is not there has no holder; one that is has its block for itself.
ObjOk(b) ==
    IF obj[b] = NoObj THEN hold[b] = {}
    ELSE /\ IsFiniteSet(hold[b]) /\ obj[b].refcnt = Cardinality(hold[b])
         /\ obj[b].size \in Sizes /\ Fits(heap, b, PoolName(obj[b].size))
         /\ b <= heap.brk /\ ~InPool(heap, b)
         /\ \A t \in Threads : ~Frees(t, b)

PcOk(t) ==
    /\ pc[t].do = "idle" => pc[t].b = 0
    /\ pc[t].do = "allocate" =>
          /\ pc[t].size \in Sizes
          /\ FreeOf(heap, t, PoolName(pc[t].size)) # <<>>
          /\ pc[t].b = Head(FreeOf(heap, t, PoolName(pc[t].size)))
    /\ pc[t].do = "destroy" => pc[t].b \in Blocks /\ obj[pc[t].b] # NoObj /\ hold[pc[t].b] = {}
    /\ pc[t].do = "free" =>
          /\ pc[t].b \in 1 .. heap.brk /\ obj[pc[t].b] = NoObj /\ ~InPool(heap, pc[t].b)
          /\ pc[t].size \in Sizes /\ Fits(heap, pc[t].b, PoolName(pc[t].size))
    /\ pc[t].do = "lock" => pc[t].b \in Blocks /\ hold[pc[t].b] # {}
    /\ pc[t].do \in {"new_weak", "take_weak"} => pc[t].b \in Blocks /\ Has(t, pc[t].b)

\* One thread destroys an object, and one frees a block.
OneLast ==
    \A t, u \in Threads :
        pc[t].b = pc[u].b /\ pc[t].do \in {"destroy", "free"} /\ pc[u].do \in {"destroy", "free"} => t = u

\* No block is lost.
Placed ==
    \A b \in 1 .. heap.brk : InPool(heap, b) \/ obj[b] # NoObj \/ \E t \in Threads : Frees(t, b)

SharedInv ==
    /\ Shape
    /\ \A b \in Blocks : ObjOk(b)
    /\ \A t \in Threads : PcOk(t)
    /\ OneLast
    /\ Placed

LEMMA NamesAre ==
    ASSUME NEW size \in Sizes
    PROVE  PoolName(size) \in Names /\ size \in Nat \ {0}
  <1>1. size \in 1 .. MaxSize
    BY PoolAssumption
  <1>2. QED
    BY <1>1 DEF Names

LEMMA InitHolds == Init => SharedInv
  <1> SUFFICES ASSUME Init PROVE SharedInv
    OBVIOUS
  <1>1. START_SIZE \in Nat \ {0} /\ MaxBlocks \in Nat
    BY PoolAssumption
  <1>2. \A i \in Threads, n \in Names : FreeOf(heap, i, n) = <<>>
    BY DEF Init, FreeOf, WarmHeap, NewHeap, NoPool
  <1>3. HeapType(heap) /\ heap.brk = 0
    <2>1. NoPool \in Pools /\ [exists |-> TRUE, chunk |-> 2 * START_SIZE, mine |-> {}, free |-> <<>>] \in Pools
      BY <1>1, EmptySeq DEF NoPool, Pools
    <2>2. HeapType(NewHeap(Threads))
      BY <1>1, <2>1 DEF NewHeap, HeapType
    <2>3. HeapType(WarmHeap)
      <3> DEFINE X == [i \in Threads |-> [n \in Names |->
                         IF n[1] = "static" THEN NoPool
                         ELSE [exists |-> TRUE, chunk |-> 2 * START_SIZE, mine |-> {}, free |-> <<>>]]]
                 B == [b \in Blocks |-> 0]
      <3>1. WarmHeap = [NewHeap(Threads) EXCEPT !.pool = X]
        BY DEF WarmHeap
      <3>2. NewHeap(Threads) = [pool |-> [i \in Threads |-> [n \in Names |-> NoPool]], block |-> B, brk |-> 0]
        BY DEF NewHeap
      <3>3. X \in [Threads -> [Names -> Pools]]
        BY <2>1
      <3> HIDE DEF X
      <3>4. WarmHeap = [pool |-> X, block |-> B, brk |-> 0]
        BY <3>1, <3>2
      <3>5. QED
        BY <1>1, <3>3, <3>4 DEF HeapType
    <2>4. QED
      BY <2>2, <2>3 DEF Init, WarmHeap, NewHeap
  <1>4. ASSUME NEW b, NEW i \in Threads, NEW n \in Names, NEW k PROVE ~Lies(heap, b, i, n, k)
    <2>1. FreeOf(heap, i, n) = <<>> /\ DOMAIN <<>> = {}
      BY <1>2
    <2>2. QED
      BY <2>1 DEF Lies
  <1>5. HeapOk(heap)
    <2>1. /\ \A i \in Threads, n \in Names, k \in Nat, b \in Nat :
                Lies(heap, b, i, n, k) => b \in 1 .. heap.brk /\ Fits(heap, b, n)
          /\ \A b \in Nat, i, j \in Threads, n, m \in Names, k, l \in Nat :
                Lies(heap, b, i, n, k) /\ Lies(heap, b, j, m, l) => i = j /\ n = m /\ k = l
      BY <1>4
    <2>2. QED
      BY <1>3, <2>1 DEF HeapOk
  <1>6. Shape
    BY <1>1, <1>5 DEF Shape, Init, NoObj, NoWeak, Idle, Tasks, Blocks
  <1>7. QED
    BY <1>3, <1>6 DEF SharedInv, Init, ObjOk, PcOk, OneLast, Placed, Idle

(***************************************************************************)
(* One lemma for each action.                                              *)
(***************************************************************************)
LEMMA AllocateHolds ==
    ASSUME SharedInv, NEW t \in Threads, NEW size \in Sizes, Allocate(t, size)
    PROVE  SharedInv'
  <1> DEFINE n == PoolName(size)
             L == FreeOf(heap', t, n)
  <1>1. /\ HeapOk(heap)' /\ heap.brk <= heap'.brk
        /\ \A b \in 1 .. heap.brk : heap'.block[b] = heap.block[b]
        /\ \A b \in Nat : InPool(heap', b) <=> InPool(heap, b) \/ b \in heap.brk + 1 .. heap'.brk
        /\ L # <<>>
        /\ \A j \in Threads : j # t => heap'.pool[j] = heap.pool[j]
    <2>1. HeapOk(heap) /\ heap' = Ready(heap, t, n, size)
      BY DEF SharedInv, Shape, Allocate, Instance
    <2>2. FreeOf(heap, t, n) # <<>> \/ CanGrow(heap, heap.pool[t][n])
      BY DEF Allocate, Instance, FreeOf
    <2>3. QED
      BY <2>1, <2>2, ReadyIs
  <1>2. /\ pc' = [pc EXCEPT ![t] = [do |-> "allocate", b |-> Head(L), size |-> size]]
        /\ pc[t] = Idle /\ UNCHANGED <<obj, hold, weak, crashed>>
    BY DEF Allocate, MayCall, Instance, FreeOf
  <1>3. heap.brk \in Nat /\ heap'.brk \in Nat /\ Head(L) \in Nat /\ size \in Nat
    <2>1. HeapType(heap) /\ HeapType(heap') /\ n \in Names
      BY <1>1, NamesAre DEF SharedInv, Shape, HeapOk
    <2>2. L \in Seq(Nat)
      BY <2>1, FreeOfType
    <2>3. QED
      BY <1>1, <2>1, <2>2, NamesAre, HeadTailProperties DEF HeapType
  <1> HIDE DEF L
  <1>4. /\ pc \in [Threads -> [do : Tasks, b : Nat, size : Nat]]
        /\ pc'[t] = [do |-> "allocate", b |-> Head(L), size |-> size]
        /\ \A u \in Threads : u # t => pc'[u] = pc[u]
        /\ pc' \in [Threads -> [do : Tasks, b : Nat, size : Nat]]
    BY <1>2, <1>3 DEF SharedInv, Shape, Tasks
  <1>5. \A b \in Nat : (b \in 1 .. heap.brk /\ ~InPool(heap, b)) => (b \in 1 .. heap'.brk /\ ~InPool(heap', b))
    BY <1>1, <1>3
  <1>6. \A b \in 1 .. heap.brk : \A m : Fits(heap, b, m) => Fits(heap', b, m)
    BY <1>1 DEF Fits
  <1>7. \A u \in Threads : \A b : Frees(u, b)' <=> Frees(u, b)
    BY <1>2, <1>4 DEF Frees, Idle
  <1>8. Shape'
    BY <1>1, <1>2, <1>4 DEF SharedInv, Shape, NoWeak
  <1>9. ASSUME NEW b \in Blocks PROVE ObjOk(b)'
    <2>1. ObjOk(b) /\ b \in Nat /\ b >= 1
      BY DEF SharedInv, Blocks
    <2>2. QED
      BY <1>2, <1>3, <1>5, <1>6, <1>7, <2>1 DEF ObjOk, NoObj
  <1>10. ASSUME NEW u \in Threads PROVE PcOk(u)'
    <2>1. CASE u = t
      BY <1>1, <1>4, <2>1 DEF PcOk, L
    <2>2. CASE u # t
      <3>1. pc'[u] = pc[u] /\ PcOk(u) /\ pc[u].b \in Nat
        BY <1>4, <2>2 DEF SharedInv
      <3>2. \A m : FreeOf(heap', u, m) = FreeOf(heap, u, m)
        BY <1>1, <2>2 DEF FreeOf
      <3>3. QED
        BY <1>2, <1>5, <1>6, <3>1, <3>2 DEF PcOk, Has, NoObj
    <2>3. QED
      BY <2>1, <2>2
  <1>11. OneLast'
    BY <1>4 DEF SharedInv, OneLast
  <1>12. Placed'
    BY <1>1, <1>2, <1>3, <1>7 DEF SharedInv, Placed, NoObj
  <1>13. QED
    BY <1>8, <1>9, <1>10, <1>11, <1>12 DEF SharedInv

LEMMA ConstructHolds ==
    ASSUME SharedInv, NEW t \in Threads, Construct(t)
    PROVE  SharedInv'
  <1> DEFINE b == pc[t].b
             n == PoolName(pc[t].size)
  <1>1. /\ HeapOk(heap) /\ pc[t].do = "allocate" /\ pc[t].size \in Sizes /\ n \in Names
        /\ FreeOf(heap, t, n) # <<>> /\ b = Head(FreeOf(heap, t, n)) /\ b \in Nat
        /\ heap' = Unlinked(heap, t, n, b)
    BY NamesAre DEF SharedInv, Shape, Construct, At, PcOk, Instance
  <1>2. /\ HeapOk(heap)' /\ heap'.brk = heap.brk /\ heap'.block = heap.block
        /\ b \in 1 .. heap.brk /\ Fits(heap, b, n) /\ InPool(heap, b)
        /\ \A c \in Nat : InPool(heap', c) <=> InPool(heap, c) /\ c # b
        /\ \A j \in Threads : j # t => heap'.pool[j] = heap.pool[j]
    BY <1>1, UnlinkIs
  <1>3. /\ b \in Blocks /\ heap.brk \in Nat /\ heap.brk <= MaxBlocks /\ MaxBlocks \in Nat
        /\ \A c, m : Fits(heap', c, m) <=> Fits(heap, c, m)
    BY <1>1, <1>2, PoolAssumption DEF HeapOk, HeapType, Blocks, Fits
  <1>4. /\ obj[b] = NoObj /\ hold[b] = {} /\ \A u \in Threads : ~Frees(u, b)
    <2>1. obj[b] = NoObj /\ hold[b] = {}
      BY <1>2, <1>3 DEF SharedInv, ObjOk
    <2>2. ASSUME NEW u \in Threads, Frees(u, b) PROVE FALSE
      <3>1. PcOk(u) /\ pc[u].do = "free" /\ pc[u].b = b
        BY <2>2 DEF SharedInv, Frees
      <3>2. ~InPool(heap, pc[u].b)
        BY <3>1 DEF PcOk
      <3>3. QED
        BY <1>2, <3>1, <3>2
    <2>3. QED
      BY <2>1, <2>2
  <1>5. /\ obj' = [obj EXCEPT ![b] = [size |-> pc[t].size, refcnt |-> 1, weak |-> Null]]
        /\ hold' = [hold EXCEPT ![b] = {<<t, 1>>}]
        /\ pc' = [pc EXCEPT ![t] = Idle] /\ UNCHANGED <<weak, crashed>>
    BY DEF Construct
  <1> HIDE DEF b, n
  <1>6. /\ obj'[b] = [size |-> pc[t].size, refcnt |-> 1, weak |-> Null]
        /\ hold'[b] = {<<t, 1>>} /\ pc'[t] = Idle
        /\ \A c \in Blocks : c # b => obj'[c] = obj[c] /\ hold'[c] = hold[c]
        /\ \A u \in Threads : u # t => pc'[u] = pc[u]
    BY <1>3, <1>5 DEF SharedInv, Shape
  <1>7. \A u \in Threads : \A c : Frees(u, c)' <=> Frees(u, c)
    BY <1>1, <1>6 DEF Frees, Idle
  <1>8. Shape'
    <2>1. [size |-> pc[t].size, refcnt |-> 1, weak |-> Null] \in [size : Nat, refcnt : Nat, weak : Storages \cup {Null}]
      BY <1>1, NamesAre
    <2>2. obj' \in [Blocks -> [size : Nat, refcnt : Nat, weak : Storages \cup {Null}]]
      BY <1>5, <2>1 DEF SharedInv, Shape
    <2>3. hold' \in [Blocks -> SUBSET (Threads \X Nat)]
      <3>1. {<<t, 1>>} \in SUBSET (Threads \X Nat)
        OBVIOUS
      <3>2. hold \in [Blocks -> SUBSET (Threads \X Nat)]
        BY DEF SharedInv, Shape
      <3>3. QED
        BY <1>5, <3>1, <3>2
    <2>4. pc' \in [Threads -> [do : Tasks, b : Nat, size : Nat]]
      BY <1>5 DEF SharedInv, Shape, Idle, Tasks
    <2>5. QED
      BY <1>2, <1>5, <2>2, <2>3, <2>4 DEF SharedInv, Shape, NoWeak
  <1>9. ASSUME NEW c \in Blocks PROVE ObjOk(c)'
    <2>1. CASE c = b
      <3>1. IsFiniteSet({<<t, 1>>}) /\ Cardinality({<<t, 1>>}) = 1
        BY FS_Singleton
      <3>2. ~InPool(heap', b) /\ b <= heap'.brk /\ Fits(heap', b, n)
        BY <1>2, <1>3
      <3>3. obj'[c].size = pc[t].size /\ obj'[c].refcnt = 1 /\ obj'[c] # NoObj
        BY <1>6, <2>1 DEF NoObj
      <3>4. \A u \in Threads : ~Frees(u, c)'
        BY <1>4, <1>7, <2>1
      <3>5. QED
        BY <1>1, <1>6, <2>1, <3>1, <3>2, <3>3, <3>4 DEF ObjOk, NoObj, n
    <2>2. CASE c # b
      <3>1. ObjOk(c) /\ c \in Nat
        BY DEF SharedInv, Blocks
      <3>2. QED
        BY <1>2, <1>3, <1>6, <1>7, <2>2, <3>1 DEF ObjOk, NoObj
    <2>3. QED
      BY <2>1, <2>2
  <1>10. ASSUME NEW u \in Threads PROVE PcOk(u)'
    <2>1. CASE u = t
      BY <1>6, <2>1 DEF PcOk, Idle
    <2>2. CASE u # t
      <3>1. pc'[u] = pc[u] /\ PcOk(u) /\ pc[u].b \in Nat
        BY <1>6, <2>2 DEF SharedInv, Shape
      <3>2. \A m : FreeOf(heap', u, m) = FreeOf(heap, u, m)
        BY <1>2, <2>2 DEF FreeOf
      <3>3. ASSUME pc[u].do = "free"
            PROVE  obj'[pc[u].b] = NoObj /\ ~InPool(heap', pc[u].b)
        BY <1>2, <1>3, <1>6, <3>1, <3>3 DEF PcOk, Blocks
      <3>4. ASSUME pc[u].do = "destroy"
            PROVE  obj'[pc[u].b] # NoObj /\ hold'[pc[u].b] = {}
        BY <1>4, <1>6, <3>1, <3>4 DEF PcOk, NoObj
      <3>5. ASSUME pc[u].do \in {"new_weak", "take_weak"}
            PROVE  Has(u, pc[u].b)'
        BY <1>4, <1>6, <3>1, <3>5 DEF PcOk, Has
      <3>6. ASSUME pc[u].do = "lock"
            PROVE  hold'[pc[u].b] # {}
        BY <1>4, <1>6, <3>1, <3>6 DEF PcOk
      <3>7. QED
        BY <1>2, <1>3, <3>1, <3>2, <3>3, <3>4, <3>5, <3>6 DEF PcOk, NoObj
    <2>3. QED
      BY <2>1, <2>2
  <1>11. OneLast'
    BY <1>6 DEF SharedInv, OneLast, Idle
  <1>12. Placed'
    <2>1. ASSUME NEW c \in 1 .. heap.brk PROVE InPool(heap', c) \/ obj'[c] # NoObj \/ \E u \in Threads : Frees(u, c)'
      <3>1. c \in Blocks /\ c \in Nat
        BY <1>3 DEF Blocks
      <3>2. CASE c = b
        BY <1>6, <3>2 DEF NoObj
      <3>3. CASE c # b
        BY <1>2, <1>6, <1>7, <3>1, <3>3 DEF SharedInv, Placed
      <3>4. QED
        BY <3>2, <3>3
    <2>2. QED
      BY <1>2, <2>1 DEF Placed, NoObj
  <1>13. QED
    BY <1>8, <1>9, <1>10, <1>11, <1>12 DEF SharedInv

\* The counter goes up: an iptr of anyone to an object that somebody holds.
LEMMA RetainHolds ==
    ASSUME SharedInv, NEW b \in Blocks, hold[b] # {}, NEW h \in (Threads \X Nat) \ hold[b],
           obj' = [obj EXCEPT ![b].refcnt = Retained(@)],
           hold' = [hold EXCEPT ![b] = @ \cup {h}],
           \A u \in Threads : pc'[u] = pc[u] \/ pc'[u] = Idle,
           pc' \in [Threads -> [do : Tasks, b : Nat, size : Nat]],
           \A u \in Threads : \A c : Frees(u, c) => Frees(u, c)',
           UNCHANGED <<heap, weak, crashed>>
    PROVE  SharedInv'
  <1>1. obj[b] # NoObj /\ ObjOk(b)
    BY DEF SharedInv, ObjOk
  <1>2. /\ obj'[b] = [obj[b] EXCEPT !.refcnt = Retained(obj[b].refcnt)]
        /\ hold'[b] = hold[b] \cup {h}
        /\ \A c \in Blocks : c # b => obj'[c] = obj[c] /\ hold'[c] = hold[c]
    BY DEF SharedInv, Shape
  <1>3. /\ obj[b] \in [size : Nat, refcnt : Nat, weak : Storages \cup {Null}]
        /\ obj'[b].refcnt = obj[b].refcnt + 1 /\ obj'[b].size = obj[b].size /\ obj[b].size > 0
    <2>1. obj[b] \in [size : Nat, refcnt : Nat, weak : Storages \cup {Null}]
      BY DEF SharedInv, Shape
    <2>2. obj[b].size > 0
      BY <1>1, NamesAre DEF ObjOk
    <2>3. QED
      BY <1>2, <2>1, <2>2 DEF Retained
  <1>4. \A c \in Blocks : obj'[c] = NoObj <=> obj[c] = NoObj
    BY <1>1, <1>2, <1>3 DEF NoObj
  <1>5. \A u \in Threads : \A c : Frees(u, c)' <=> Frees(u, c)
    BY DEF Frees, Idle
  <1>6. Shape'
    <2>1. obj' \in [Blocks -> [size : Nat, refcnt : Nat, weak : Storages \cup {Null}]]
      <3>1. [obj[b] EXCEPT !.refcnt = Retained(obj[b].refcnt)] \in [size : Nat, refcnt : Nat, weak : Storages \cup {Null}]
        BY <1>3 DEF Retained
      <3>2. QED
        BY <3>1 DEF SharedInv, Shape
    <2>2. hold' \in [Blocks -> SUBSET (Threads \X Nat)]
      BY DEF SharedInv, Shape
    <2>3. QED
      BY <2>1, <2>2 DEF SharedInv, Shape, NoWeak
  <1>7. ASSUME NEW c \in Blocks PROVE ObjOk(c)'
    <2>1. CASE c = b
      <3>1. IsFiniteSet(hold'[b]) /\ Cardinality(hold'[b]) = Cardinality(hold[b]) + 1
        BY <1>1, <1>2, FS_AddElement DEF ObjOk
      <3>2. obj'[b] # NoObj /\ obj'[b].refcnt = Cardinality(hold'[b])
        BY <1>1, <1>3, <1>4, <3>1 DEF ObjOk
      <3>3. QED
        BY <1>1, <1>3, <1>5, <2>1, <3>1, <3>2 DEF ObjOk, NoObj
    <2>2. CASE c # b
      BY <1>2, <1>5, <2>2 DEF SharedInv, ObjOk, NoObj
    <2>3. QED
      BY <2>1, <2>2
  <1>8. ASSUME NEW u \in Threads PROVE PcOk(u)'
    <2>1. CASE pc'[u] = Idle
      BY <2>1 DEF PcOk, Idle
    <2>2. CASE pc'[u] = pc[u]
      <3>1. PcOk(u) /\ HeapType(heap)
        BY DEF SharedInv, Shape, HeapOk
      <3>2. ASSUME pc[u].do = "destroy" PROVE hold'[pc[u].b] = {}
        BY <1>2, <3>1, <3>2 DEF PcOk
      <3>3. ASSUME pc[u].do = "free" PROVE pc[u].b \in Blocks
        BY <3>1, <3>3, PoolAssumption DEF PcOk, HeapType, Blocks
      <3>4. ASSUME NEW c \in Blocks, Has(u, c) PROVE Has(u, c)'
        BY <1>2, <3>4 DEF Has
      <3>5. ASSUME NEW c \in Blocks, hold[c] # {} PROVE hold'[c] # {}
        BY <1>2, <3>5
      <3>6. QED
        BY <1>4, <2>2, <3>1, <3>2, <3>3, <3>4, <3>5 DEF PcOk, NoObj
    <2>3. QED
      BY <2>1, <2>2
  <1>9. OneLast'
    BY DEF SharedInv, OneLast, Idle
  <1>10. Placed'
    <2>1. \A c \in 1 .. heap.brk : c \in Blocks
      <3>1. heap.brk \in Nat /\ heap.brk <= MaxBlocks /\ MaxBlocks \in Nat
        BY PoolAssumption DEF SharedInv, Shape, HeapOk, HeapType
      <3>2. QED
        BY <3>1 DEF Blocks
    <2>2. QED
      BY <1>4, <1>5, <2>1 DEF SharedInv, Placed, NoObj
  <1>11. QED
    BY <1>6, <1>7, <1>8, <1>9, <1>10 DEF SharedInv

LEMMA CopyHolds ==
    ASSUME SharedInv, NEW t \in Threads, NEW b \in Blocks, NEW h \in Iptrs, Copy(t, h, b)
    PROVE  SharedInv'
  <1>1. hold[b] # {} /\ h \in (Threads \X Nat) \ hold[b]
    BY DEF Copy, Has, Iptrs
  <1>2. QED
    BY <1>1, RetainHolds DEF Copy, SharedInv, Shape, Frees

LEMMA ReleaseHolds ==
    ASSUME ~LockRace, SharedInv, NEW t \in Threads, NEW b \in Blocks, NEW h \in Iptrs, Release(t, h, b)
    PROVE  SharedInv'
  <1>1. obj[b] # NoObj /\ ObjOk(b) /\ h \in hold[b] /\ pc[t] = Idle /\ h[1] = t
    BY DEF SharedInv, ObjOk, Release, MayCall
  <1>2. /\ obj' = [obj EXCEPT ![b] = [obj[b] EXCEPT !.refcnt = obj[b].refcnt - 1]]
        /\ hold' = [hold EXCEPT ![b] = hold[b] \ {h}]
        /\ pc' = [pc EXCEPT ![t] = IF IsLast(obj[b].refcnt) THEN Do("destroy", b) ELSE Idle]
        /\ UNCHANGED <<heap, weak, crashed>>
    BY DEF Release
  <1>3. /\ hold'[b] = hold[b] \ {h}
        /\ \A c \in Blocks : c # b => obj'[c] = obj[c] /\ hold'[c] = hold[c]
        /\ \A u \in Threads : u # t => pc'[u] = pc[u]
        /\ pc'[t] = Do("destroy", b) \/ pc'[t] = Idle
    BY <1>2 DEF SharedInv, Shape
  <1>4. /\ obj[b].refcnt = Cardinality(hold[b]) /\ obj[b].size > 0
        /\ IsFiniteSet(hold'[b]) /\ Cardinality(hold'[b]) = Cardinality(hold[b]) - 1
        /\ obj[b].refcnt - 1 \in Nat
    <2>1. IsFiniteSet(hold[b]) /\ obj[b].refcnt = Cardinality(hold[b]) /\ obj[b].size \in Sizes
      BY <1>1 DEF ObjOk
    <2>2. IsFiniteSet(hold'[b]) /\ Cardinality(hold'[b]) = Cardinality(hold[b]) - 1
      BY <1>1, <1>3, <2>1, FS_RemoveElement
    <2>3. Cardinality(hold'[b]) \in Nat
      BY <2>2, FS_CardinalityType
    <2>4. QED
      BY <2>1, <2>2, <2>3, NamesAre
  <1>5. /\ obj[b] \in [size : Nat, refcnt : Nat, weak : Storages \cup {Null}]
        /\ obj'[b] \in [size : Nat, refcnt : Nat, weak : Storages \cup {Null}]
        /\ obj'[b].refcnt = obj[b].refcnt - 1 /\ obj'[b].size = obj[b].size
    <2>1. obj[b] \in [size : Nat, refcnt : Nat, weak : Storages \cup {Null}]
      BY DEF SharedInv, Shape
    <2>2. obj'[b] = [obj[b] EXCEPT !.refcnt = obj[b].refcnt - 1]
      BY <1>2 DEF SharedInv, Shape
    <2>3. QED
      BY <1>4, <2>1, <2>2
  <1>6. \A c \in Blocks : obj'[c] = NoObj <=> obj[c] = NoObj
    BY <1>1, <1>3, <1>4, <1>5 DEF NoObj
  <1>7. \A u \in Threads : \A c : Frees(u, c)' <=> Frees(u, c)
    BY <1>1, <1>3 DEF Frees, Idle, Do
  <1>8. pc'[t] = Do("destroy", b) => hold'[b] = {}
    <2>1. pc'[t] = Do("destroy", b) => obj[b].refcnt = 1
      BY <1>2 DEF IsLast, Idle, Do, SharedInv, Shape
    <2>2. QED
      BY <1>4, <2>1, FS_EmptySet
  <1>9. heap.brk \in Nat /\ heap.brk <= MaxBlocks /\ MaxBlocks \in Nat
    BY PoolAssumption DEF SharedInv, Shape, HeapOk, HeapType
  <1>10. Shape'
    <2>1. obj' \in [Blocks -> [size : Nat, refcnt : Nat, weak : Storages \cup {Null}]]
      BY <1>2, <1>3, <1>5 DEF SharedInv, Shape
    <2>2. hold' \in [Blocks -> SUBSET (Threads \X Nat)]
      BY <1>2 DEF SharedInv, Shape
    <2>3. pc' \in [Threads -> [do : Tasks, b : Nat, size : Nat]]
      <3>1. b \in Nat
        BY <1>9 DEF Blocks
      <3>2. /\ Do("destroy", b) \in [do : Tasks, b : Nat, size : Nat]
            /\ Idle \in [do : Tasks, b : Nat, size : Nat]
        BY <3>1 DEF Do, Idle, Tasks
      <3>3. QED
        BY <1>2, <3>2 DEF SharedInv, Shape
    <2>4. QED
      BY <1>2, <2>1, <2>2, <2>3 DEF SharedInv, Shape, NoWeak
  <1>11. ASSUME NEW c \in Blocks PROVE ObjOk(c)'
    <2>1. CASE c = b
      <3>1. obj'[b] # NoObj /\ obj'[b].refcnt = Cardinality(hold'[b])
        BY <1>1, <1>4, <1>5, <1>6
      <3>2. QED
        BY <1>1, <1>2, <1>4, <1>5, <1>7, <2>1, <3>1 DEF ObjOk, NoObj
    <2>2. CASE c # b
      BY <1>2, <1>3, <1>7, <2>2 DEF SharedInv, ObjOk, NoObj
    <2>3. QED
      BY <2>1, <2>2
  <1>12. ASSUME NEW u \in Threads PROVE PcOk(u)'
    <2>1. CASE u = t
      BY <1>1, <1>3, <1>6, <1>8, <2>1 DEF PcOk, Idle, Do, NoObj
    <2>2. CASE u # t
      <3>1. pc'[u] = pc[u] /\ PcOk(u)
        BY <1>3, <2>2 DEF SharedInv
      <3>2. ASSUME pc[u].do = "destroy" PROVE hold'[pc[u].b] = {}
        BY <1>1, <1>3, <3>1, <3>2 DEF PcOk
      <3>3. ASSUME pc[u].do = "free" PROVE pc[u].b \in Blocks
        BY <1>9, <3>1, <3>3 DEF PcOk, Blocks
      <3>4. ASSUME NEW c \in Blocks, Has(u, c) PROVE Has(u, c)'
        BY <1>1, <1>3, <2>2, <3>4 DEF Has
      <3>5. ASSUME pc[u].do = "lock" PROVE hold'[pc[u].b] # {}
        <4>1. CASE pc[u].b = b
          <5>1. obj[b].refcnt > 1
            BY <3>5, <4>1 DEF Release
          <5>2. Cardinality(hold'[b]) # 0
            BY <1>4, <1>5, <5>1
          <5>3. QED
            BY <4>1, <5>2, FS_EmptySet
        <4>2. CASE pc[u].b # b
          BY <1>3, <3>1, <3>5, <4>2 DEF PcOk
        <4>3. QED
          BY <4>1, <4>2
      <3>6. QED
        BY <1>2, <1>6, <3>1, <3>2, <3>3, <3>4, <3>5 DEF PcOk, NoObj
    <2>3. QED
      BY <2>1, <2>2
  <1>13. OneLast'
    <2>1. ASSUME NEW u \in Threads, u # t, pc[u].do \in {"destroy", "free"} PROVE pc[u].b # b
      BY <1>1, <2>1 DEF SharedInv, PcOk
    <2>2. QED
      BY <1>3, <2>1 DEF SharedInv, OneLast, Idle, Do
  <1>14. Placed'
    <2>1. \A c \in 1 .. heap.brk : c \in Blocks
      BY <1>9 DEF Blocks
    <2>2. QED
      BY <1>2, <1>6, <1>7, <2>1 DEF SharedInv, Placed, NoObj
  <1>15. QED
    BY <1>10, <1>11, <1>12, <1>13, <1>14 DEF SharedInv

LEMMA DestroyHolds ==
    ASSUME SharedInv, NEW t \in Threads, Destroy(t)
    PROVE  SharedInv'
  <1> DEFINE b == pc[t].b
  <1>1. pc[t].do = "destroy" /\ b \in Blocks /\ obj[b] # NoObj /\ hold[b] = {} /\ ObjOk(b)
    BY DEF SharedInv, PcOk, Destroy, At
  <1>2. /\ obj' = [obj EXCEPT ![b] = NoObj]
        /\ pc' = [pc EXCEPT ![t] = [do |-> "free", b |-> b, size |-> obj[b].size]]
        /\ UNCHANGED <<heap, hold, weak, crashed>>
    BY DEF Destroy
  <1> HIDE DEF b
  <1>3. /\ obj'[b] = NoObj /\ \A c \in Blocks : c # b => obj'[c] = obj[c]
        /\ pc'[t] = [do |-> "free", b |-> b, size |-> obj[b].size]
        /\ \A u \in Threads : u # t => pc'[u] = pc[u]
    BY <1>1, <1>2 DEF SharedInv, Shape
  <1>4. /\ obj[b].size \in Sizes /\ obj[b].size \in Nat /\ Fits(heap, b, PoolName(obj[b].size))
        /\ b \in 1 .. heap.brk /\ ~InPool(heap, b) /\ \A u \in Threads : ~Frees(u, b)
    <2>1. heap.brk \in Nat /\ MaxBlocks \in Nat
      BY PoolAssumption DEF SharedInv, Shape, HeapOk, HeapType
    <2>2. QED
      BY <1>1, <2>1, NamesAre DEF ObjOk, Blocks
  <1>5. heap.brk \in Nat /\ heap.brk <= MaxBlocks /\ MaxBlocks \in Nat
    BY PoolAssumption DEF SharedInv, Shape, HeapOk, HeapType
  <1>6. Shape'
    <2>1. obj' \in [Blocks -> [size : Nat, refcnt : Nat, weak : Storages \cup {Null}]]
      BY <1>1, <1>2 DEF SharedInv, Shape, NoObj
    <2>2. pc' \in [Threads -> [do : Tasks, b : Nat, size : Nat]]
      <3>1. [do |-> "free", b |-> b, size |-> obj[b].size] \in [do : Tasks, b : Nat, size : Nat]
        BY <1>4, <1>5 DEF Tasks
      <3>2. QED
        BY <1>2, <3>1 DEF SharedInv, Shape
    <2>3. QED
      BY <1>2, <2>1, <2>2 DEF SharedInv, Shape, NoWeak
  <1>7. ASSUME NEW c \in Blocks PROVE ObjOk(c)'
    <2>1. CASE c = b
      BY <1>1, <1>2, <1>3, <2>1 DEF ObjOk, NoObj
    <2>2. CASE c # b
      <3>1. ObjOk(c) /\ obj'[c] = obj[c]
        BY <1>3, <2>2 DEF SharedInv
      <3>2. \A u \in Threads : Frees(u, c)' => Frees(u, c)
        BY <1>3, <2>2 DEF Frees
      <3>3. QED
        BY <1>2, <3>1, <3>2 DEF ObjOk, NoObj
    <2>3. QED
      BY <2>1, <2>2
  <1>8. ASSUME NEW u \in Threads PROVE PcOk(u)'
    <2>1. CASE u = t
      BY <1>2, <1>3, <1>4, <2>1 DEF PcOk, NoObj
    <2>2. CASE u # t
      <3>1. pc'[u] = pc[u] /\ PcOk(u)
        BY <1>3, <2>2 DEF SharedInv
      <3>2. ASSUME pc[u].do = "destroy" PROVE obj'[pc[u].b] # NoObj
        <4>1. pc[u].b # b
          BY <1>1, <2>2, <3>2 DEF SharedInv, OneLast, b
        <4>2. QED
          BY <1>3, <3>1, <3>2, <4>1 DEF PcOk
      <3>3. ASSUME pc[u].do = "free" PROVE obj'[pc[u].b] = NoObj
        BY <1>3, <1>5, <3>1, <3>3 DEF PcOk, Blocks
      <3>4. QED
        BY <1>2, <3>1, <3>2, <3>3 DEF PcOk, NoObj, Has
    <2>3. QED
      BY <2>1, <2>2
  <1>9. OneLast'
    BY <1>1, <1>3 DEF SharedInv, OneLast, b
  <1>10. Placed'
    <2>1. ASSUME NEW c \in 1 .. heap.brk PROVE InPool(heap, c) \/ obj'[c] # NoObj \/ \E u \in Threads : Frees(u, c)'
      <3>1. CASE c = b
        BY <1>3, <3>1 DEF Frees
      <3>2. CASE c # b
        <4>1. c \in Blocks
          BY <1>5 DEF Blocks
        <4>2. \A u \in Threads : Frees(u, c) => Frees(u, c)'
          BY <1>1, <1>3 DEF Frees
        <4>3. QED
          BY <1>3, <3>2, <4>1, <4>2 DEF SharedInv, Placed
      <3>3. QED
        BY <3>1, <3>2
    <2>2. QED
      BY <1>2, <2>1 DEF Placed, NoObj
  <1>11. QED
    BY <1>6, <1>7, <1>8, <1>9, <1>10 DEF SharedInv

LEMMA FreeHolds ==
    ASSUME SharedInv, NEW t \in Threads, Free(t)
    PROVE  SharedInv'
  <1> DEFINE b == pc[t].b
             n == PoolName(pc[t].size)
  <1>1. /\ pc[t].do = "free" /\ b \in 1 .. heap.brk /\ obj[b] = NoObj /\ ~InPool(heap, b)
        /\ pc[t].size \in Sizes /\ Fits(heap, b, n) /\ n \in Names /\ HeapOk(heap)
        /\ UNCHANGED <<obj, hold, weak>>
    BY NamesAre DEF SharedInv, Shape, PcOk, Free, At
  <1>2. heap.brk \in Nat /\ heap.brk <= MaxBlocks /\ MaxBlocks \in Nat /\ \A c \in 1 .. heap.brk : c \in Blocks
    BY <1>1, PoolAssumption DEF HeapOk, HeapType, Blocks
  <1>3. CASE UNCHANGED <<heap, pc>> /\ crashed' \in {"null pool", "not mine"}
    <2>1. Shape' /\ OneLast' /\ Placed'
      BY <1>1, <1>3 DEF SharedInv, Shape, OneLast, Placed, Frees, NoWeak, NoObj
    <2>2. ASSUME NEW c \in Blocks PROVE ObjOk(c)'
      BY <1>1, <1>3 DEF SharedInv, ObjOk, Frees, NoObj
    <2>3. ASSUME NEW u \in Threads PROVE PcOk(u)'
      BY <1>1, <1>3 DEF SharedInv, PcOk, Has, NoObj
    <2>4. QED
      BY <2>1, <2>2, <2>3 DEF SharedInv
  <1>4. CASE heap' = deallocate(heap, t, n, b) /\ pc' = [pc EXCEPT ![t] = Idle] /\ crashed' = crashed
    <2>1. /\ HeapOk(heap)' /\ heap'.brk = heap.brk /\ heap'.block = heap.block
          /\ \A c \in Nat : InPool(heap', c) <=> InPool(heap, c) \/ c = b
          /\ \A j \in Threads : j # t => heap'.pool[j] = heap.pool[j]
      BY <1>1, <1>4, DeallocIs
    <2>2. \A c, m : Fits(heap', c, m) <=> Fits(heap, c, m)
      BY <2>1 DEF Fits
    <2> HIDE DEF b, n
    <2>3. pc'[t] = Idle /\ \A u \in Threads : u # t => pc'[u] = pc[u]
      BY <1>4 DEF SharedInv, Shape
    <2>4. \A u \in Threads : \A c : Frees(u, c)' <=> Frees(u, c) /\ u # t
      BY <1>1, <2>3 DEF Frees, Idle
    <2>5. \A u \in Threads : u # t /\ pc[u].do \in {"destroy", "free"} => pc[u].b # b
      BY <1>1 DEF SharedInv, OneLast, b
    <2>6. Shape'
      <3>1. pc' \in [Threads -> [do : Tasks, b : Nat, size : Nat]]
        BY <1>4 DEF SharedInv, Shape, Tasks, Idle
      <3>2. QED
        BY <1>1, <1>4, <2>1, <3>1 DEF SharedInv, Shape, NoWeak
    <2>7. ASSUME NEW c \in Blocks PROVE ObjOk(c)'
      <3>1. ObjOk(c) /\ c \in Nat
        BY DEF SharedInv, Blocks
      <3>2. c = b => obj[c] = NoObj
        BY <1>1
      <3>3. QED
        BY <1>1, <2>1, <2>2, <2>4, <3>1, <3>2 DEF ObjOk, NoObj
    <2>8. ASSUME NEW u \in Threads PROVE PcOk(u)'
      <3>1. CASE u = t
        BY <2>3, <3>1 DEF PcOk, Idle
      <3>2. CASE u # t
        <4>1. pc'[u] = pc[u] /\ PcOk(u) /\ pc[u].b \in Nat
          BY <2>3, <3>2 DEF SharedInv, Shape
        <4>2. \A m : FreeOf(heap', u, m) = FreeOf(heap, u, m)
          BY <2>1, <3>2 DEF FreeOf
        <4>3. ASSUME pc[u].do = "free" PROVE ~InPool(heap', pc[u].b)
          BY <2>1, <2>5, <3>2, <4>1, <4>3 DEF PcOk
        <4>4. QED
          BY <1>1, <2>1, <2>2, <4>1, <4>2, <4>3 DEF PcOk, Has, NoObj
      <3>3. QED
        BY <3>1, <3>2
    <2>9. OneLast'
      BY <2>3 DEF SharedInv, OneLast, Idle
    <2>10. Placed'
      <3>1. ASSUME NEW c \in 1 .. heap.brk PROVE InPool(heap', c) \/ obj[c] # NoObj \/ \E u \in Threads : Frees(u, c)'
        <4>1. c \in Nat
          BY <1>2
        <4>2. CASE c = b
          BY <2>1, <4>1, <4>2
        <4>3. CASE c # b
          <5>1. ~Frees(t, c)
            BY <4>3 DEF Frees, b
          <5>2. QED
            BY <2>1, <2>4, <4>1, <5>1 DEF SharedInv, Placed
        <4>4. QED
          BY <4>2, <4>3
      <3>2. QED
        BY <1>1, <2>1, <3>1 DEF Placed, NoObj
    <2>11. QED
      BY <2>6, <2>7, <2>8, <2>9, <2>10 DEF SharedInv
  <1>5. deallocate_fails(heap, t, n, b) \in {"null pool", "not mine", "no"}
    BY DEF deallocate_fails
  <1>6. QED
    BY <1>3, <1>4, <1>5 DEF Free, Instance

\* A thread goes on with a weak pointer: pools, objects and holders stay, and the next
\* task is one of those, or none.
LEMMA WeakStepHolds ==
    ASSUME SharedInv, NEW t \in Threads, NEW task \in [do : Tasks, b : Nat, size : Nat],
           pc[t].do \notin {"allocate", "destroy", "free"},
           task.do \in {"idle", "new_weak", "take_weak", "lock"},
           IF task.do = "idle" THEN task.b = 0 ELSE task.b \in Blocks,
           task.do = "lock" => hold[task.b] # {},
           task.do \in {"new_weak", "take_weak"} => Has(t, task.b),
           pc' = [pc EXCEPT ![t] = task],
           weak' \in [Threads -> [storage : Storages \cup {Null}, object : Blocks \cup {0}]],
           \A u \in Threads : weak'[u] # NoWeak => weak'[u].object # 0,
           obj' \in [Blocks -> [size : Nat, refcnt : Nat, weak : Storages \cup {Null}]],
           \A c \in Blocks : obj'[c].size = obj[c].size /\ obj'[c].refcnt = obj[c].refcnt,
           \A c \in Blocks : obj[c] = NoObj <=> obj'[c] = NoObj,
           UNCHANGED <<heap, hold, crashed>>
    PROVE  SharedInv'
  <1>1. pc'[t] = task /\ \A u \in Threads : u # t => pc'[u] = pc[u]
    BY DEF SharedInv, Shape
  <1>2. heap.brk \in Nat /\ heap.brk <= MaxBlocks /\ MaxBlocks \in Nat
    BY PoolAssumption DEF SharedInv, Shape, HeapOk, HeapType
  <1>3. \A c \in 1 .. heap.brk : c \in Blocks
    BY <1>2 DEF Blocks
  <1>4. \A u \in Threads : \A c : Frees(u, c)' <=> Frees(u, c)
    BY <1>1 DEF Frees
  <1>5. Shape'
    <2>1. pc' \in [Threads -> [do : Tasks, b : Nat, size : Nat]]
      BY DEF SharedInv, Shape
    <2>2. QED
      BY <2>1 DEF SharedInv, Shape, NoWeak
  <1>6. ASSUME NEW c \in Blocks PROVE ObjOk(c)'
    BY <1>4 DEF SharedInv, ObjOk, NoObj
  <1>7. ASSUME NEW u \in Threads PROVE PcOk(u)'
    <2>1. CASE u = t
      BY <1>1, <2>1 DEF PcOk, Has
    <2>2. CASE u # t
      <3>1. pc'[u] = pc[u] /\ PcOk(u)
        BY <1>1, <2>2 DEF SharedInv
      <3>2. pc[u].do = "free" => pc[u].b \in Blocks
        BY <1>3, <3>1 DEF PcOk
      <3>3. QED
        BY <3>1, <3>2 DEF PcOk, Has, NoObj
    <2>3. QED
      BY <2>1, <2>2
  <1>8. OneLast'
    BY <1>1 DEF SharedInv, OneLast
  <1>9. Placed'
    BY <1>3, <1>4 DEF SharedInv, Placed, NoObj
  <1>10. QED
    BY <1>5, <1>6, <1>7, <1>8, <1>9 DEF SharedInv

\* A step that leaves the objects alone.
LEMMA SameObjects ==
    ASSUME SharedInv, obj' = obj
    PROVE  /\ obj' \in [Blocks -> [size : Nat, refcnt : Nat, weak : Storages \cup {Null}]]
           /\ \A c \in Blocks : obj'[c].size = obj[c].size /\ obj'[c].refcnt = obj[c].refcnt
           /\ \A c \in Blocks : obj[c] = NoObj <=> obj'[c] = NoObj
  BY DEF SharedInv, Shape, NoObj

LEMMA BlocksAreNat == Blocks \subseteq Nat /\ 0 \notin Blocks
  BY PoolAssumption DEF Blocks

LEMMA MakeWeakHolds ==
    ASSUME SharedInv, NEW t \in Threads, NEW b \in Blocks, MakeWeak(t, b)
    PROVE  SharedInv'
  <1> DEFINE task == Do(IF obj[b].weak = Null THEN "new_weak" ELSE "take_weak", b)
  <1>1. /\ pc[t].do = "idle" /\ Has(t, b) /\ UNCHANGED <<heap, obj, hold, weak, crashed>>
        /\ pc' = [pc EXCEPT ![t] = task]
    BY DEF MakeWeak, MayCall, Idle
  <1>2. /\ task \in [do : Tasks, b : Nat, size : Nat] /\ task.do \in {"new_weak", "take_weak"} /\ task.b = b
    BY BlocksAreNat DEF Do, Tasks
  <1> HIDE DEF task
  <1>3. /\ weak' \in [Threads -> [storage : Storages \cup {Null}, object : Blocks \cup {0}]]
        /\ \A u \in Threads : weak'[u] # NoWeak => weak'[u].object # 0
    BY <1>1 DEF SharedInv, Shape, NoWeak
  <1>4. QED
    BY <1>1, <1>2, <1>3, SameObjects, WeakStepHolds

LEMMA NewWeakHolds ==
    ASSUME SharedInv, NEW t \in Threads, NewWeak(t)
    PROVE  SharedInv'
  <1> DEFINE task == [pc[t] EXCEPT !.do = "take_weak"]
  <1>1. PICK w \in Storages : obj' = [obj EXCEPT ![pc[t].b] = [obj[pc[t].b] EXCEPT !.weak = w]]
    BY DEF NewWeak
  <1>2. /\ pc[t].do = "new_weak" /\ pc[t].b \in Blocks /\ Has(t, pc[t].b)
        /\ UNCHANGED <<heap, hold, weak, crashed>> /\ pc' = [pc EXCEPT ![t] = task]
    BY DEF NewWeak, At, SharedInv, PcOk
  <1>3. task \in [do : Tasks, b : Nat, size : Nat] /\ task.do = "take_weak" /\ task.b = pc[t].b
    BY DEF SharedInv, Shape, Tasks
  <1> HIDE DEF task
  <1>4. /\ weak' \in [Threads -> [storage : Storages \cup {Null}, object : Blocks \cup {0}]]
        /\ \A u \in Threads : weak'[u] # NoWeak => weak'[u].object # 0
    BY <1>2 DEF SharedInv, Shape, NoWeak
  <1>5. /\ obj \in [Blocks -> [size : Nat, refcnt : Nat, weak : Storages \cup {Null}]]
        /\ obj[pc[t].b] # NoObj /\ obj[pc[t].b].size # 0
    <2>1. obj \in [Blocks -> [size : Nat, refcnt : Nat, weak : Storages \cup {Null}]]
      BY DEF SharedInv, Shape
    <2>2. ObjOk(pc[t].b) /\ hold[pc[t].b] # {}
      BY <1>2 DEF SharedInv, Has
    <2>3. QED
      BY <2>1, <2>2, NamesAre DEF ObjOk
  <1>6. /\ obj' \in [Blocks -> [size : Nat, refcnt : Nat, weak : Storages \cup {Null}]]
        /\ \A c \in Blocks : obj'[c].size = obj[c].size /\ obj'[c].refcnt = obj[c].refcnt
        /\ \A c \in Blocks : c # pc[t].b => obj'[c] = obj[c]
    <2>1. [obj[pc[t].b] EXCEPT !.weak = w] \in [size : Nat, refcnt : Nat, weak : Storages \cup {Null}]
      BY <1>2, <1>5
    <2>2. QED
      BY <1>1, <1>2, <1>5, <2>1
  <1>7. \A c \in Blocks : obj[c] = NoObj <=> obj'[c] = NoObj
    BY <1>2, <1>5, <1>6 DEF NoObj
  <1>8. QED
    BY <1>2, <1>3, <1>4, <1>6, <1>7, WeakStepHolds

LEMMA TakeWeakHolds ==
    ASSUME SharedInv, NEW t \in Threads, TakeWeak(t)
    PROVE  SharedInv'
  <1>1. /\ pc[t].do = "take_weak" /\ pc[t].b \in Blocks /\ UNCHANGED <<heap, obj, hold, crashed>>
        /\ pc' = [pc EXCEPT ![t] = Idle]
        /\ weak' = [weak EXCEPT ![t] = [storage |-> obj[pc[t].b].weak, object |-> pc[t].b]]
    BY DEF TakeWeak, At, SharedInv, PcOk
  <1>2. Idle \in [do : Tasks, b : Nat, size : Nat] /\ Idle.do = "idle" /\ Idle.b = 0
    BY DEF Idle, Tasks
  <1>3. /\ weak' \in [Threads -> [storage : Storages \cup {Null}, object : Blocks \cup {0}]]
        /\ \A u \in Threads : weak'[u] # NoWeak => weak'[u].object # 0
    <2>1. obj[pc[t].b].weak \in Storages \cup {Null} /\ pc[t].b # 0
      BY <1>1, BlocksAreNat DEF SharedInv, Shape
    <2>2. QED
      BY <1>1, <2>1 DEF SharedInv, Shape, NoWeak
  <1>4. QED
    BY <1>1, <1>2, <1>3, SameObjects, WeakStepHolds

LEMMA ResetWeakHolds ==
    ASSUME SharedInv, NEW t \in Threads, ResetWeak(t)
    PROVE  SharedInv'
  <1>1. /\ pc[t] = Idle /\ UNCHANGED <<heap, obj, hold, pc, crashed>> /\ weak' = [weak EXCEPT ![t] = NoWeak]
    BY DEF ResetWeak, MayCall
  <1>2. Idle \in [do : Tasks, b : Nat, size : Nat] /\ Idle.do = "idle" /\ Idle.b = 0
    BY DEF Idle, Tasks
  <1>3. pc' = [pc EXCEPT ![t] = Idle]
    BY <1>1 DEF SharedInv, Shape
  <1>4. /\ weak' \in [Threads -> [storage : Storages \cup {Null}, object : Blocks \cup {0}]]
        /\ \A u \in Threads : weak'[u] # NoWeak => weak'[u].object # 0
    BY <1>1 DEF SharedInv, Shape, NoWeak
  <1>5. QED
    BY <1>1, <1>2, <1>3, <1>4, SameObjects, WeakStepHolds

LEMMA LockTestsHolds ==
    ASSUME ~LockRace, SharedInv, NEW t \in Threads, LockTests(t)
    PROVE  SharedInv'
  <1> DEFINE task == Do("lock", weak[t].object)
  <1>1. /\ pc[t].do = "idle" /\ UNCHANGED <<heap, obj, hold, weak, crashed>>
        /\ pc' = [pc EXCEPT ![t] = task] /\ weak[t] # NoWeak /\ hold[weak[t].object] # {}
    BY DEF LockTests, MayCall, Idle
  <1>2. /\ weak' \in [Threads -> [storage : Storages \cup {Null}, object : Blocks \cup {0}]]
        /\ \A u \in Threads : weak'[u] # NoWeak => weak'[u].object # 0
    BY <1>1 DEF SharedInv, Shape, NoWeak
  <1>3. /\ task \in [do : Tasks, b : Nat, size : Nat] /\ task.do = "lock" /\ task.b = weak[t].object
        /\ task.b \in Blocks
    BY <1>1, BlocksAreNat DEF SharedInv, Shape, Do, Tasks
  <1> HIDE DEF task
  <1>4. QED
    BY <1>1, <1>2, <1>3, SameObjects, WeakStepHolds

LEMMA LockTakesHolds ==
    ASSUME SharedInv, NEW t \in Threads, LockTakes(t)
    PROVE  SharedInv'
  <1> DEFINE b == pc[t].b
  <1>1. pc[t].do = "lock" /\ b \in Blocks /\ hold[b] # {} /\ UNCHANGED <<heap, weak>>
    BY DEF LockTakes, At, SharedInv, PcOk
  <1>2. obj[b] # NoObj
    BY <1>1 DEF SharedInv, ObjOk
  <1>3. /\ obj' = [obj EXCEPT ![b].refcnt = Retained(@)] /\ pc' = [pc EXCEPT ![t] = Idle]
        /\ UNCHANGED crashed
        /\ \E h \in Iptrs \ hold[b] : hold' = [hold EXCEPT ![b] = @ \cup {h}]
    BY <1>2 DEF LockTakes
  <1>4. PICK h \in Iptrs \ hold[b] : hold' = [hold EXCEPT ![b] = @ \cup {h}]
    BY <1>3
  <1>5. h \in (Threads \X Nat) \ hold[b]
    BY DEF Iptrs
  <1> HIDE DEF b
  <1>6. /\ pc' \in [Threads -> [do : Tasks, b : Nat, size : Nat]]
        /\ pc'[t] = Idle /\ \A u \in Threads : u # t => pc'[u] = pc[u]
    BY <1>3 DEF SharedInv, Shape, Idle, Tasks
  <1>7. \A u \in Threads : \A c : Frees(u, c) => Frees(u, c)'
    BY <1>1, <1>6 DEF Frees
  <1>8. QED
    BY <1>1, <1>3, <1>4, <1>5, <1>6, <1>7, RetainHolds

LEMMA NextHolds ==
    ASSUME ~LockRace, SharedInv, [Next]_vars
    PROVE  SharedInv'
  <1>1. CASE UNCHANGED vars
    <2>1. Shape' /\ OneLast' /\ Placed'
      BY <1>1 DEF vars, SharedInv, Shape, OneLast, Placed, Frees, NoWeak, NoObj
    <2>2. ASSUME NEW c \in Blocks PROVE ObjOk(c)'
      BY <1>1 DEF vars, SharedInv, ObjOk, Frees, NoObj
    <2>3. ASSUME NEW u \in Threads PROVE PcOk(u)'
      BY <1>1 DEF vars, SharedInv, PcOk, Has, NoObj
    <2>4. QED
      BY <2>1, <2>2, <2>3 DEF SharedInv
  <1>2. ASSUME NEW t \in Threads, Step(t) PROVE SharedInv'
    BY <1>2, ConstructHolds, DestroyHolds, FreeHolds, NewWeakHolds, TakeWeakHolds, LockTakesHolds DEF Step
  <1>3. ASSUME NEW t \in Threads, Call(t) PROVE SharedInv'
    BY <1>3, AllocateHolds, MakeWeakHolds, CopyHolds, ReleaseHolds, ResetWeakHolds, LockTestsHolds DEF Call
  <1>4. QED
    BY <1>1, <1>2, <1>3 DEF Next

(***************************************************************************)
(* What the invariant says.                                                *)
(***************************************************************************)
\* What a thread is about to take is the first block of a list of its own.
LEMMA AllocatesFree ==
    ASSUME SharedInv, NEW t \in Threads, pc[t].do = "allocate"
    PROVE  /\ pc[t].size \in Sizes /\ pc[t].b \in 1 .. heap.brk
           /\ InPool(heap, pc[t].b) /\ Fits(heap, pc[t].b, PoolName(pc[t].size))
  <1>1. /\ HeapOk(heap) /\ pc[t].size \in Sizes /\ PoolName(pc[t].size) \in Names
        /\ FreeOf(heap, t, PoolName(pc[t].size)) # <<>>
        /\ pc[t].b = Head(FreeOf(heap, t, PoolName(pc[t].size)))
    BY NamesAre DEF SharedInv, Shape, PcOk
  <1>2. QED
    BY <1>1, UnlinkIs

LEMMA InvHeld == SharedInv => HeldIsAlive
  <1> SUFFICES ASSUME SharedInv, NEW b \in Blocks, hold[b] # {}
               PROVE  /\ obj[b] # NoObj
                      /\ \A t \in Threads : pc[t].b = b => pc[t].do \notin {"destroy", "free", "allocate"}
    BY DEF HeldIsAlive
  <1>1. obj[b] # NoObj /\ ObjOk(b)
    BY DEF SharedInv, ObjOk
  <1>2. ASSUME NEW t \in Threads, pc[t].b = b, pc[t].do = "allocate" PROVE FALSE
    BY <1>1, <1>2, AllocatesFree DEF ObjOk
  <1>3. ASSUME NEW t \in Threads, pc[t].b = b, pc[t].do \in {"destroy", "free"} PROVE FALSE
    BY <1>1, <1>3 DEF SharedInv, PcOk
  <1>4. QED
    BY <1>1, <1>2, <1>3

LEMMA InvFits == SharedInv => BlockFits
  <1> SUFFICES ASSUME SharedInv PROVE BlockFits
    OBVIOUS
  <1>1. ASSUME NEW b \in Blocks, obj[b] # NoObj PROVE obj[b].size <= heap.block[b]
    BY <1>1 DEF SharedInv, ObjOk, Fits
  <1>2. ASSUME NEW t \in Threads, pc[t].do = "allocate" PROVE pc[t].size <= heap.block[pc[t].b]
    BY <1>2, AllocatesFree DEF Fits
  <1>3. QED
    BY <1>1, <1>2 DEF BlockFits

LEMMA InvType == SharedInv => TypeOK
  <1> SUFFICES ASSUME SharedInv PROVE TypeOK
    OBVIOUS
  <1>1. /\ HeapType(heap) /\ HeapOk(heap) /\ heap.brk \in 0 .. MaxBlocks
        /\ heap.brk \in Nat /\ heap.brk <= MaxBlocks /\ MaxBlocks \in Nat
    <2>1. HeapType(heap) /\ HeapOk(heap) /\ MaxBlocks \in Nat
      BY PoolAssumption DEF SharedInv, Shape, HeapOk
    <2>2. heap.brk \in Nat /\ heap.brk <= MaxBlocks
      BY <2>1 DEF HeapType
    <2>3. QED
      BY <2>1, <2>2
  <1>2. ASSUME NEW i \in Threads, NEW n \in Names PROVE heap.pool[i][n].free \in Seq(1 .. heap.brk)
    <2>1. FreeOf(heap, i, n) \in Seq(Nat)
      BY <1>1, FreeOfType
    <2>2. ASSUME NEW k \in 1 .. Len(FreeOf(heap, i, n)) PROVE FreeOf(heap, i, n)[k] \in 1 .. heap.brk
      <3>1. FreeOf(heap, i, n)[k] \in Nat /\ k \in Nat /\ k \in DOMAIN FreeOf(heap, i, n)
        BY <2>1, LenProperties
      <3>2. Lies(heap, FreeOf(heap, i, n)[k], i, n, k)
        BY <3>1 DEF Lies
      <3>3. QED
        BY <1>1, <3>1, <3>2 DEF HeapOk
    <2>3. FreeOf(heap, i, n) \in Seq(1 .. heap.brk)
      <3> DEFINE L == FreeOf(heap, i, n)
      <3>1. Len(L) \in Nat /\ L = [k \in 1 .. Len(L) |-> L[k]]
        BY <2>1, LenProperties
      <3>2. [k \in 1 .. Len(L) |-> L[k]] \in [1 .. Len(L) -> 1 .. heap.brk]
        BY <2>2
      <3> HIDE DEF L
      <3>3. L \in [1 .. Len(L) -> 1 .. heap.brk]
        BY <3>1, <3>2
      <3>4. L \in Seq(1 .. heap.brk)
        BY <3>1, <3>3, SeqDef
      <3>5. QED
        BY <3>4 DEF L
    <2>4. QED
      BY <2>3 DEF FreeOf
  <1>3. ASSUME NEW b \in Blocks PROVE obj[b].size \in Sizes \cup {0} /\ obj[b].weak \in Storages \cup {Null}
    <2>1. obj[b] \in [size : Nat, refcnt : Nat, weak : Storages \cup {Null}] /\ ObjOk(b)
      BY DEF SharedInv, Shape
    <2>2. obj[b].weak \in Storages \cup {Null}
      BY <2>1
    <2>3. obj[b].size \in Sizes \cup {0}
      BY <2>1 DEF ObjOk, NoObj
    <2>4. QED
      BY <2>2, <2>3
  <1>4. ASSUME NEW t \in Threads PROVE pc[t].b \in 0 .. MaxBlocks /\ weak[t].storage \in Storages \cup {Null}
    <2>1. PcOk(t) /\ pc[t].do \in Tasks /\ pc[t].b \in Nat /\ weak[t].storage \in Storages \cup {Null}
      BY DEF SharedInv, Shape
    <2>2. CASE pc[t].do = "allocate"
      BY <1>1, <2>1, <2>2, AllocatesFree
    <2>3. CASE pc[t].do = "free"
      BY <1>1, <2>1, <2>3 DEF PcOk
    <2>4. CASE pc[t].do \notin {"allocate", "free"}
      BY <2>1, <2>4, PoolAssumption DEF PcOk, Tasks, Blocks
    <2>5. QED
      BY <2>1, <2>2, <2>3, <2>4
  <1>5. QED
    BY <1>1, <1>2, <1>3, <1>4 DEF TypeOK, SharedInv, Shape

LEMMA FreeAtIs ==
    ASSUME HeapType(heap), NEW b, NEW x
    PROVE  x \in FreeAt(b) <=> \E i \in Threads, n \in Names, k \in Nat : Lies(heap, b, i, n, k) /\ x = <<i, n, k>>
  <1>1. x \in FreeAt(b) <=> \E i \in Threads, n \in Names : \E k \in InFree(i, n, b) : x = <<i, n, k>>
    <2> DEFINE P(i, n) == {<<i, n, k>> : k \in InFree(i, n, b)}
    <2>1. FreeAt(b) = UNION {P(i, n) : i \in Threads, n \in Names}
      BY DEF FreeAt
    <2>2. \A i, n : x \in P(i, n) <=> \E k \in InFree(i, n, b) : x = <<i, n, k>>
      OBVIOUS
    <2> HIDE DEF P
    <2>3. x \in UNION {P(i, n) : i \in Threads, n \in Names} <=> \E i \in Threads, n \in Names : x \in P(i, n)
      OBVIOUS
    <2>4. QED
      BY <2>1, <2>2, <2>3
  <1>2. \A i \in Threads, n \in Names : \A k : k \in InFree(i, n, b) <=> k \in Nat /\ Lies(heap, b, i, n, k)
    BY FreeOfType DEF InFree, Lies, FreeOf
  <1>3. QED
    BY <1>1, <1>2

LEMMA InvOnce == SharedInv => BlocksOnce
  <1> SUFFICES ASSUME SharedInv, NEW b \in 1 .. heap.brk
               PROVE  Cardinality(FreeAt(b)) + (IF obj[b] = NoObj THEN 0 ELSE 1)
                        + Cardinality({t \in Threads : pc[t].do = "free" /\ pc[t].b = b}) = 1
    BY InvType DEF BlocksOnce
  <1> DEFINE F == {t \in Threads : pc[t].do = "free" /\ pc[t].b = b}
  <1>1. HeapOk(heap) /\ HeapType(heap) /\ b \in Nat /\ b \in Blocks
    <2>1. HeapOk(heap) /\ HeapType(heap) /\ MaxBlocks \in Nat
      BY PoolAssumption DEF SharedInv, Shape, HeapOk
    <2>2. heap.brk \in Nat /\ heap.brk <= MaxBlocks
      BY <2>1 DEF HeapType
    <2>3. QED
      BY <2>1, <2>2 DEF Blocks
  <1>2. \A t : t \in F <=> t \in Threads /\ Frees(t, b)
    BY DEF Frees
  <1>3. ~InPool(heap, b) => FreeAt(b) = {}
    BY <1>1, FreeAtIs DEF InPool
  <1>4. Cardinality({}) = 0
    BY FS_EmptySet
  <1>5. CASE InPool(heap, b)
    <2>1. PICK i \in Threads, n \in Names, k \in Nat : Lies(heap, b, i, n, k)
      BY <1>5 DEF InPool
    <2>2. \A x : x \in FreeAt(b) <=> x = <<i, n, k>>
      BY <1>1, <2>1, FreeAtIs DEF HeapOk
    <2>3. FreeAt(b) = {<<i, n, k>>}
      BY <2>2
    <2>4. Cardinality(FreeAt(b)) = 1
      BY <2>3, FS_Singleton
    <2>5. obj[b] = NoObj
      BY <1>1, <1>5 DEF SharedInv, ObjOk
    <2>6. F = {}
      BY <1>2, <1>5 DEF SharedInv, PcOk, Frees
    <2>7. QED
      BY <1>4, <2>4, <2>5, <2>6
  <1>6. CASE obj[b] # NoObj
    <2>1. ObjOk(b)
      BY <1>1 DEF SharedInv
    <2>2. F = {} /\ FreeAt(b) = {}
      BY <1>2, <1>3, <1>6, <2>1 DEF ObjOk
    <2>3. QED
      <3>1. Cardinality(FreeAt(b)) = 0 /\ Cardinality(F) = 0
        BY <1>4, <2>2
      <3>2. QED
        BY <1>6, <3>1
  <1>7. CASE \E t \in Threads : Frees(t, b)
    <2>1. PICK t \in Threads : Frees(t, b)
      BY <1>7
    <2>2. obj[b] = NoObj /\ ~InPool(heap, b)
      BY <2>1 DEF SharedInv, PcOk, Frees
    <2>3. \A u \in F : u = t
      BY <2>1 DEF SharedInv, OneLast, Frees
    <2>4. F = {t}
      BY <1>2, <2>1, <2>3
    <2>5. Cardinality(F) = 1
      BY <2>4, FS_Singleton
    <2>6. QED
      BY <1>3, <1>4, <2>2, <2>5
  <1>8. QED
    BY <1>5, <1>6, <1>7 DEF SharedInv, Placed

\* The invariant holds in every state, if no object is locked that can lose its last
\* holder meanwhile (refcnt.h and memory.h, all operations together).
THEOREM SharedInductive ==
    ASSUME ~LockRace PROVE Spec => []SharedInv
  <1>1. Init => SharedInv
    BY InitHolds
  <1>2. SharedInv /\ [Next]_vars => SharedInv'
    BY NextHolds
  <1>3. QED
    BY <1>1, <1>2, PTL DEF Spec

\* For any threads, sizes and numbers of holders: what a thread points to is alive, and
\* nobody destroys, frees or hands out its block (refcnt.h, AtomicRefcnt).
THEOREM HeldAlive ==
    ASSUME ~LockRace PROVE Spec => []HeldIsAlive
  BY SharedInductive, InvHeld, PTL

\* For any threads and sizes: every block is in one free list, once, or in an object, or
\* in the hands of one thread that frees it (memory.h, the pools have no lock).
THEOREM EveryBlockOnce ==
    ASSUME ~LockRace PROVE Spec => []BlocksOnce
  BY SharedInductive, InvOnce, PTL

\* For any sizes up to 262144: an object lies in a block of at least its size, whichever
\* pools the block has been through (memory.h, round_up and the size classes).
THEOREM ObjectsFit ==
    ASSUME ~LockRace PROVE Spec => []BlockFits
  BY SharedInductive, InvFits, PTL

(***************************************************************************)
(* The storages of weak pointers, when one thread makes them: a storage    *)
(* that is not gone is the one its object points to, and its counter is    *)
(* the weak pointer and the object that refer to it.                       *)
(***************************************************************************)
Pointed(w) == IF \E t \in Threads : weak[t].storage = w THEN 1 ELSE 0
Owned(w)   == IF \E b \in Blocks : obj[b].weak = w THEN 1 ELSE 0

Stores    == [refcnt : Nat, valid : BOOLEAN, of : Nat, gone : BOOLEAN]
MakesWeak == {"new_weak", "take_weak"}

StoreOk(w) ==
    /\ store[w] # NoStore => store[w].valid = ~store[w].gone
    /\ (store[w] # NoStore /\ ~store[w].gone) => store[w].of \in Blocks /\ obj[store[w].of].weak = w
    /\ store[w].refcnt = Pointed(w) + Owned(w)
    /\ store[w].refcnt = 0 => store[w] = NoStore

WeakInv ==
    /\ store \in [Storages -> Stores]
    /\ \A t \in Threads : weak[t] # NoWeak => t \in WeakThreads /\ weak[t].storage # Null
    /\ \A t \in Threads : pc[t].do \in MakesWeak =>
          /\ t \in WeakThreads /\ weak[t] = NoWeak
          /\ pc[t].do = "new_weak" <=> obj[pc[t].b].weak = Null
    /\ \A b \in Blocks : obj[b].weak # Null =>
          store[obj[b].weak].of = b /\ ~store[obj[b].weak].gone
    /\ \A w \in Storages : StoreOk(w)

LEMMA WeakInit == Init => WeakInv
  <1> SUFFICES ASSUME Init PROVE WeakInv
    OBVIOUS
  <1>1. /\ \A w \in Storages : store[w] = NoStore
        /\ \A t \in Threads : weak[t] = NoWeak /\ pc[t] = Idle
        /\ \A b \in Blocks : obj[b].weak = Null
        /\ store \in [Storages -> Stores]
    BY DEF Init, NoStore, NoObj, Stores
  <1>2. ASSUME NEW w \in Storages PROVE StoreOk(w)
    <2>1. Pointed(w) = 0 /\ Owned(w) = 0
      BY <1>1, SharedAssumption DEF Pointed, Owned, NoWeak
    <2>2. QED
      BY <1>1, <2>1 DEF StoreOk, NoStore
  <1>3. QED
    BY <1>1, <1>2 DEF WeakInv, Idle, MakesWeak

\* Storages, weak pointers and what objects know of them stay.
LEMMA WeakKept ==
    ASSUME WeakInv, UNCHANGED <<store, weak>>,
           \A b \in Blocks : obj'[b].weak = obj[b].weak,
           \A t \in Threads : pc'[t].do \in MakesWeak =>
              /\ pc'[t].b \in Blocks /\ t \in WeakThreads /\ weak[t] = NoWeak
              /\ (pc'[t].do = "new_weak" <=> obj[pc'[t].b].weak = Null)
    PROVE  WeakInv'
  <1>1. ASSUME NEW w \in Storages PROVE StoreOk(w)'
    <2>1. StoreOk(w) /\ Pointed(w)' = Pointed(w) /\ Owned(w)' = Owned(w)
      BY DEF WeakInv, Pointed, Owned
    <2>2. QED
      BY <2>1 DEF StoreOk, NoStore
  <1>2. QED
    BY <1>1 DEF WeakInv, NoWeak

\* An action after which fewer threads make weak pointers.
LEMMA WeakUndisturbed ==
    ASSUME SharedInv, WeakInv, UNCHANGED <<store, weak>>,
           \A b \in Blocks : obj'[b].weak = obj[b].weak,
           \A t \in Threads : pc'[t].do \in MakesWeak => pc'[t] = pc[t]
    PROVE  WeakInv'
  <1>1. ASSUME NEW t \in Threads, pc'[t].do \in MakesWeak
        PROVE  /\ pc'[t].b \in Blocks /\ t \in WeakThreads /\ weak[t] = NoWeak
               /\ (pc'[t].do = "new_weak" <=> obj[pc'[t].b].weak = Null)
    BY <1>1 DEF SharedInv, PcOk, WeakInv, MakesWeak
  <1>2. QED
    BY <1>1, WeakKept

\* A storage whose counter is not zero, or that somebody refers to, is there.
LEMMA ReferredIsThere ==
    ASSUME WeakInv, NEW w \in Storages, (\E t \in Threads : weak[t].storage = w) \/ \E b \in Blocks : obj[b].weak = w
    PROVE  store[w] # NoStore
  BY DEF WeakInv, StoreOk, Pointed, Owned, NoStore

LEMMA WeakByConstruct ==
    ASSUME SharedInv, WeakInv, NEW t \in Threads, Construct(t)
    PROVE  WeakInv'
  <1>1. pc[t].do = "allocate" /\ pc[t].b \in 1 .. heap.brk /\ InPool(heap, pc[t].b)
    BY AllocatesFree DEF Construct, At
  <1>2. pc[t].b \in Blocks
    <2>1. heap.brk \in Nat /\ heap.brk <= MaxBlocks /\ MaxBlocks \in Nat
      BY PoolAssumption DEF SharedInv, Shape, HeapOk, HeapType
    <2>2. QED
      BY <1>1, <2>1 DEF Blocks
  <1>3. obj[pc[t].b] = NoObj
    BY <1>1, <1>2 DEF SharedInv, ObjOk
  <1>4. \A b \in Blocks : obj'[b].weak = obj[b].weak
    <2>1. obj' = [obj EXCEPT ![pc[t].b] = [size |-> pc[t].size, refcnt |-> 1, weak |-> Null]]
      BY DEF Construct
    <2>2. obj \in [Blocks -> [size : Nat, refcnt : Nat, weak : Storages \cup {Null}]]
      BY DEF SharedInv, Shape
    <2>3. obj'[pc[t].b].weak = Null /\ obj[pc[t].b].weak = Null
      BY <1>2, <1>3, <2>1, <2>2 DEF NoObj
    <2>4. \A b \in Blocks : b # pc[t].b => obj'[b] = obj[b]
      BY <2>1, <2>2
    <2>5. QED
      BY <2>3, <2>4
  <1>5. \A u \in Threads : pc'[u] = pc[u] \/ pc'[u] = Idle
    BY DEF Construct, SharedInv, Shape
  <1>6. UNCHANGED <<store, weak>>
    BY DEF Construct
  <1>7. QED
    BY <1>4, <1>5, <1>6, WeakUndisturbed DEF Idle, MakesWeak

\* The counter of an object changes.
LEMMA WeakByCount ==
    ASSUME SharedInv, WeakInv, UNCHANGED <<store, weak>>,
           NEW b \in Blocks, NEW n, obj' = [obj EXCEPT ![b].refcnt = n],
           \A u \in Threads : pc'[u] = pc[u] \/ pc'[u].do \notin MakesWeak
    PROVE  WeakInv'
  <1>1. obj \in [Blocks -> [size : Nat, refcnt : Nat, weak : Storages \cup {Null}]]
    BY DEF SharedInv, Shape
  <1>2. \A c \in Blocks : obj'[c].weak = obj[c].weak
    BY <1>1
  <1>3. QED
    BY <1>2, WeakUndisturbed

LEMMA WeakByCopy ==
    ASSUME SharedInv, WeakInv, NEW t \in Threads, NEW b \in Blocks, NEW h \in Iptrs, Copy(t, h, b)
    PROVE  WeakInv'
  BY WeakByCount DEF Copy

LEMMA WeakByRelease ==
    ASSUME SharedInv, WeakInv, NEW t \in Threads, NEW b \in Blocks, NEW h \in Iptrs, Release(t, h, b)
    PROVE  WeakInv'
  <1>1. \A u \in Threads : pc'[u] = pc[u] \/ pc'[u].do \notin MakesWeak
    BY DEF Release, Do, Idle, MakesWeak, SharedInv, Shape
  <1>2. QED
    BY <1>1, WeakByCount DEF Release

LEMMA WeakByAllocate ==
    ASSUME SharedInv, WeakInv, NEW t \in Threads, NEW size \in Sizes, Allocate(t, size)
    PROVE  WeakInv'
  <1>1. \A u \in Threads : pc'[u] = pc[u] \/ pc'[u].do \notin MakesWeak
    BY DEF Allocate, MakesWeak, SharedInv, Shape
  <1>2. QED
    BY <1>1, WeakUndisturbed DEF Allocate

LEMMA WeakByFree ==
    ASSUME SharedInv, WeakInv, NEW t \in Threads, Free(t)
    PROVE  WeakInv'
  <1>1. \A u \in Threads : pc'[u] = pc[u] \/ pc'[u].do \notin MakesWeak
    <2>1. pc' = pc \/ pc' = [pc EXCEPT ![t] = Idle]
      BY DEF Free
    <2>2. CASE pc' = pc
      BY <2>2
    <2>3. CASE pc' = [pc EXCEPT ![t] = Idle]
      BY <2>3 DEF Idle, MakesWeak, SharedInv, Shape
    <2>4. QED
      BY <2>1, <2>2, <2>3
  <1>2. QED
    BY <1>1, WeakUndisturbed DEF Free

LEMMA WeakByLockTests ==
    ASSUME SharedInv, WeakInv, NEW t \in Threads, LockTests(t)
    PROVE  WeakInv'
  <1>1. \A u \in Threads : pc'[u] = pc[u] \/ pc'[u].do \notin MakesWeak
    BY DEF LockTests, Do, MakesWeak, SharedInv, Shape
  <1>2. QED
    BY <1>1, WeakUndisturbed DEF LockTests

LEMMA WeakByLockTakes ==
    ASSUME SharedInv, WeakInv, NEW t \in Threads, LockTakes(t)
    PROVE  WeakInv'
  <1>1. pc[t].b \in Blocks /\ obj[pc[t].b] # NoObj
    BY DEF LockTakes, At, SharedInv, PcOk, ObjOk
  <1>2. \A u \in Threads : pc'[u] = pc[u] \/ pc'[u].do \notin MakesWeak
    <2>1. pc' = [pc EXCEPT ![t] = Idle]
      BY <1>1 DEF LockTakes
    <2>2. QED
      BY <2>1 DEF Idle, MakesWeak, SharedInv, Shape
  <1>3. QED
    BY <1>1, <1>2, WeakByCount DEF LockTakes

LEMMA WeakByMake ==
    ASSUME SharedInv, WeakInv, NEW t \in Threads, NEW b \in Blocks, MakeWeak(t, b)
    PROVE  WeakInv'
  <1>1. /\ t \in WeakThreads /\ weak[t] = NoWeak /\ UNCHANGED <<store, weak, obj>>
        /\ pc' = [pc EXCEPT ![t] = Do(IF obj[b].weak = Null THEN "new_weak" ELSE "take_weak", b)]
    BY DEF MakeWeak
  <1>2. ASSUME NEW u \in Threads, pc'[u].do \in MakesWeak
        PROVE  /\ pc'[u].b \in Blocks /\ u \in WeakThreads /\ weak[u] = NoWeak
               /\ (pc'[u].do = "new_weak" <=> obj[pc'[u].b].weak = Null)
    <2>1. CASE u = t
      <3>1. pc'[t] = Do(IF obj[b].weak = Null THEN "new_weak" ELSE "take_weak", b)
        BY <1>1 DEF SharedInv, Shape
      <3>2. QED
        BY <1>1, <2>1, <3>1 DEF Do
    <2>2. CASE u # t
      <3>1. pc'[u] = pc[u]
        BY <1>1, <2>2 DEF SharedInv, Shape
      <3>2. QED
        BY <1>2, <3>1 DEF SharedInv, PcOk, WeakInv, MakesWeak
    <2>3. QED
      BY <2>1, <2>2
  <1>3. QED
    BY <1>1, <1>2, WeakKept

\* What a thread that makes a weak pointer works on has an owner of its storage.
LEMMA WeakMaker ==
    ASSUME SharedInv, WeakInv, NEW t \in Threads, pc[t].do \in MakesWeak
    PROVE  /\ pc[t].b \in Blocks /\ obj[pc[t].b] # NoObj /\ hold[pc[t].b] # {}
           /\ t \in WeakThreads /\ weak[t] = NoWeak
           /\ pc[t].do = "new_weak" <=> obj[pc[t].b].weak = Null
  <1>1. pc[t].b \in Blocks /\ hold[pc[t].b] # {}
    BY DEF SharedInv, PcOk, Has, MakesWeak
  <1>2. QED
    BY <1>1 DEF SharedInv, ObjOk, WeakInv

LEMMA WeakOfType ==
    ASSUME SharedInv, NEW b \in Blocks
    PROVE  obj[b].weak \in Storages \cup {Null}
  <1>1. obj[b] \in [size : Nat, refcnt : Nat, weak : Storages \cup {Null}]
    BY DEF SharedInv, Shape
  <1>2. QED
    BY <1>1

LEMMA WeakByNew ==
    ASSUME \A t, u \in WeakThreads : t = u,
           SharedInv, WeakInv, NEW t \in Threads, NewWeak(t)
    PROVE  WeakInv'
  <1> DEFINE b == pc[t].b
             new == [refcnt |-> 1, valid |-> TRUE, of |-> b, gone |-> FALSE]
  <1>1. /\ pc[t].do = "new_weak" /\ b \in Blocks /\ b \in Nat /\ t \in WeakThreads /\ weak[t] = NoWeak
        /\ obj[b].weak = Null /\ weak' = weak /\ pc' = [pc EXCEPT ![t].do = "take_weak"]
    BY WeakMaker, BlocksAreNat DEF NewWeak, At, MakesWeak
  <1>2. PICK w \in Storages : /\ store[w] = NoStore
                              /\ obj' = [obj EXCEPT ![b].weak = w]
                              /\ store' = [store EXCEPT ![w] = new]
    BY <1>1 DEF NewWeak
  <1>3. /\ obj'[b].weak = w /\ \A c \in Blocks : c # b => obj'[c].weak = obj[c].weak
        /\ store'[w] = new /\ \A v \in Storages : v # w => store'[v] = store[v]
        /\ store' \in [Storages -> Stores]
    <2>1. obj \in [Blocks -> [size : Nat, refcnt : Nat, weak : Storages \cup {Null}]]
      BY DEF SharedInv, Shape
    <2>2. store \in [Storages -> Stores] /\ new \in Stores
      BY <1>1 DEF WeakInv, Stores
    <2> HIDE DEF new
    <2>3. QED
      BY <1>1, <1>2, <2>1, <2>2
  <1>4. /\ w # Null /\ StoreOk(w) /\ store[w].refcnt = 0
        /\ \A u \in Threads : weak[u].storage # w
        /\ \A c \in Blocks : obj[c].weak # w
    BY <1>2, SharedAssumption, ReferredIsThere DEF WeakInv, NoStore
  <1>5. ASSUME NEW u \in Threads, pc'[u].do \in MakesWeak
        PROVE  /\ u \in WeakThreads /\ weak'[u] = NoWeak
               /\ pc'[u].do = "new_weak" <=> obj'[pc'[u].b].weak = Null
    <2>1. CASE u = t
      <3>1. pc'[t].do = "take_weak" /\ pc'[t].b = b
        BY <1>1 DEF SharedInv, Shape
      <3>2. QED
        BY <1>1, <1>3, <1>4, <2>1, <3>1 DEF NoWeak
    <2>2. CASE u # t
      <3>1. pc'[u] = pc[u]
        BY <1>1, <2>2 DEF SharedInv, Shape
      <3>2. u \in WeakThreads
        BY <1>5, <3>1 DEF WeakInv
      <3>3. QED
        BY <1>1, <2>2, <3>2
    <2>3. QED
      BY <2>1, <2>2
  <1>6. ASSUME NEW c \in Blocks, obj'[c].weak # Null
        PROVE  store'[obj'[c].weak].of = c /\ ~store'[obj'[c].weak].gone
    <2>1. CASE c = b
      BY <1>3, <2>1
    <2>2. CASE c # b
      <3>1. obj'[c].weak = obj[c].weak /\ obj[c].weak \in Storages /\ obj[c].weak # w
        BY <1>3, <1>4, <1>6, <2>2, WeakOfType
      <3>2. QED
        BY <1>3, <1>6, <3>1 DEF WeakInv
    <2>3. QED
      BY <2>1, <2>2
  <1>7. ASSUME NEW v \in Storages PROVE StoreOk(v)'
    <2>1. CASE v = w
      <3>1. Pointed(w)' = 0 /\ Owned(w)' = 1
        BY <1>1, <1>3, <1>4 DEF Pointed, Owned
      <3>2. QED
        <4>1. store'[v].refcnt = 1 /\ store'[v].valid = TRUE /\ store'[v].gone = FALSE /\ store'[v].of = b
          BY <1>3, <2>1
        <4>2. store'[v].valid = ~store'[v].gone
          BY <4>1
        <4>3. store'[v].of \in Blocks /\ obj'[store'[v].of].weak = v
          BY <1>1, <1>3, <2>1, <4>1
        <4>4. store'[v].refcnt = Pointed(v)' + Owned(v)' /\ store'[v].refcnt # 0
          BY <2>1, <3>1, <4>1
        <4>5. QED
          BY <4>2, <4>3, <4>4 DEF StoreOk
    <2>2. CASE v # w
      <3>1. StoreOk(v) /\ store'[v] = store[v] /\ v # Null
        BY <1>3, <2>2, SharedAssumption DEF WeakInv
      <3>2. Pointed(v)' = Pointed(v) /\ Owned(v)' = Owned(v)
        BY <1>1, <1>3, <2>2, <3>1 DEF Pointed, Owned
      <3>3. (store[v] # NoStore /\ ~store[v].gone) => obj'[store[v].of].weak = v
        BY <1>1, <1>3, <3>1 DEF StoreOk
      <3>4. QED
        BY <3>1, <3>2, <3>3 DEF StoreOk, NoStore
    <2>3. QED
      BY <2>1, <2>2
  <1>8. QED
    BY <1>1, <1>3, <1>5, <1>6, <1>7 DEF WeakInv, NoWeak

LEMMA WeakByTake ==
    ASSUME \A t, u \in WeakThreads : t = u,
           SharedInv, WeakInv, NEW t \in Threads, TakeWeak(t)
    PROVE  WeakInv'
  <1>0. PICK w : w = obj[pc[t].b].weak
    OBVIOUS
  <1>1. /\ pc[t].do = "take_weak" /\ pc[t].b \in Blocks /\ t \in WeakThreads /\ weak[t] = NoWeak
        /\ w # Null /\ w \in Storages /\ obj' = obj /\ pc' = [pc EXCEPT ![t] = Idle]
        /\ store' = [store EXCEPT ![w] = [store[w] EXCEPT !.refcnt = store[w].refcnt + 1]]
        /\ weak' = [weak EXCEPT ![t] = [storage |-> w, object |-> pc[t].b]]
    BY <1>0, WeakMaker, WeakOfType DEF TakeWeak, At, MakesWeak
  <1>2. store[w] \in Stores /\ store[w] # NoStore /\ StoreOk(w)
    BY <1>0, <1>1, ReferredIsThere DEF WeakInv
  <1>3. /\ store'[w] = [store[w] EXCEPT !.refcnt = store[w].refcnt + 1]
        /\ \A v \in Storages : v # w => store'[v] = store[v]
        /\ weak'[t].storage = w /\ \A u \in Threads : u # t => weak'[u] = weak[u]
    BY <1>1 DEF WeakInv, SharedInv, Shape
  <1>4. /\ store'[w] \in Stores /\ store'[w].refcnt = store[w].refcnt + 1 /\ store'[w].valid = store[w].valid
        /\ store'[w].of = store[w].of /\ store'[w].gone = store[w].gone
    BY <1>2, <1>3 DEF Stores
  <1>5. store' \in [Storages -> Stores]
    BY <1>1, <1>3, <1>4 DEF WeakInv
  <1>6. \A u \in Threads : u # t => weak[u] = NoWeak /\ pc'[u].do \notin MakesWeak
    <2>1. ASSUME NEW u \in Threads, u # t PROVE u \notin WeakThreads /\ pc'[u] = pc[u]
      BY <1>1, <2>1 DEF SharedInv, Shape
    <2>2. QED
      BY <2>1 DEF WeakInv
  <1>7. \A v : Owned(v)' = Owned(v)
    BY <1>1 DEF Owned
  <1>8. ASSUME NEW v \in Storages PROVE StoreOk(v)'
    <2>1. CASE v = w
      <3>1. Pointed(w) = 0 /\ Pointed(w)' = 1
        BY <1>1, <1>3, <1>6, SharedAssumption DEF Pointed, NoWeak
      <3>2. store[w].refcnt \in Nat
        BY <1>2 DEF Stores
      <3>3. Owned(w) \in {0, 1}
        BY DEF Owned
      <3>4. store'[v].refcnt = Pointed(v)' + Owned(v)' /\ store'[v].refcnt # 0
        BY <1>2, <1>4, <1>7, <2>1, <3>1, <3>2, <3>3 DEF StoreOk
      <3>5. QED
        BY <1>1, <1>2, <1>4, <2>1, <3>4 DEF StoreOk, NoStore
    <2>2. CASE v # w
      <3>1. StoreOk(v) /\ store'[v] = store[v]
        BY <1>3, <2>2 DEF WeakInv
      <3>2. Pointed(v)' = Pointed(v)
        BY <1>1, <1>3, <1>6, <2>2, SharedAssumption DEF Pointed, NoWeak
      <3>3. QED
        BY <1>1, <1>7, <3>1, <3>2 DEF StoreOk, NoStore
    <2>3. QED
      BY <2>1, <2>2
  <1>9. ASSUME NEW c \in Blocks, obj[c].weak # Null
        PROVE  store'[obj[c].weak].of = c /\ ~store'[obj[c].weak].gone
    <2>1. obj[c].weak \in Storages
      BY <1>9, WeakOfType
    <2>2. store[obj[c].weak].of = c /\ ~store[obj[c].weak].gone
      BY <1>9 DEF WeakInv
    <2>3. QED
      BY <1>3, <1>4, <2>1, <2>2
  <1>10. pc'[t] = Idle
    BY <1>1 DEF SharedInv, Shape
  <1>11. QED
    BY <1>1, <1>3, <1>5, <1>6, <1>8, <1>9, <1>10 DEF WeakInv, NoWeak, Idle, MakesWeak

\* A reference to a storage that somebody refers to is given up.
LEMMA DropIs ==
    ASSUME NEW s \in [Storages -> Stores], NEW w \in Storages, s[w].refcnt # 0
    PROVE  /\ DropStore(s, w) \in [Storages -> Stores]
           /\ \A v \in Storages : v # w => DropStore(s, w)[v] = s[v]
           /\ s[w].refcnt = 1 => DropStore(s, w)[w] = NoStore
           /\ s[w].refcnt # 1 => /\ DropStore(s, w)[w] = [s[w] EXCEPT !.refcnt = s[w].refcnt - 1]
                                 /\ DropStore(s, w)[w] \in Stores
  <1>1. s[w] \in Stores /\ s[w].refcnt \in Nat /\ NoStore \in Stores
    BY DEF Stores, NoStore
  <1>2. [s[w] EXCEPT !.refcnt = s[w].refcnt - 1] \in Stores
    BY <1>1 DEF Stores
  <1>3. QED
    BY <1>1, <1>2 DEF DropStore

LEMMA WeakByReset ==
    ASSUME \A t, u \in WeakThreads : t = u,
           SharedInv, WeakInv, NEW t \in Threads, ResetWeak(t)
    PROVE  WeakInv'
  <1>0. PICK w : w = weak[t].storage
    OBVIOUS
  <1>1. /\ weak[t] # NoWeak /\ t \in WeakThreads /\ obj' = obj /\ pc' = pc
        /\ store' = DropStore(store, w) /\ weak' = [weak EXCEPT ![t] = NoWeak]
    BY <1>0 DEF ResetWeak, WeakInv
  <1>2. /\ \A u \in Threads : u # t => weak[u] = NoWeak
        /\ \A u \in Threads : weak'[u] = NoWeak
    <2>1. \A u \in Threads : u # t => weak[u] = NoWeak
      BY <1>1 DEF WeakInv
    <2>2. QED
      BY <1>1, <2>1 DEF SharedInv, Shape
  <1>3. w \in Storages
    <2>1. weak[t].storage \in Storages \cup {Null}
      BY DEF SharedInv, Shape
    <2>2. QED
      BY <1>0, <1>1, <2>1 DEF WeakInv
  <1>4. /\ store \in [Storages -> Stores] /\ StoreOk(w) /\ Pointed(w) = 1 /\ Owned(w) \in {0, 1}
        /\ store[w] \in Stores
    BY <1>0, <1>3 DEF WeakInv, Pointed, Owned
  <1>5. store[w].refcnt = 1 + Owned(w)
    BY <1>4 DEF StoreOk
  <1>6. /\ store' \in [Storages -> Stores]
        /\ \A v \in Storages : v # w => store'[v] = store[v]
        /\ Owned(w) = 0 => store'[w] = NoStore
        /\ Owned(w) = 1 => store'[w] = [store[w] EXCEPT !.refcnt = 1]
    <2>1. store[w].refcnt # 0 /\ (Owned(w) = 0 => store[w].refcnt = 1)
          /\ (Owned(w) = 1 => store[w].refcnt # 1 /\ store[w].refcnt - 1 = 1)
      BY <1>4, <1>5
    <2>2. /\ DropStore(store, w) \in [Storages -> Stores]
          /\ \A v \in Storages : v # w => DropStore(store, w)[v] = store[v]
          /\ store[w].refcnt = 1 => DropStore(store, w)[w] = NoStore
          /\ store[w].refcnt # 1 => DropStore(store, w)[w] = [store[w] EXCEPT !.refcnt = store[w].refcnt - 1]
      BY <1>3, <1>4, <2>1, DropIs
    <2>3. Owned(w) = 1 => DropStore(store, w)[w] = [store[w] EXCEPT !.refcnt = 1]
      BY <2>1, <2>2
    <2>4. QED
      BY <1>1, <2>1, <2>2, <2>3
  <1>7. \A v : Owned(v)' = Owned(v)
    BY <1>1 DEF Owned
  <1>8. ASSUME NEW v \in Storages PROVE StoreOk(v)'
    <2>1. Pointed(v)' = 0
      BY <1>2, SharedAssumption DEF Pointed, NoWeak
    <2>2. CASE v # w
      <3>1. StoreOk(v) /\ store'[v] = store[v]
        BY <1>6, <2>2 DEF WeakInv
      <3>2. Pointed(v) = 0
        BY <1>0, <1>2, <2>2, SharedAssumption DEF Pointed, NoWeak
      <3>3. QED
        BY <1>1, <1>7, <2>1, <3>1, <3>2 DEF StoreOk, NoStore
    <2>3. CASE v = w /\ Owned(w) = 0
      BY <1>6, <1>7, <2>1, <2>3 DEF StoreOk, NoStore
    <2>4. CASE v = w /\ Owned(w) = 1
      <3>1. /\ store'[v].refcnt = 1 /\ store'[v].valid = store[v].valid
            /\ store'[v].of = store[v].of /\ store'[v].gone = store[v].gone
        BY <1>4, <1>6, <2>4 DEF Stores
      <3>2. store[v] # NoStore
        BY <1>4, <1>5, <2>4 DEF NoStore
      <3>3. store'[v].refcnt = Pointed(v)' + Owned(v)' /\ store'[v].refcnt # 0
        BY <1>7, <2>1, <2>4, <3>1
      <3>4. QED
        BY <1>1, <1>4, <2>4, <3>1, <3>2, <3>3 DEF StoreOk
    <2>5. QED
      BY <1>4, <2>2, <2>3, <2>4
  <1>9. ASSUME NEW c \in Blocks, obj[c].weak # Null
        PROVE  store'[obj[c].weak].of = c /\ ~store'[obj[c].weak].gone
    <2>1. obj[c].weak \in Storages
      BY <1>9, WeakOfType
    <2>2. store[obj[c].weak].of = c /\ ~store[obj[c].weak].gone
      BY <1>9 DEF WeakInv
    <2>3. CASE obj[c].weak # w
      BY <1>6, <2>1, <2>2, <2>3
    <2>4. CASE obj[c].weak = w
      <3>1. Owned(w) = 1
        BY <2>4 DEF Owned
      <3>2. store'[w].of = store[w].of /\ store'[w].gone = store[w].gone
        BY <1>4, <1>6, <3>1 DEF Stores
      <3>3. QED
        BY <2>2, <2>4, <3>2
    <2>5. QED
      BY <2>3, <2>4
  <1>10. ASSUME NEW u \in Threads PROVE pc[u].do \in MakesWeak =>
            u \in WeakThreads /\ (pc[u].do = "new_weak" <=> obj[pc[u].b].weak = Null)
    BY DEF WeakInv
  <1>11. QED
    BY <1>1, <1>2, <1>6, <1>8, <1>9, <1>10 DEF WeakInv, NoWeak

LEMMA WeakByDestroy ==
    ASSUME SharedInv, WeakInv, NEW t \in Threads, Destroy(t)
    PROVE  WeakInv'
  <1>0. PICK b, w : b = pc[t].b /\ w = obj[b].weak
    OBVIOUS
  <1> DEFINE s == [v \in Storages |-> [store[v] EXCEPT !.gone = store[v].gone \/ store[v].of = b]]
             z == [s[w] EXCEPT !.valid = FALSE]
  <1>1. /\ pc[t].do = "destroy" /\ b \in Blocks /\ b # 0 /\ obj[b] # NoObj /\ hold[b] = {}
        /\ w \in Storages \cup {Null} /\ weak' = weak
        /\ obj' = [obj EXCEPT ![b] = NoObj]
        /\ pc' = [pc EXCEPT ![t] = [do |-> "free", b |-> b, size |-> obj[b].size]]
    BY <1>0, BlocksAreNat, WeakOfType DEF Destroy, At, SharedInv, PcOk
  <1>2. store' = IF w = Null THEN s ELSE DropStore([s EXCEPT ![w] = z], w)
    <2>1. store' = IF w = Null THEN Invalidated(s, w) ELSE DropStore(Invalidated(s, w), w)
      BY <1>0 DEF Destroy
    <2>2. Invalidated(s, w) = IF w = Null THEN s ELSE [s EXCEPT ![w] = z]
      BY DEF Invalidated
    <2>3. QED
      BY <2>1, <2>2
  <1>3. ASSUME NEW v \in Storages, v # w PROVE s[v] = store[v]
    <2>1. store[v] \in Stores /\ StoreOk(v)
      BY DEF WeakInv
    <2>2. CASE store[v] = NoStore
      <3>1. store[v].of # b
        BY <1>1, <2>2 DEF NoStore
      <3>2. QED
        BY <2>1, <3>1 DEF Stores
    <2>3. CASE store[v] # NoStore
      <3>1. store[v].of = b => store[v].gone
        BY <1>0, <1>3, <2>1, <2>3 DEF StoreOk
      <3>2. QED
        BY <2>1, <3>1 DEF Stores
    <2>4. QED
      BY <2>2, <2>3
  <1>4. s \in [Storages -> Stores]
    <2>1. ASSUME NEW v \in Storages PROVE [store[v] EXCEPT !.gone = store[v].gone \/ store[v].of = b] \in Stores
      <3>1. store[v] \in Stores
        BY DEF WeakInv
      <3>2. QED
        BY <3>1 DEF Stores
    <2>2. QED
      BY <2>1
  <1>5. w # Null => /\ w \in Storages /\ store[w] \in Stores /\ StoreOk(w) /\ Owned(w) = 1
                    /\ store[w].of = b /\ store[w].gone = FALSE
    BY <1>0, <1>1 DEF WeakInv, Owned, Stores
  <1>6. /\ store' \in [Storages -> Stores]
        /\ \A v \in Storages : v # w => store'[v] = store[v]
        /\ w # Null => \/ store[w].refcnt = 1 /\ store'[w] = NoStore
                       \/ /\ store[w].refcnt # 1 /\ store'[w].refcnt = store[w].refcnt - 1
                          /\ store'[w].valid = FALSE /\ store'[w].gone = TRUE
    <2>1. CASE w = Null
      <3>1. store' = s
        BY <1>2, <2>1
      <3> HIDE DEF s
      <3>2. QED
        BY <1>3, <1>4, <2>1, <3>1
    <2>2. CASE w # Null
      <3> DEFINE d == [s EXCEPT ![w] = z]
      <3>1. s[w] = [store[w] EXCEPT !.gone = TRUE]
        BY <1>5, <2>2 DEF Stores
      <3> HIDE DEF s
      <3>2. /\ z \in Stores /\ z.refcnt = store[w].refcnt /\ z.valid = FALSE /\ z.gone = TRUE
        BY <1>5, <2>2, <3>1 DEF Stores
      <3>3. store[w].refcnt # 0
        BY <1>5, <2>2 DEF StoreOk, Pointed
      <3> HIDE DEF z
      <3>4. d \in [Storages -> Stores] /\ d[w] = z /\ \A v \in Storages : v # w => d[v] = store[v]
        BY <1>3, <1>4, <1>5, <2>2, <3>2
      <3>5. store' = DropStore(d, w)
        BY <1>2, <2>2
      <3> HIDE DEF d
      <3>6. /\ DropStore(d, w) \in [Storages -> Stores]
            /\ \A v \in Storages : v # w => DropStore(d, w)[v] = d[v]
            /\ d[w].refcnt = 1 => DropStore(d, w)[w] = NoStore
            /\ d[w].refcnt # 1 => DropStore(d, w)[w] = [d[w] EXCEPT !.refcnt = d[w].refcnt - 1]
        BY <1>5, <2>2, <3>2, <3>3, <3>4, DropIs
      <3>7. d[w].refcnt # 1 => /\ DropStore(d, w)[w].refcnt = store[w].refcnt - 1
                               /\ DropStore(d, w)[w].valid = FALSE /\ DropStore(d, w)[w].gone = TRUE
        BY <3>2, <3>4, <3>6 DEF Stores
      <3>8. QED
        BY <3>2, <3>4, <3>5, <3>6, <3>7
    <2>3. QED
      BY <2>1, <2>2
  <1> HIDE DEF s, z
  <1>7. /\ obj'[b].weak = Null /\ \A c \in Blocks : c # b => obj'[c].weak = obj[c].weak
        /\ \A u \in Threads : pc'[u] = pc[u] \/ pc'[u].do \notin MakesWeak
    BY <1>1 DEF SharedInv, Shape, NoObj, MakesWeak
  <1>8. ASSUME NEW v \in Storages PROVE StoreOk(v)'
    <2>1. Pointed(v)' = Pointed(v) /\ v # Null
      BY <1>1, SharedAssumption DEF Pointed
    <2>2. CASE v # w
      <3>1. StoreOk(v) /\ store'[v] = store[v]
        BY <1>6, <2>2 DEF WeakInv
      <3>2. Owned(v)' = Owned(v)
        BY <1>0, <1>1, <1>7, <2>1, <2>2 DEF Owned
      <3>3. (store[v] # NoStore /\ ~store[v].gone) => obj'[store[v].of].weak = v
        <4>1. (store[v] # NoStore /\ ~store[v].gone) => store[v].of # b /\ store[v].of \in Blocks /\ obj[store[v].of].weak = v
          BY <1>0, <2>2, <3>1 DEF StoreOk
        <4>2. QED
          BY <1>7, <4>1
      <3>4. QED
        BY <2>1, <3>1, <3>2, <3>3 DEF StoreOk, NoStore
    <2>3. CASE v = w
      <3>1. store[w].refcnt = Pointed(w) + 1 /\ Pointed(w) \in {0, 1}
        BY <1>5, <2>1, <2>3 DEF StoreOk, Pointed
      <3>2. Owned(w)' = 0
        <4>1. ASSUME NEW c \in Blocks, c # b, obj[c].weak = w PROVE FALSE
          BY <1>5, <2>1, <2>3, <4>1 DEF WeakInv
        <4>2. QED
          BY <1>7, <2>1, <2>3, <4>1 DEF Owned
      <3>3. CASE store[w].refcnt = 1 /\ store'[w] = NoStore
        BY <2>1, <2>3, <3>1, <3>2, <3>3 DEF StoreOk, NoStore
      <3>4. CASE /\ store[w].refcnt # 1 /\ store'[w].refcnt = store[w].refcnt - 1
                 /\ store'[w].valid = FALSE /\ store'[w].gone = TRUE
        <4>1. store'[w].refcnt = Pointed(w) + 0 /\ store'[w].refcnt # 0
          BY <3>1, <3>4
        <4>2. store'[w].valid = ~store'[w].gone
          BY <3>4
        <4>3. QED
          BY <2>1, <2>3, <3>2, <3>4, <4>1, <4>2 DEF StoreOk
      <3>5. QED
        BY <1>6, <2>1, <2>3, <3>3, <3>4
    <2>4. QED
      BY <2>2, <2>3
  <1>9. ASSUME NEW c \in Blocks, obj'[c].weak # Null
        PROVE  store'[obj'[c].weak].of = c /\ ~store'[obj'[c].weak].gone
    <2>1. c # b /\ obj'[c].weak = obj[c].weak /\ obj[c].weak \in Storages
      BY <1>7, <1>9, WeakOfType
    <2>2. store[obj[c].weak].of = c /\ ~store[obj[c].weak].gone
      BY <1>9, <2>1 DEF WeakInv
    <2>3. obj[c].weak # w
      BY <1>5, <1>9, <2>1, <2>2
    <2>4. QED
      BY <1>6, <2>1, <2>2, <2>3
  <1>10. ASSUME NEW u \in Threads, pc'[u].do \in MakesWeak
         PROVE  /\ u \in WeakThreads /\ weak'[u] = NoWeak
                /\ pc'[u].do = "new_weak" <=> obj'[pc'[u].b].weak = Null
    <2>1. pc'[u] = pc[u]
      BY <1>7, <1>10
    <2>2. /\ pc[u].b \in Blocks /\ hold[pc[u].b] # {} /\ u \in WeakThreads /\ weak[u] = NoWeak
          /\ (pc[u].do = "new_weak" <=> obj[pc[u].b].weak = Null)
      BY <1>10, <2>1, WeakMaker
    <2>3. pc[u].b # b
      BY <1>1, <2>2
    <2>4. QED
      BY <1>1, <1>7, <2>1, <2>2, <2>3
  <1>11. QED
    BY <1>1, <1>6, <1>8, <1>9, <1>10 DEF WeakInv, NoWeak

LEMMA NextWeakHolds ==
    ASSUME \A t, u \in WeakThreads : t = u,
           SharedInv, WeakInv, [Next]_vars
    PROVE  WeakInv'
  <1>1. CASE UNCHANGED vars
    BY <1>1, WeakUndisturbed DEF vars
  <1>2. ASSUME NEW t \in Threads, Step(t) PROVE WeakInv'
    BY <1>2, WeakByConstruct, WeakByDestroy, WeakByFree, WeakByNew, WeakByTake, WeakByLockTakes DEF Step
  <1>3. ASSUME NEW t \in Threads, Call(t) PROVE WeakInv'
    BY <1>3, WeakByAllocate, WeakByMake, WeakByCopy, WeakByRelease, WeakByReset, WeakByLockTests DEF Call
  <1>4. QED
    BY <1>1, <1>2, <1>3 DEF Next

\* For any threads that share an object, one of which makes weak pointers: a weak pointer
\* says that its object is there exactly until it is destroyed, on whatever thread
\* (refcnt.cc, ~AtomicRefcnt; refcnt.h, the counter of atomic_weak_storage).
THEOREM WeakKnows ==
    ASSUME ~LockRace, \A t, u \in WeakThreads : t = u
    PROVE  Spec => []WeakKnowsDeath
  <1>1. Init => SharedInv /\ WeakInv
    BY InitHolds, WeakInit
  <1>2. SharedInv /\ WeakInv /\ [Next]_vars => SharedInv' /\ WeakInv'
    BY NextHolds, NextWeakHolds
  <1>3. WeakInv => WeakKnowsDeath
    BY DEF WeakInv, StoreOk, WeakKnowsDeath
  <1>4. QED
    BY <1>1, <1>2, <1>3, PTL DEF Spec
=============================================================================
