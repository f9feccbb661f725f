-------------------------- MODULE ListNodesProofs --------------------------
(***************************************************************************)
(* The operations of owning_list keep the links in order, whatever         *)
(* removed nodes are still held, for any number of nodes.                  *)
(***************************************************************************)
EXTENDS ListNodes, FiniteSetTheorems, SequenceTheorems, WellFoundedInduction, TLAPS

(***************************************************************************)
(* Induction over numbers, stated with a set in place of a predicate.      *)
(***************************************************************************)
LEMMA Least ==
  ASSUME NEW T, T \subseteq Nat, T # {}
  PROVE  \E x \in T : \A y \in T : x <= y
  <1> DEFINE R == OpToRel(<, Nat)
  <1>1. IsWellFoundedOn(R, Nat)
    BY NatLessThanWellFounded
  <1>2. \A x, y \in Nat : x < y => <<x, y>> \in R
    BY DEF OpToRel
  <1> HIDE DEF R
  <1>3. PICK x \in T : \A y \in T : ~ (<<y, x>> \in R)
    BY <1>1, WFMin
  <1>4. ASSUME NEW y \in T PROVE x <= y
    <2>1. x \in Nat /\ y \in Nat
      OBVIOUS
    <2>2. ~(y < x)
      BY <1>2, <1>3, <2>1
    <2>3. QED
      BY <2>1, <2>2
  <1>5. QED
    BY <1>4

LEMMA Induction ==
  ASSUME NEW S, 0 \in S, \A n \in Nat : n \in S => n + 1 \in S
  PROVE  Nat \subseteq S
  <1> SUFFICES ASSUME NEW k \in Nat \ S PROVE FALSE
    OBVIOUS
  <1>1. PICK n \in Nat \ S : \A y \in Nat \ S : n <= y
    BY Least
  <1>2. n - 1 \in Nat
    OBVIOUS
  <1>3. n - 1 \in S
    BY <1>1, <1>2
  <1>4. QED
    BY <1>2, <1>3

(* A function that counts down from <<k, c>> along move exists: one step    *)
(* does F, the last one base.                                              *)
CountsDown(f, n, C, V, base, move, F) ==
  /\ f \in [(0..n) \X C -> V]
  /\ \A k \in 0..n, c \in C :
       f[<<k, c>>] = IF k = 0 THEN base[c] ELSE F[<<c, f[<<k - 1, move[c]>>]>>]

LEMMA CountDownExists ==
  ASSUME NEW n \in Nat, NEW C, NEW V, NEW base \in [C -> V], NEW move \in [C -> C],
         NEW F \in [C \X V -> V]
  PROVE  \E f : CountsDown(f, n, C, V, base, move, F)
  <1> DEFINE S == {k \in Nat : \E f : CountsDown(f, k, C, V, base, move, F)}
  <1>1. 0 \in S
    <2> DEFINE f == [x \in (0..0) \X C |-> base[x[2]]]
    <2>1. f \in [(0..0) \X C -> V]
      OBVIOUS
    <2>2. \A k \in 0..0, c \in C : f[<<k, c>>] = base[c] /\ k = 0
      OBVIOUS
    <2> HIDE DEF f
    <2>3. CountsDown(f, 0, C, V, base, move, F)
      BY <2>1, <2>2 DEF CountsDown
    <2>4. QED
      BY <2>3
  <1>2. ASSUME NEW m \in Nat, m \in S
        PROVE  m + 1 \in S
    <2>1. PICK f : CountsDown(f, m, C, V, base, move, F)
      BY <1>2
    <2> DEFINE g == [x \in (0..(m + 1)) \X C |->
                       IF x[1] = m + 1 THEN F[<<x[2], f[<<m, move[x[2]]>>]>>] ELSE f[x]]
    <2>2. \A c \in C : f[<<m, move[c]>>] \in V /\ F[<<c, f[<<m, move[c]>>]>>] \in V
      BY <2>1 DEF CountsDown
    <2>3. \A k \in 0..m, c \in C : f[<<k, c>>] \in V
      BY <2>1 DEF CountsDown
    <2>4. /\ \A k \in 0..m, c \in C : g[<<k, c>>] = f[<<k, c>>]
          /\ \A c \in C : g[<<m + 1, c>>] = F[<<c, f[<<m, move[c]>>]>>]
      OBVIOUS
    <2>5. g \in [(0..(m + 1)) \X C -> V]
      <3>1. ASSUME NEW k \in 0..(m + 1), NEW c \in C PROVE g[<<k, c>>] \in V
        <4>1. k = m + 1 \/ k \in 0..m
          OBVIOUS
        <4>2. QED
          BY <2>2, <2>3, <2>4, <4>1
      <3> HIDE DEF g
      <3>2. \A x \in (0..(m + 1)) \X C : g[x] \in V
        BY <3>1
      <3>3. g = [x \in (0..(m + 1)) \X C |-> g[x]]
        BY DEF g
      <3>4. QED
        BY <3>2, <3>3
    <2> HIDE DEF g
    <2>6. ASSUME NEW k \in 0..(m + 1), NEW c \in C
          PROVE  g[<<k, c>>] = IF k = 0 THEN base[c] ELSE F[<<c, g[<<k - 1, move[c]>>]>>]
      <3>1. move[c] \in C
        OBVIOUS
      <3>2. CASE k = m + 1
        BY <2>4, <3>1, <3>2
      <3>3. CASE k \in 0..m
        <4>1. g[<<k, c>>] = f[<<k, c>>] /\ (k # 0 => g[<<k - 1, move[c]>>] = f[<<k - 1, move[c]>>])
          BY <2>4, <3>1, <3>3
        <4>2. f[<<k, c>>] = IF k = 0 THEN base[c] ELSE F[<<c, f[<<k - 1, move[c]>>]>>]
          BY <2>1, <3>3 DEF CountsDown
        <4>3. QED
          BY <4>1, <4>2
      <3>4. QED
        BY <3>2, <3>3
    <2>7. CountsDown(g, m + 1, C, V, base, move, F)
      BY <2>5, <2>6 DEF CountsDown
    <2>8. QED
      BY <2>7
  <1> HIDE DEF S
  <1>3. n \in S
    BY <1>1, <1>2, Induction
  <1>4. QED
    BY <1>3 DEF S

-----------------------------------------------------------------------------
(* The iteration strategies.                                               *)
N == Cardinality(Nodes)

LEMMA Numbers == N \in Nat /\ Steps = 0..N
  BY NodesAssumption, FS_CardinalityType DEF N, Steps

Stops(l, c) == c \notin Nodes \/ l.node[c].valid
SkipsBy(f, l, link) ==
  f = [x \in Steps \X Pointers |->
         IF x[1] = 0 \/ x[2] \notin Nodes \/ l.node[x[2]].valid THEN x[2]
         ELSE f[<<x[1] - 1, l.node[x[2]][link]>>]]

Linked(l, link) == \A c \in Nodes : l.node[c][link] \in Pointers
Unfolds(f, l, link) ==
  \A k \in 0..N, c \in Pointers :
    f[<<k, c>>] = IF k = 0 \/ Stops(l, c) THEN c ELSE f[<<k - 1, l.node[c][link]>>]

LEMMA SkipUnfolds ==
  ASSUME NEW l, NEW link, Linked(l, link)
  PROVE  \E f : Unfolds(f, l, link) /\ \A p : Skip(l, p, link) = f[<<N, p>>]
  <1> DEFINE base == [c \in Pointers |-> c]
             move == [c \in Pointers |-> IF c \in Nodes THEN l.node[c][link] ELSE c]
             F    == [y \in Pointers \X Pointers |-> IF Stops(l, y[1]) THEN y[1] ELSE y[2]]
  <1>1. base \in [Pointers -> Pointers] /\ move \in [Pointers -> Pointers] /\ F \in [Pointers \X Pointers -> Pointers]
    BY DEF Linked
  <1>2. /\ \A c \in Pointers : base[c] = c /\ move[c] \in Pointers
        /\ \A c \in Pointers : ~Stops(l, c) => move[c] = l.node[c][link]
        /\ \A c, d \in Pointers : F[<<c, d>>] = IF Stops(l, c) THEN c ELSE d
    BY <1>1 DEF Stops
  <1> HIDE DEF base, move, F
  <1>3. PICK g : CountsDown(g, N, Pointers, Pointers, base, move, F)
    BY <1>1, Numbers, CountDownExists
  <1>4. ASSUME NEW k \in 0..N, NEW c \in Pointers
        PROVE  g[<<k, c>>] = IF k = 0 \/ Stops(l, c) THEN c ELSE g[<<k - 1, l.node[c][link]>>]
    <2>1. g[<<k, c>>] = IF k = 0 THEN base[c] ELSE F[<<c, g[<<k - 1, move[c]>>]>>]
      BY <1>3 DEF CountsDown
    <2>2. k # 0 => g[<<k - 1, move[c]>>] \in Pointers
      <3>1. k # 0 => k - 1 \in 0..N
        BY Numbers
      <3>2. QED
        BY <1>2, <1>3, <3>1 DEF CountsDown
    <2>3. QED
      BY <1>2, <2>1, <2>2
  <1>5. SkipsBy(g, l, link)
    <2>1. ASSUME NEW x \in Steps \X Pointers
          PROVE  g[x] = IF x[1] = 0 \/ x[2] \notin Nodes \/ l.node[x[2]].valid THEN x[2]
                        ELSE g[<<x[1] - 1, l.node[x[2]][link]>>]
      <3>1. PICK k \in 0..N, c \in Pointers : x = <<k, c>>
        BY Numbers
      <3>2. QED
        BY <1>4, <3>1 DEF Stops
    <2>2. g = [x \in Steps \X Pointers |-> g[x]]
      BY <1>3, Numbers DEF CountsDown
    <2>3. QED
      BY <2>1, <2>2 DEF SkipsBy
  <1>6. PICK f : SkipsBy(f, l, link) /\ \A p : Skip(l, p, link) = f[<<N, p>>]
    BY <1>5 DEF SkipsBy, Skip, N
  <1>7. ASSUME NEW k \in 0..N, NEW c \in Pointers
        PROVE  f[<<k, c>>] = IF k = 0 \/ Stops(l, c) THEN c ELSE f[<<k - 1, l.node[c][link]>>]
    BY <1>6, Numbers DEF SkipsBy, Stops
  <1>8. QED
    BY <1>6, <1>7 DEF Unfolds

(* A node that is valid is not skipped, and skipping stays among the nodes  *)
(* that the links lead to.                                                 *)
LEMMA SkipStops ==
  ASSUME NEW l, NEW link, Linked(l, link),
         NEW p \in Pointers, Stops(l, p)
  PROVE  Skip(l, p, link) = p
  <1>1. PICK f : Unfolds(f, l, link) /\ \A q : Skip(l, q, link) = f[<<N, q>>]
    BY SkipUnfolds
  <1>2. N \in 0..N
    BY Numbers
  <1>3. f[<<N, p>>] = p
    BY <1>1, <1>2 DEF Unfolds
  <1>4. QED
    BY <1>1, <1>3

LinksWithin(l, link, A) == \A c \in A \cap Nodes : l.node[c][link] \in A

LEMMA SkipStays ==
  ASSUME NEW l, NEW link, Linked(l, link),
         NEW A \in SUBSET Pointers, LinksWithin(l, link, A), NEW p \in A
  PROVE  Skip(l, p, link) \in A
  <1>1. PICK f : Unfolds(f, l, link) /\ \A q : Skip(l, q, link) = f[<<N, q>>]
    BY SkipUnfolds
  <1> DEFINE S == {k \in Nat : k <= N => \A c \in A : f[<<k, c>>] \in A}
  <1>2. 0 \in S
    <2>1. 0 \in 0..N
      BY Numbers
    <2>2. \A c \in Pointers : f[<<0, c>>] = c
      BY <1>1, <2>1 DEF Unfolds
    <2>3. QED
      BY <2>2
  <1>3. ASSUME NEW k \in Nat, k \in S
        PROVE  k + 1 \in S
    <2> SUFFICES ASSUME k + 1 <= N, NEW c \in A
                 PROVE  f[<<k + 1, c>>] \in A
      OBVIOUS
    <2>1. k + 1 \in 0..N /\ k <= N /\ c \in Pointers /\ (k + 1) - 1 = k
      BY Numbers
    <2>2. f[<<k + 1, c>>] = IF Stops(l, c) THEN c ELSE f[<<k, l.node[c][link]>>]
      BY <1>1, <2>1 DEF Unfolds
    <2>3. ~Stops(l, c) => l.node[c][link] \in A
      BY DEF Stops, LinksWithin
    <2>4. QED
      BY <1>3, <2>1, <2>2, <2>3
  <1> HIDE DEF S
  <1>4. N \in S
    BY <1>2, <1>3, Induction, Numbers
  <1>5. f[<<N, p>>] \in A
    BY <1>4, Numbers DEF S
  <1>6. QED
    BY <1>1, <1>5

-----------------------------------------------------------------------------
(***************************************************************************)
(* The invariant of a list.  The valid nodes are a sequence linked both     *)
(* ways; next of every node leads forward and prev backward, in some order  *)
(* of all nodes; and no pointer leads to a node that was deleted, except    *)
(* that prev of a removed node may dangle.                                 *)
(***************************************************************************)
At(s, i) == IF i \in 1..Len(s) THEN s[i] ELSE Null

Chain(l, s) ==
  /\ s \in Seq(Nodes)
  /\ \A i, j \in 1..Len(s) : s[i] = s[j] => i = j
  /\ \A n \in Nodes : l.node[n].valid <=> \E i \in 1..Len(s) : s[i] = n
  /\ l.size = Len(s) /\ l.first = At(s, 1) /\ l.last = At(s, Len(s))
  /\ \A i \in 1..Len(s) : l.node[s[i]].next = At(s, i + 1) /\ l.node[s[i]].prev = At(s, i - 1)

Ordered(l, r) ==
  /\ r \in [Nodes -> Int]
  /\ \A n \in Nodes : /\ l.node[n].next \in Nodes => r[n] < r[l.node[n].next]
                      /\ l.node[n].prev \in Nodes => r[l.node[n].prev] < r[n]

Live(l) == {n \in Nodes : l.node[n].val # Null}

Intact(l, n) ==
  /\ l.node[n].valid => n \in Live(l)
  /\ n \notin Live(l) => l.node[n] = Free
  /\ l.node[n].next \in Live(l) \cup {Null}
  /\ l.node[n].prev \in Live(l) \cup {Null, Dangling}

Sound(l) ==
  /\ l \in ListType
  /\ \E s : Chain(l, s)
  /\ \E r : Ordered(l, r)
  /\ \A n \in Nodes : Intact(l, n)

NodeType == [val : Values \cup {Null}, valid : BOOLEAN, next : Nodes \cup {Null},
             prev : Nodes \cup {Null, Dangling}]

LEMMA Typed ==
  ASSUME NEW l
  PROVE  l \in ListType <=> /\ l = [node |-> l.node, first |-> l.first, last |-> l.last, size |-> l.size]
                           /\ l.node \in [Nodes -> NodeType] /\ l.first \in Nodes \cup {Null}
                           /\ l.last \in Nodes \cup {Null} /\ l.size \in Nat
  BY DEF ListType, NodeType

LEMMA NodeTyped ==
  ASSUME NEW l \in ListType, NEW n \in Nodes
  PROVE  /\ l.node[n] \in NodeType
         /\ l.node[n] = [val |-> l.node[n].val, valid |-> l.node[n].valid, next |-> l.node[n].next,
                         prev |-> l.node[n].prev]
         /\ l.node[n].val \in Values \cup {Null} /\ l.node[n].valid \in BOOLEAN
         /\ l.node[n].next \in Nodes \cup {Null} /\ l.node[n].prev \in Nodes \cup {Null, Dangling}
  <1>1. l.node[n] \in NodeType
    BY Typed
  <1>2. QED
    BY <1>1 DEF NodeType

LEMMA ChainMembers ==
  ASSUME NEW l, NEW s, Chain(l, s)
  PROVE  /\ Len(s) \in Nat /\ DOMAIN s = 1..Len(s)
         /\ \A i \in 1..Len(s) : s[i] \in Nodes /\ l.node[s[i]].valid
         /\ \A i : At(s, i) \in Nodes \cup {Null}
  <1>1. s \in Seq(Nodes)
    BY DEF Chain
  <1>2. Len(s) \in Nat /\ DOMAIN s = 1..Len(s) /\ \A i \in 1..Len(s) : s[i] \in Nodes
    BY <1>1
  <1>3. \A i \in 1..Len(s) : l.node[s[i]].valid
    BY <1>2 DEF Chain
  <1>4. QED
    BY <1>2, <1>3 DEF At

(***************************************************************************)
(* What each operation does, node by node.                                 *)
(***************************************************************************)
AddsLast(l, m, n, v) ==
  /\ m \in ListType
  /\ m.node[n] = [val |-> v, valid |-> TRUE, next |-> Null, prev |-> l.last]
  /\ \A x \in Nodes \ {n} :
       /\ m.node[x].val = l.node[x].val /\ m.node[x].valid = l.node[x].valid
       /\ m.node[x].prev = l.node[x].prev
       /\ m.node[x].next = IF x = l.last THEN n ELSE l.node[x].next
       /\ x # l.last => m.node[x] = l.node[x]
  /\ m.first = (IF l.last = Null THEN n ELSE l.first) /\ m.last = n /\ m.size = l.size + 1

AddsFirst(l, m, n, v) ==
  /\ m \in ListType
  /\ m.node[n] = [val |-> v, valid |-> TRUE, next |-> l.first, prev |-> Null]
  /\ \A x \in Nodes \ {n} :
       /\ m.node[x].val = l.node[x].val /\ m.node[x].valid = l.node[x].valid
       /\ m.node[x].next = l.node[x].next
       /\ m.node[x].prev = IF x = l.first THEN n ELSE l.node[x].prev
       /\ x # l.first => m.node[x] = l.node[x]
  /\ m.first = n /\ m.last = (IF l.first = Null THEN n ELSE l.last) /\ m.size = l.size + 1

TakesOut(l, m, n) ==
  LET p == l.node[n].prev
      q == l.node[n].next
  IN  /\ m \in ListType
      /\ \A x \in Nodes :
           /\ m.node[x].val = l.node[x].val /\ (m.node[x].valid <=> l.node[x].valid /\ x # n)
           /\ m.node[x].next = IF x = p THEN q ELSE l.node[x].next
           /\ m.node[x].prev = IF x = q THEN p ELSE l.node[x].prev
           /\ x \notin {n, p, q} => m.node[x] = l.node[x]
      /\ m.first = (IF p = Null THEN q ELSE l.first) /\ m.last = (IF q = Null THEN p ELSE l.last)
      /\ m.size = l.size - 1

Empties(l, m) ==
  /\ m \in ListType
  /\ \A x \in Nodes :
       /\ m.node[x].val = l.node[x].val /\ ~m.node[x].valid
       /\ m.node[x].next = l.node[x].next /\ m.node[x].prev = l.node[x].prev
  /\ m.first = Null /\ m.last = Null /\ m.size = 0

Keeps(l, m, kept) ==
  /\ m \in ListType
  /\ \A x \in kept :
       /\ m.node[x].val = l.node[x].val /\ m.node[x].valid = l.node[x].valid
       /\ m.node[x].next = l.node[x].next
       /\ m.node[x].prev = IF l.node[x].prev \in Nodes \ kept THEN Dangling ELSE l.node[x].prev
  /\ \A x \in Nodes \ kept : m.node[x] = Free
  /\ m.first = l.first /\ m.last = l.last /\ m.size = l.size

LEMMA FreshNode ==
  ASSUME NEW l, Unallocated(l) # {}
  PROVE  Allocate(l) \in Nodes \ Live(l)
  BY DEF Unallocated, Allocate, Live

LEMMA Ends ==
  ASSUME NEW l, Sound(l)
  PROVE  /\ l = [node |-> l.node, first |-> l.first, last |-> l.last, size |-> l.size]
         /\ l.node \in [Nodes -> NodeType] /\ l.size \in Nat
         /\ l.first \in Nodes \cup {Null} /\ l.last \in Nodes \cup {Null}
         /\ l.first # Null => l.first \in Live(l) /\ l.node[l.first].valid
         /\ l.last # Null => l.last \in Live(l) /\ l.node[l.last].valid
         /\ l.first = Null <=> l.last = Null
  <1>1. l \in ListType
    BY DEF Sound
  <1>2. PICK s : Chain(l, s)
    BY DEF Sound
  <1>3. /\ Len(s) \in Nat /\ \A i \in 1..Len(s) : s[i] \in Nodes /\ l.node[s[i]].valid
    BY <1>2, ChainMembers
  <1>4. l.first = At(s, 1) /\ l.last = At(s, Len(s))
    BY <1>2 DEF Chain
  <1>5. CASE Len(s) = 0
    <2>1. l.first = Null /\ l.last = Null
      BY <1>4, <1>5 DEF At
    <2>2. QED
      BY <1>1, <2>1, Typed
  <1>6. CASE Len(s) # 0
    <2>1. 1 \in 1..Len(s) /\ Len(s) \in 1..Len(s)
      BY <1>3, <1>6
    <2>2. l.first = s[1] /\ l.last = s[Len(s)]
      BY <1>4, <2>1 DEF At
    <2>3. l.first \in Nodes /\ l.node[l.first].valid /\ l.last \in Nodes /\ l.node[l.last].valid
      BY <1>3, <2>1, <2>2
    <2>4. l.first \in Live(l) /\ l.last \in Live(l)
      BY <2>3 DEF Sound, Intact
    <2>5. QED
      BY <1>1, <2>3, <2>4, Typed, NodesAssumption
  <1>7. QED
    BY <1>5, <1>6

LEMMA PushBackAdds ==
  ASSUME NEW l, Sound(l), NEW v \in Values, Unallocated(l) # {}
  PROVE  AddsLast(l, PushBack(l, v), Allocate(l), v)
  <1>1. PICK n : n = Allocate(l)
    OBVIOUS
  <1>2. n \in Nodes /\ l.last # n /\ l.last \in Nodes \cup {Null}
    BY <1>1, FreshNode, Ends, NodesAssumption
  <1>3. PICK e : e = [val |-> v, valid |-> TRUE, next |-> Null, prev |-> l.last]
    OBVIOUS
  <1>4. e \in NodeType
    BY <1>2, <1>3 DEF NodeType
  <1>5. PICK m : m = PushBack(l, v)
    OBVIOUS
  <1>6. /\ l = [node |-> l.node, first |-> l.first, last |-> l.last, size |-> l.size]
        /\ l.node \in [Nodes -> NodeType] /\ l.size \in Nat /\ l.first \in Nodes \cup {Null}
    BY Ends
  <1>7. PICK nd : nd = [l.node EXCEPT ![n] = e]
    OBVIOUS
  <1>8. nd \in [Nodes -> NodeType] /\ nd[n] = e /\ \A x \in Nodes \ {n} : nd[x] = l.node[x]
    BY <1>2, <1>4, <1>6, <1>7
  <1>9. CASE l.last = Null
    <2>1. m = [node |-> nd, first |-> n, last |-> n, size |-> l.size + 1]
      BY <1>1, <1>3, <1>5, <1>6, <1>7, <1>9 DEF PushBack
    <2>2. m \in ListType
      BY <1>2, <1>6, <1>8, <2>1, Typed
    <2>3. QED
      BY <1>1, <1>2, <1>3, <1>5, <1>8, <1>9, <2>1, <2>2, NodesAssumption DEF AddsLast
  <1>10. CASE l.last # Null
    <2>1. PICK b : b = l.last
      OBVIOUS
    <2>2. b \in Nodes /\ b # n
      BY <1>2, <1>10, <2>1
    <2>3. PICK f : f = [nd[b] EXCEPT !.next = n]
      OBVIOUS
    <2>4. /\ f \in NodeType /\ f.next = n /\ f.val = l.node[b].val /\ f.valid = l.node[b].valid
          /\ f.prev = l.node[b].prev
      BY <1>2, <1>8, <2>2, <2>3 DEF NodeType
    <2>5. m = [node |-> [nd EXCEPT ![b] = f], first |-> l.first, last |-> n, size |-> l.size + 1]
      <3>1. PICK g : g = [l EXCEPT !.node[n] = e, !.last = n, !.size = @ + 1]
        OBVIOUS
      <3>2. g = [node |-> nd, first |-> l.first, last |-> n, size |-> l.size + 1]
        BY <1>6, <1>7, <3>1
      <3>3. m = [g EXCEPT !.node[b].next = n]
        BY <1>1, <1>3, <1>5, <1>10, <2>1, <3>1 DEF PushBack
      <3>4. QED
        BY <2>3, <3>2, <3>3
    <2>6. [nd EXCEPT ![b] = f] \in [Nodes -> NodeType]
      BY <1>8, <2>2, <2>4
    <2>7. m \in ListType
      BY <1>2, <1>6, <2>5, <2>6, Typed
    <2>8. /\ m.node[n] = e /\ m.node[b] = f /\ \A x \in Nodes \ {n, b} : m.node[x] = l.node[x]
      BY <1>2, <1>8, <2>2, <2>5
    <2>9. QED
      BY <1>1, <1>2, <1>3, <1>5, <1>10, <2>1, <2>2, <2>4, <2>5, <2>7, <2>8 DEF AddsLast
  <1>11. QED
    BY <1>9, <1>10

LEMMA PushFrontAdds ==
  ASSUME NEW l, Sound(l), NEW v \in Values, Unallocated(l) # {}
  PROVE  AddsFirst(l, PushFront(l, v), Allocate(l), v)
  <1>1. PICK n : n = Allocate(l)
    OBVIOUS
  <1>2. n \in Nodes /\ l.first # n /\ l.first \in Nodes \cup {Null}
    BY <1>1, FreshNode, Ends, NodesAssumption
  <1>3. PICK e : e = [val |-> v, valid |-> TRUE, next |-> l.first, prev |-> Null]
    OBVIOUS
  <1>4. e \in NodeType
    BY <1>2, <1>3 DEF NodeType
  <1>5. PICK m : m = PushFront(l, v)
    OBVIOUS
  <1>6. /\ l = [node |-> l.node, first |-> l.first, last |-> l.last, size |-> l.size]
        /\ l.node \in [Nodes -> NodeType] /\ l.size \in Nat /\ l.last \in Nodes \cup {Null}
    BY Ends
  <1>7. PICK nd : nd = [l.node EXCEPT ![n] = e]
    OBVIOUS
  <1>8. nd \in [Nodes -> NodeType] /\ nd[n] = e /\ \A x \in Nodes \ {n} : nd[x] = l.node[x]
    BY <1>2, <1>4, <1>6, <1>7
  <1>9. CASE l.first = Null
    <2>1. m = [node |-> nd, first |-> n, last |-> n, size |-> l.size + 1]
      BY <1>1, <1>3, <1>5, <1>6, <1>7, <1>9 DEF PushFront
    <2>2. m \in ListType
      BY <1>2, <1>6, <1>8, <2>1, Typed
    <2>3. QED
      BY <1>1, <1>2, <1>3, <1>5, <1>8, <1>9, <2>1, <2>2, NodesAssumption DEF AddsFirst
  <1>10. CASE l.first # Null
    <2>1. PICK b : b = l.first
      OBVIOUS
    <2>2. b \in Nodes /\ b # n
      BY <1>2, <1>10, <2>1
    <2>3. PICK f : f = [nd[b] EXCEPT !.prev = n]
      OBVIOUS
    <2>4. /\ f \in NodeType /\ f.prev = n /\ f.val = l.node[b].val /\ f.valid = l.node[b].valid
          /\ f.next = l.node[b].next
      BY <1>2, <1>8, <2>2, <2>3 DEF NodeType
    <2>5. m = [node |-> [nd EXCEPT ![b] = f], first |-> n, last |-> l.last, size |-> l.size + 1]
      <3>1. PICK g : g = [l EXCEPT !.node[n] = e, !.first = n, !.size = @ + 1]
        OBVIOUS
      <3>2. g = [node |-> nd, first |-> n, last |-> l.last, size |-> l.size + 1]
        BY <1>6, <1>7, <3>1
      <3>3. m = [g EXCEPT !.node[b].prev = n]
        BY <1>1, <1>3, <1>5, <1>10, <2>1, <3>1 DEF PushFront
      <3>4. QED
        BY <2>3, <3>2, <3>3
    <2>6. [nd EXCEPT ![b] = f] \in [Nodes -> NodeType]
      BY <1>8, <2>2, <2>4
    <2>7. m \in ListType
      BY <1>2, <1>6, <2>5, <2>6, Typed
    <2>8. /\ m.node[n] = e /\ m.node[b] = f /\ \A x \in Nodes \ {n, b} : m.node[x] = l.node[x]
      BY <1>2, <1>8, <2>2, <2>5
    <2>9. QED
      BY <1>1, <1>2, <1>3, <1>5, <1>10, <2>1, <2>2, <2>4, <2>5, <2>7, <2>8 DEF AddsFirst
  <1>11. QED
    BY <1>9, <1>10

LEMMA Neighbours ==
  ASSUME NEW l, Sound(l), NEW n \in Nodes, l.node[n].valid
  PROVE  LET p == l.node[n].prev
             q == l.node[n].next
         IN  /\ p \in (Nodes \ {n}) \cup {Null} /\ q \in (Nodes \ {n}) \cup {Null}
             /\ p # Null => p # q
             /\ l.size > 0
  <1>1. PICK s : Chain(l, s)
    BY DEF Sound
  <1>2. PICK k \in 1..Len(s) : s[k] = n
    BY <1>1 DEF Chain
  <1>3. l.node[n].prev = At(s, k - 1) /\ l.node[n].next = At(s, k + 1) /\ l.size = Len(s)
    BY <1>1, <1>2 DEF Chain
  <1>4. Len(s) \in Nat /\ \A i \in 1..Len(s) : s[i] \in Nodes
    BY <1>1, ChainMembers
  <1>5. \A i \in 1..Len(s) : \A j \in 1..Len(s) : s[i] = s[j] => i = j
    BY <1>1 DEF Chain
  <1>6. At(s, k - 1) \in (Nodes \ {n}) \cup {Null}
    BY <1>2, <1>4, <1>5 DEF At
  <1>7. At(s, k + 1) \in (Nodes \ {n}) \cup {Null}
    BY <1>2, <1>4, <1>5 DEF At
  <1>8. At(s, k - 1) # Null => At(s, k - 1) # At(s, k + 1)
    <2>1. ASSUME k - 1 \in 1..Len(s), k + 1 \in 1..Len(s) PROVE s[k - 1] # s[k + 1]
      BY <1>4, <1>5, <2>1
    <2>2. QED
      BY <1>4, <2>1, NodesAssumption DEF At
  <1>9. QED
    BY <1>2, <1>3, <1>4, <1>6, <1>7, <1>8

LEMMA RemoveNodeTakesOut ==
  ASSUME NEW l, Sound(l), NEW n \in Nodes, l.node[n].valid
  PROVE  TakesOut(l, RemoveNode(l, n), n)
  <1>1. PICK p, q : p = l.node[n].prev /\ q = l.node[n].next
    OBVIOUS
  <1>2. /\ p \in (Nodes \ {n}) \cup {Null} /\ q \in (Nodes \ {n}) \cup {Null} /\ (p # Null => p # q)
        /\ l.size > 0
    BY <1>1, Neighbours
  <1>3. /\ l = [node |-> l.node, first |-> l.first, last |-> l.last, size |-> l.size]
        /\ l.node \in [Nodes -> NodeType] /\ l.size \in Nat
        /\ l.first \in Nodes \cup {Null} /\ l.last \in Nodes \cup {Null}
    BY Ends
  <1>4. PICK e : e = [l.node[n] EXCEPT !.valid = FALSE]
    OBVIOUS
  <1>5. /\ e \in NodeType /\ e.valid = FALSE /\ e.val = l.node[n].val
        /\ e.next = q /\ e.prev = p
    BY <1>1, <1>3, <1>4 DEF NodeType
  <1>6. PICK nd : nd = [l.node EXCEPT ![n] = e]
    OBVIOUS
  <1>7. nd \in [Nodes -> NodeType] /\ nd[n] = e /\ \A x \in Nodes \ {n} : nd[x] = l.node[x]
    BY <1>3, <1>5, <1>6
  <1>8. PICK g : g = [l EXCEPT !.node[n].valid = FALSE, !.size = @ - 1]
    OBVIOUS
  <1>9. g = [node |-> nd, first |-> l.first, last |-> l.last, size |-> l.size - 1]
    BY <1>3, <1>4, <1>6, <1>8
  <1>10. PICK f : f = [nd[p] EXCEPT !.next = q]
    OBVIOUS
  <1>11. p # Null => /\ f \in NodeType /\ f.next = q /\ f.val = l.node[p].val
                     /\ f.valid = l.node[p].valid /\ f.prev = l.node[p].prev
    BY <1>2, <1>7, <1>10 DEF NodeType
  <1>12. PICK nd2 : nd2 = IF p = Null THEN nd ELSE [nd EXCEPT ![p] = f]
    OBVIOUS
  <1>13. /\ nd2 \in [Nodes -> NodeType] /\ nd2[n] = e
         /\ (p # Null => nd2[p] = f) /\ \A x \in Nodes \ {n, p} : nd2[x] = l.node[x]
    BY <1>2, <1>7, <1>11, <1>12
  <1>14. Unlink(l, n) = [node |-> nd2, first |-> IF p = Null THEN q ELSE l.first, last |-> l.last,
                         size |-> l.size - 1]
    <2>1. p = Null => Unlink(l, n) = [g EXCEPT !.first = q]
      BY <1>1, <1>8 DEF Unlink
    <2>2. p # Null => Unlink(l, n) = [g EXCEPT !.node[p].next = q]
      BY <1>1, <1>8 DEF Unlink
    <2>3. CASE p = Null
      BY <1>9, <1>12, <2>1, <2>3
    <2>4. CASE p # Null
      BY <1>9, <1>10, <1>12, <2>2, <2>4
    <2>5. QED
      BY <2>3, <2>4
  <1>15. PICK h : h = [nd2[q] EXCEPT !.prev = p]
    OBVIOUS
  <1>16. q # Null => /\ h \in NodeType /\ h.prev = p /\ h.val = l.node[q].val
                     /\ h.valid = l.node[q].valid /\ h.next = l.node[q].next
    BY <1>2, <1>13, <1>15 DEF NodeType
  <1>17. PICK nd3 : nd3 = IF q = Null THEN nd2 ELSE [nd2 EXCEPT ![q] = h]
    OBVIOUS
  <1>18. /\ nd3 \in [Nodes -> NodeType] /\ nd3[n] = e /\ (p # Null => nd3[p] = f)
         /\ (q # Null => nd3[q] = h) /\ \A x \in Nodes \ {n, p, q} : nd3[x] = l.node[x]
    BY <1>2, <1>13, <1>16, <1>17
  <1>19. PICK m : m = RemoveNode(l, n)
    OBVIOUS
  <1>20. m = [node |-> nd3, first |-> IF p = Null THEN q ELSE l.first,
              last |-> IF q = Null THEN p ELSE l.last, size |-> l.size - 1]
    <2>1. q = Null => m = [Unlink(l, n) EXCEPT !.last = p]
      BY <1>1, <1>19 DEF RemoveNode
    <2>2. q # Null => m = [Unlink(l, n) EXCEPT !.node[q].prev = p]
      BY <1>1, <1>19 DEF RemoveNode
    <2>3. CASE q = Null
      BY <1>14, <1>17, <2>1, <2>3
    <2>4. CASE q # Null
      BY <1>14, <1>15, <1>17, <2>2, <2>4
    <2>5. QED
      BY <2>3, <2>4
  <1>21. m \in ListType
    BY <1>2, <1>3, <1>18, <1>20, Typed
  <1>22. ASSUME NEW x \in Nodes
         PROVE  /\ m.node[x].val = l.node[x].val /\ (m.node[x].valid <=> l.node[x].valid /\ x # n)
                /\ m.node[x].next = (IF x = p THEN q ELSE l.node[x].next)
                /\ m.node[x].prev = (IF x = q THEN p ELSE l.node[x].prev)
                /\ x \notin {n, p, q} => m.node[x] = l.node[x]
    <2>1. m.node = nd3
      BY <1>20
    <2>2. CASE x = n
      BY <1>1, <1>2, <1>5, <1>18, <2>1, <2>2
    <2>3. CASE x = p
      BY <1>2, <1>11, <1>18, <2>1, <2>3, NodesAssumption
    <2>4. CASE x = q
      BY <1>2, <1>16, <1>18, <2>1, <2>4, NodesAssumption
    <2>5. CASE x \notin {n, p, q}
      BY <1>18, <2>1, <2>5
    <2>6. QED
      BY <2>2, <2>3, <2>4, <2>5
  <1>23. QED
    BY <1>1, <1>19, <1>20, <1>21, <1>22 DEF TakesOut

-----------------------------------------------------------------------------
(* Walks.  mv is the iterator's move, as a function.                       *)
WalksBy(f, mv) ==
  \A k \in 0..N, c \in Pointers :
    f[<<k, c>>] = IF k = 0 \/ c = Null THEN <<>>
                  ELSE IF c = Dangling THEN <<c>> ELSE <<c>> \o f[<<k - 1, mv[c]>>]

LEMMA WalkUnfolds ==
  ASSUME NEW mv \in [Nodes -> Pointers]
  PROVE  \E f : /\ f = [x \in Steps \X Pointers |->
                          IF x[1] = 0 \/ x[2] = Null THEN <<>>
                          ELSE IF x[2] = Dangling THEN <<x[2]>> ELSE <<x[2]>> \o f[<<x[1] - 1, mv[x[2]]>>]]
                /\ WalksBy(f, mv)
  <1> DEFINE V    == Seq(Pointers)
             base == [c \in Pointers |-> <<>>]
             move == [c \in Pointers |-> IF c \in Nodes THEN mv[c] ELSE c]
             F    == [y \in Pointers \X V |-> IF y[1] = Null THEN <<>>
                                              ELSE IF y[1] = Dangling THEN <<y[1]>> ELSE <<y[1]>> \o y[2]]
  <1>1. base \in [Pointers -> V] /\ move \in [Pointers -> Pointers]
    OBVIOUS
  <1>2. F \in [Pointers \X V -> V]
    <2>1. \A c \in Pointers, w \in V : <<>> \in V /\ <<c>> \in V /\ <<c>> \o w \in V
      OBVIOUS
    <2>2. QED
      BY <2>1
  <1>3. /\ \A c \in Pointers : base[c] = <<>> /\ move[c] \in Pointers
        /\ \A c \in Nodes : move[c] = mv[c]
        /\ \A c \in Pointers, w \in V : F[<<c, w>>] = IF c = Null THEN <<>>
                                                     ELSE IF c = Dangling THEN <<c>> ELSE <<c>> \o w
    BY <1>1 DEF Pointers
  <1> HIDE DEF base, move, F, V
  <1>4. PICK g : CountsDown(g, N, Pointers, V, base, move, F)
    BY <1>1, <1>2, Numbers, CountDownExists
  <1>5. ASSUME NEW k \in 0..N, NEW c \in Pointers
        PROVE  g[<<k, c>>] = IF k = 0 \/ c = Null THEN <<>>
                             ELSE IF c = Dangling THEN <<c>> ELSE <<c>> \o g[<<k - 1, mv[c]>>]
    <2>1. g[<<k, c>>] = IF k = 0 THEN base[c] ELSE F[<<c, g[<<k - 1, move[c]>>]>>]
      BY <1>4 DEF CountsDown
    <2>2. k # 0 => g[<<k - 1, move[c]>>] \in V
      <3>1. k # 0 => k - 1 \in 0..N
        BY Numbers
      <3>2. QED
        BY <1>3, <1>4, <3>1 DEF CountsDown
    <2>3. c # Null /\ c # Dangling => c \in Nodes
      BY DEF Pointers
    <2>4. QED
      BY <1>3, <2>1, <2>2, <2>3
  <1>6. g = [x \in Steps \X Pointers |->
               IF x[1] = 0 \/ x[2] = Null THEN <<>>
               ELSE IF x[2] = Dangling THEN <<x[2]>> ELSE <<x[2]>> \o g[<<x[1] - 1, mv[x[2]]>>]]
    <2>1. ASSUME NEW x \in Steps \X Pointers
          PROVE  g[x] = IF x[1] = 0 \/ x[2] = Null THEN <<>>
                        ELSE IF x[2] = Dangling THEN <<x[2]>> ELSE <<x[2]>> \o g[<<x[1] - 1, mv[x[2]]>>]
      <3>1. PICK k \in 0..N, c \in Pointers : x = <<k, c>>
        BY Numbers
      <3>2. QED
        BY <1>5, <3>1
    <2>2. g = [x \in Steps \X Pointers |-> g[x]]
      BY <1>4, Numbers DEF CountsDown
    <2>3. QED
      BY <2>1, <2>2
  <1>7. QED
    BY <1>5, <1>6 DEF WalksBy

(* A walk along a sequence of nodes lists that sequence.                   *)
Follows(mv, s) ==
  /\ s \in Seq(Nodes) /\ Len(s) <= N
  /\ \A i \in 1..Len(s) : mv[s[i]] = At(s, i + 1)

LEMMA SameSeq ==
  ASSUME NEW A, NEW a \in Seq(A), NEW b \in Seq(A), Len(a) = Len(b), \A i \in 1..Len(a) : a[i] = b[i]
  PROVE  a = b
  OBVIOUS

LEMMA SeqCons ==
  ASSUME NEW A, NEW a \in Seq(A), NEW e \in A, NEW c, c = <<e>> \o a
  PROVE  /\ c \in Seq(A) /\ Len(c) = Len(a) + 1
         /\ c[1] = e /\ \A j \in 1..Len(a) : c[j + 1] = a[j]
  OBVIOUS

LEMMA WalkLists ==
  ASSUME NEW mv, NEW f, WalksBy(f, mv), NEW s, Follows(mv, s)
  PROVE  f[<<N, At(s, 1)>>] = s
  <1>1. s \in Seq(Nodes) /\ Len(s) \in Nat /\ Len(s) <= N /\ \A i \in 1..Len(s) : s[i] \in Nodes
    BY DEF Follows
  <1> DEFINE Rest(i) == [j \in 1..(Len(s) + 1 - i) |-> s[i + j - 1]]
             S == {k \in Nat : k <= N => \A i \in 1..(Len(s) + 1) :
                                           Len(s) + 1 - i <= k => f[<<k, At(s, i)>>] = Rest(i)}
  <1>2. Rest(Len(s) + 1) = <<>>
    BY <1>1
  <1>3. \A k \in 0..N : f[<<k, Null>>] = <<>>
    BY DEF WalksBy, Pointers
  <1>4. At(s, Len(s) + 1) = Null
    BY <1>1 DEF At
  <1>5. 0 \in S
    <2>1. ASSUME NEW i \in 1..(Len(s) + 1), Len(s) + 1 - i <= 0
          PROVE  f[<<0, At(s, i)>>] = Rest(i)
      <3>1. i = Len(s) + 1 /\ 0 \in 0..N
        BY <1>1, <2>1, Numbers
      <3>2. QED
        BY <1>2, <1>3, <1>4, <3>1
    <2>2. QED
      BY <2>1
  <1>6. ASSUME NEW k \in Nat, k \in S
        PROVE  k + 1 \in S
    <2>0. k + 1 \in Nat
      OBVIOUS
    <2> HIDE DEF Rest
    <2> SUFFICES ASSUME k + 1 <= N, NEW i \in 1..(Len(s) + 1), Len(s) + 1 - i <= k + 1
                 PROVE  f[<<k + 1, At(s, i)>>] = Rest(i)
      BY <2>0
    <2> USE DEF Rest
    <2>1. k + 1 \in 0..N /\ k \in 0..N /\ (k + 1) - 1 = k
      BY Numbers
    <2>2. CASE i = Len(s) + 1
      BY <1>2, <1>3, <1>4, <2>1, <2>2
    <2>3. CASE i \in 1..Len(s)
      <3>1. At(s, i) = s[i] /\ s[i] \in Nodes /\ s[i] # Null /\ s[i] # Dangling
        BY <1>1, <2>3, NodesAssumption DEF At
      <3>2. f[<<k + 1, s[i]>>] = <<s[i]>> \o f[<<k, mv[s[i]]>>]
        <4>1. s[i] \in Pointers /\ k + 1 # 0
          BY <2>1, <3>1 DEF Pointers
        <4>2. f[<<k + 1, s[i]>>] = IF k + 1 = 0 \/ s[i] = Null THEN <<>>
                ELSE IF s[i] = Dangling THEN <<s[i]>> ELSE <<s[i]>> \o f[<<(k + 1) - 1, mv[s[i]]>>]
          BY <2>1, <4>1 DEF WalksBy
        <4>3. QED
          BY <2>1, <3>1, <4>1, <4>2
      <3>3. i + 1 \in 1..(Len(s) + 1) /\ Len(s) + 1 - (i + 1) <= k
        BY <1>1, <2>3
      <3>4. f[<<k, At(s, i + 1)>>] = Rest(i + 1)
        BY <1>6, <2>1, <3>3
      <3>5. mv[s[i]] = At(s, i + 1)
        BY <2>3 DEF Follows
      <3>6. <<s[i]>> \o Rest(i + 1) = Rest(i)
        <4>1. Rest(i + 1) \in Seq(Nodes) /\ Len(Rest(i + 1)) = Len(s) - i
          BY <1>1, <2>3
        <4>2. Rest(i) \in Seq(Nodes) /\ Len(Rest(i)) = Len(s) + 1 - i
          BY <1>1, <2>3
        <4>3. PICK a : a = Rest(i + 1)
          OBVIOUS
        <4>4. PICK b : b = Rest(i)
          OBVIOUS
        <4>5. \A j \in 1..(Len(s) - i) : a[j] = s[i + j]
          BY <1>1, <2>3, <4>3
        <4>6. \A j \in 1..(Len(s) + 1 - i) : b[j] = s[i + j - 1]
          BY <4>4
        <4>7. PICK c : c = <<s[i]>> \o a
          OBVIOUS
        <4>8. a \in Seq(Nodes) /\ b \in Seq(Nodes) /\ Len(a) = Len(s) - i /\ Len(b) = Len(s) + 1 - i
          BY <4>1, <4>2, <4>3, <4>4
        <4> HIDE DEF Rest
        <4>9. /\ c \in Seq(Nodes) /\ Len(c) = Len(b)
              /\ c[1] = s[i] /\ \A j \in 1..(Len(s) - i) : c[j + 1] = a[j]
          <5>1. Len(s) - i \in Nat /\ Len(a) + 1 = Len(b)
            BY <1>1, <2>3, <4>8
          <5>2. QED
            BY <3>1, <4>7, <4>8, <5>1, SeqCons
        <4>10. ASSUME NEW j \in 1..Len(c) PROVE c[j] = b[j]
          <5>1. j \in 1..(Len(s) + 1 - i)
            BY <4>8, <4>9
          <5>2. CASE j = 1
            BY <1>1, <2>3, <4>6, <4>9, <5>1, <5>2
          <5>3. CASE j # 1
            <6>1. j - 1 \in 1..(Len(s) - i) /\ (j - 1) + 1 = j /\ i + (j - 1) = i + j - 1
              BY <1>1, <2>3, <5>1, <5>3
            <6>2. QED
              BY <4>5, <4>6, <4>9, <5>1, <6>1
          <5>4. QED
            BY <5>2, <5>3
        <4>11. c = b
          BY <4>8, <4>9, <4>10, SameSeq
        <4>12. QED
          BY <4>3, <4>4, <4>7, <4>11
      <3>7. QED
        BY <3>1, <3>2, <3>4, <3>5, <3>6
    <2>4. QED
      BY <1>1, <2>2, <2>3
  <1> HIDE DEF S
  <1>7. N \in S
    BY <1>5, <1>6, Induction, Numbers
  <1>8. f[<<N, At(s, 1)>>] = Rest(1)
    BY <1>1, <1>7, Numbers DEF S
  <1>9. Rest(1) = s
    BY <1>1
  <1>10. QED
    BY <1>8, <1>9

LEMMA ChainShort ==
  ASSUME NEW l, NEW s, Chain(l, s)
  PROVE  Len(s) \in 0..N
  <1>1. Len(s) \in Nat /\ s \in [1..Len(s) -> Nodes] /\ \A i, j \in 1..Len(s) : s[i] = s[j] => i = j
    BY DEF Chain
  <1>2. s \in Injection(1..Len(s), Nodes)
    BY <1>1 DEF Injection, IsInjective
  <1>3. Cardinality(1..Len(s)) <= N
    BY <1>2, FS_Injection, NodesAssumption DEF N
  <1>4. Cardinality(1..Len(s)) = Len(s)
    BY <1>1, FS_Interval
  <1>5. QED
    BY <1>1, <1>3, <1>4

LEMMA LinkedType ==
  ASSUME NEW l \in ListType
  PROVE  Linked(l, "next") /\ Linked(l, "prev")
  BY NodeTyped DEF Linked, Pointers

(* The moves of an iterator stay among the nodes, and stop at the elements. *)
LEMMA MovesTyped ==
  ASSUME NEW l \in ListType, NEW n \in Nodes
  PROVE  Inc(l, n) \in Pointers /\ Dec(l, n) \in Pointers
  <1>1. Linked(l, "next") /\ Linked(l, "prev")
    BY LinkedType
  <1>2. LinksWithin(l, "next", Pointers) /\ LinksWithin(l, "prev", Pointers)
    BY <1>1 DEF LinksWithin, Linked
  <1>3. l.node[n].next \in Pointers /\ l.node[n].prev \in Pointers
    BY NodeTyped DEF Pointers
  <1>4. Skip(l, l.node[n].next, "next") \in Pointers
    BY <1>1, <1>2, <1>3, SkipStays
  <1>5. Skip(l, l.node[n].prev, "prev") \in Pointers
    BY <1>1, <1>2, <1>3, SkipStays
  <1>6. QED
    BY <1>4, <1>5 DEF Inc, Dec

LEMMA MovesAlong ==
  ASSUME NEW l \in ListType, NEW s, Chain(l, s), NEW i \in 1..Len(s)
  PROVE  Inc(l, s[i]) = At(s, i + 1) /\ Dec(l, s[i]) = At(s, i - 1)
  <1>1. Linked(l, "next") /\ Linked(l, "prev")
    BY LinkedType
  <1>2. \A j : At(s, j) \in Pointers /\ Stops(l, At(s, j))
    BY ChainMembers, NodesAssumption DEF At, Stops, Pointers
  <1>3. l.node[s[i]].next = At(s, i + 1) /\ l.node[s[i]].prev = At(s, i - 1)
    BY DEF Chain
  <1>4. Skip(l, At(s, i + 1), "next") = At(s, i + 1)
    BY <1>1, <1>2, SkipStops
  <1>5. Skip(l, At(s, i - 1), "prev") = At(s, i - 1)
    BY <1>1, <1>2, SkipStops
  <1>6. QED
    BY <1>3, <1>4, <1>5 DEF Inc, Dec

(* A walk from the first of nodes that the moves lead along lists them.     *)
LEMMA WalkInc ==
  ASSUME NEW l \in ListType, NEW u \in Seq(Nodes), Len(u) <= N, \A i \in 1..Len(u) : Inc(l, u[i]) = At(u, i + 1)
  PROVE  Walk(l, At(u, 1), Inc) = u
  <1> DEFINE mv == [n \in Nodes |-> Inc(l, n)]
  <1>1. mv \in [Nodes -> Pointers] /\ \A n \in Nodes : mv[n] = Inc(l, n)
    BY MovesTyped
  <1>2. Follows(mv, u)
    <2>1. \A i \in 1..Len(u) : u[i] \in Nodes
      OBVIOUS
    <2>2. \A i \in 1..Len(u) : mv[u[i]] = At(u, i + 1)
      BY <1>1, <2>1
    <2>3. QED
      BY <2>2 DEF Follows
  <1> DEFINE W(f) == f = [x \in Steps \X Pointers |->
                          IF x[1] = 0 \/ x[2] = Null THEN <<>>
                          ELSE IF x[2] = Dangling THEN <<x[2]>> ELSE <<x[2]>> \o f[<<x[1] - 1, Inc(l, x[2])>>]]
  <1>3. PICK g : /\ g = [x \in Steps \X Pointers |->
                          IF x[1] = 0 \/ x[2] = Null THEN <<>>
                          ELSE IF x[2] = Dangling THEN <<x[2]>> ELSE <<x[2]>> \o g[<<x[1] - 1, mv[x[2]]>>]]
                 /\ WalksBy(g, mv)
    BY <1>1, WalkUnfolds
  <1>4. \A x \in Steps \X Pointers : x[2] # Null /\ x[2] # Dangling => mv[x[2]] = Inc(l, x[2])
    BY <1>1 DEF Pointers
  <1> HIDE DEF mv
  <1>5. W(g)
    BY <1>3, <1>4
  <1>6. PICK f : W(f) /\ Walk(l, At(u, 1), Inc) = f[<<N, At(u, 1)>>]
    BY <1>5 DEF Walk, N
  <1>7. \A k \in 0..N, c \in Pointers :
          f[<<k, c>>] = IF k = 0 \/ c = Null THEN <<>>
                        ELSE IF c = Dangling THEN <<c>> ELSE <<c>> \o f[<<k - 1, Inc(l, c)>>]
    BY <1>6, Numbers
  <1>8. WalksBy(f, mv)
    <2>1. ASSUME NEW k \in 0..N, NEW c \in Pointers
          PROVE  f[<<k, c>>] = IF k = 0 \/ c = Null THEN <<>>
                               ELSE IF c = Dangling THEN <<c>> ELSE <<c>> \o f[<<k - 1, mv[c]>>]
      <3>1. c # Null /\ c # Dangling => mv[c] = Inc(l, c)
        BY <1>1 DEF Pointers
      <3>2. QED
        BY <1>7, <3>1
    <2>2. QED
      BY <2>1 DEF WalksBy
  <1>9. f[<<N, At(u, 1)>>] = u
    BY <1>2, <1>8, WalkLists
  <1>10. QED
    BY <1>6, <1>9

LEMMA WalkDec ==
  ASSUME NEW l \in ListType, NEW u \in Seq(Nodes), Len(u) <= N, \A i \in 1..Len(u) : Dec(l, u[i]) = At(u, i + 1)
  PROVE  Walk(l, At(u, 1), Dec) = u
  <1> DEFINE mv == [n \in Nodes |-> Dec(l, n)]
  <1>1. mv \in [Nodes -> Pointers] /\ \A n \in Nodes : mv[n] = Dec(l, n)
    BY MovesTyped
  <1>2. Follows(mv, u)
    <2>1. \A i \in 1..Len(u) : u[i] \in Nodes
      OBVIOUS
    <2>2. \A i \in 1..Len(u) : mv[u[i]] = At(u, i + 1)
      BY <1>1, <2>1
    <2>3. QED
      BY <2>2 DEF Follows
  <1> DEFINE W(f) == f = [x \in Steps \X Pointers |->
                          IF x[1] = 0 \/ x[2] = Null THEN <<>>
                          ELSE IF x[2] = Dangling THEN <<x[2]>> ELSE <<x[2]>> \o f[<<x[1] - 1, Dec(l, x[2])>>]]
  <1>3. PICK g : /\ g = [x \in Steps \X Pointers |->
                          IF x[1] = 0 \/ x[2] = Null THEN <<>>
                          ELSE IF x[2] = Dangling THEN <<x[2]>> ELSE <<x[2]>> \o g[<<x[1] - 1, mv[x[2]]>>]]
                 /\ WalksBy(g, mv)
    BY <1>1, WalkUnfolds
  <1>4. \A x \in Steps \X Pointers : x[2] # Null /\ x[2] # Dangling => mv[x[2]] = Dec(l, x[2])
    BY <1>1 DEF Pointers
  <1> HIDE DEF mv
  <1>5. W(g)
    BY <1>3, <1>4
  <1>6. PICK f : W(f) /\ Walk(l, At(u, 1), Dec) = f[<<N, At(u, 1)>>]
    BY <1>5 DEF Walk, N
  <1>7. \A k \in 0..N, c \in Pointers :
          f[<<k, c>>] = IF k = 0 \/ c = Null THEN <<>>
                        ELSE IF c = Dangling THEN <<c>> ELSE <<c>> \o f[<<k - 1, Dec(l, c)>>]
    BY <1>6, Numbers
  <1>8. WalksBy(f, mv)
    <2>1. ASSUME NEW k \in 0..N, NEW c \in Pointers
          PROVE  f[<<k, c>>] = IF k = 0 \/ c = Null THEN <<>>
                               ELSE IF c = Dangling THEN <<c>> ELSE <<c>> \o f[<<k - 1, mv[c]>>]
      <3>1. c # Null /\ c # Dangling => mv[c] = Dec(l, c)
        BY <1>1 DEF Pointers
      <3>2. QED
        BY <1>7, <3>1
    <2>2. QED
      BY <2>1 DEF WalksBy
  <1>9. f[<<N, At(u, 1)>>] = u
    BY <1>2, <1>8, WalkLists
  <1>10. QED
    BY <1>6, <1>9

LEMMA ListedIs ==
  ASSUME NEW l \in ListType, NEW s, Chain(l, s)
  PROVE  Listed(l) = s
  <1>1. Len(s) <= N
    BY ChainShort, Numbers
  <1>4. s \in Seq(Nodes) /\ l.first = At(s, 1)
    BY DEF Chain
  <1>2. \A i \in 1..Len(s) : Inc(l, s[i]) = At(s, i + 1)
    BY MovesAlong
  <1>3. QED
    BY <1>1, <1>2, <1>4, WalkInc DEF Listed

LEMMA Backwards ==
  ASSUME NEW l \in ListType, NEW s, Chain(l, s), NEW t, t = Reverse(s)
  PROVE  /\ s \in Seq(Nodes) /\ Len(s) \in Nat /\ t \in Seq(Nodes) /\ Len(t) = Len(s)
         /\ \A i \in 1..Len(s) : t[i] = s[Len(s) + 1 - i]
         /\ \A i \in Int : At(t, i) = At(s, Len(s) + 1 - i)
         /\ \A i \in 1..Len(t) : Dec(l, t[i]) = At(t, i + 1)
  <1>1. /\ s \in Seq(Nodes) /\ Len(s) \in Nat /\ t \in Seq(Nodes) /\ Len(t) = Len(s)
        /\ \A i \in 1..Len(s) : t[i] = s[Len(s) + 1 - i]
    BY DEF Chain, Reverse
  <1>2. \A i \in Int : At(t, i) = At(s, Len(s) + 1 - i)
    BY <1>1 DEF At
  <1>3. ASSUME NEW i \in 1..Len(t) PROVE Dec(l, t[i]) = At(t, i + 1)
    <2>1. PICK k \in 1..Len(s) : k = Len(s) + 1 - i
      BY <1>1
    <2>2. Dec(l, s[k]) = At(s, k - 1)
      BY MovesAlong
    <2>3. t[i] = s[k]
      BY <1>1, <2>1
    <2>4. At(s, k - 1) = At(t, i + 1)
      BY <1>1, <1>2, <2>1
    <2>5. QED
      BY <2>2, <2>3, <2>4
  <1>4. QED
    BY <1>1, <1>2, <1>3

LEMMA WalkedBack ==
  ASSUME NEW l \in ListType, NEW s, Chain(l, s)
  PROVE  Walk(l, l.last, Dec) = Reverse(s)
  <1>1. PICK t : t = Reverse(s)
    OBVIOUS
  <1>2. /\ Len(s) \in Nat /\ t \in Seq(Nodes) /\ Len(t) = Len(s)
        /\ At(t, 1) = At(s, Len(s) + 1 - 1)
        /\ \A i \in 1..Len(t) : Dec(l, t[i]) = At(t, i + 1)
    BY <1>1, Backwards
  <1>3. Len(t) <= N
    BY <1>2, ChainShort
  <1>4. Walk(l, At(t, 1), Dec) = t
    BY <1>2, <1>3, WalkDec
  <1>5. l.last = At(s, Len(s)) /\ Len(s) + 1 - 1 = Len(s)
    BY <1>2 DEF Chain
  <1>6. QED
    BY <1>1, <1>2, <1>4, <1>5

LEMMA ClearEmpties ==
  ASSUME NEW l, Sound(l)
  PROVE  Empties(l, Clear(l))
  <1>1. l \in ListType
    BY DEF Sound
  <1>2. PICK s : Chain(l, s)
    BY DEF Sound
  <1>3. Listed(l) = s
    BY <1>1, <1>2, ListedIs
  <1>4. \A n \in Nodes : l.node[n].valid => n \in ToSet(s)
    <2>1. \A n \in Nodes : l.node[n].valid => \E i \in 1..Len(s) : s[i] = n
      BY <1>2 DEF Chain
    <2>2. DOMAIN s = 1..Len(s)
      BY <1>2, ChainMembers
    <2>3. QED
      BY <2>1, <2>2 DEF ToSet
  <1>5. PICK nd : nd = [n \in Nodes |-> [l.node[n] EXCEPT !.valid = @ /\ n \notin ToSet(s)]]
    OBVIOUS
  <1>6. ASSUME NEW n \in Nodes
        PROVE  nd[n] = [val |-> l.node[n].val, valid |-> FALSE, next |-> l.node[n].next, prev |-> l.node[n].prev]
    <2>1. nd[n] = [l.node[n] EXCEPT !.valid = l.node[n].valid /\ n \notin ToSet(s)]
      BY <1>5
    <2>2. (l.node[n].valid /\ n \notin ToSet(s)) = FALSE
      BY <1>4
    <2>3. l.node[n] = [val |-> l.node[n].val, valid |-> l.node[n].valid, next |-> l.node[n].next,
                       prev |-> l.node[n].prev]
      BY <1>1, NodeTyped
    <2>4. QED
      BY <2>1, <2>2, <2>3
  <1>7. PICK m : m = Clear(l)
    OBVIOUS
  <1>8. m = [node |-> nd, first |-> Null, last |-> Null, size |-> 0]
    <2>1. l = [node |-> l.node, first |-> l.first, last |-> l.last, size |-> l.size]
      BY <1>1, Typed
    <2>2. m = Emptied([l EXCEPT !.node = nd])
      BY <1>3, <1>5, <1>7 DEF Clear
    <2>3. QED
      BY <2>1, <2>2 DEF Emptied
  <1>9. nd \in [Nodes -> NodeType]
    <2>1. ASSUME NEW n \in Nodes PROVE nd[n] \in NodeType
      <3>1. /\ l.node[n].val \in Values \cup {Null} /\ l.node[n].next \in Nodes \cup {Null}
            /\ l.node[n].prev \in Nodes \cup {Null, Dangling}
        BY <1>1, NodeTyped
      <3>2. [val |-> l.node[n].val, valid |-> FALSE, next |-> l.node[n].next, prev |-> l.node[n].prev] \in NodeType
        BY <3>1 DEF NodeType
      <3>3. QED
        BY <1>6, <3>2
    <2>2. QED
      BY <1>5, <2>1
  <1>10. m \in ListType
    BY <1>8, <1>9, Typed
  <1>11. ASSUME NEW x \in Nodes
         PROVE  /\ m.node[x].val = l.node[x].val /\ ~m.node[x].valid
                /\ m.node[x].next = l.node[x].next /\ m.node[x].prev = l.node[x].prev
    <2>1. m.node[x] = [val |-> l.node[x].val, valid |-> FALSE, next |-> l.node[x].next, prev |-> l.node[x].prev]
      BY <1>6, <1>8
    <2>2. QED
      BY <2>1
  <1>12. QED
    BY <1>7, <1>8, <1>10, <1>11 DEF Empties

(* What is reached is closed under next, holds the roots, and is live when  *)
(* they are.                                                               *)
LEMMA ReachedIs ==
  ASSUME NEW l \in ListType, NEW roots
  PROVE  /\ Reached(l, roots) \subseteq Nodes /\ Closed(l, Reached(l, roots))
         /\ roots \cap Nodes \subseteq Reached(l, roots)
         /\ \A S \in SUBSET Nodes : roots \cap Nodes \subseteq S /\ Closed(l, S) => Reached(l, roots) \subseteq S
  <1> DEFINE All == {S \in SUBSET Nodes : roots \cap Nodes \subseteq S /\ Closed(l, S)}
  <1>1. Reached(l, roots) = {n \in Nodes : \A S \in All : n \in S}
    BY DEF Reached
  <1>2. ASSUME NEW n \in Reached(l, roots), l.node[n].next # Null
        PROVE  l.node[n].next \in Reached(l, roots)
    <2>1. l.node[n].next \in Nodes
      BY <1>1, <1>2, NodeTyped
    <2>2. \A S \in All : l.node[n].next \in S
      BY <1>1, <1>2 DEF Closed
    <2>3. QED
      BY <1>1, <2>1, <2>2
  <1>3. Closed(l, Reached(l, roots))
    BY <1>2 DEF Closed
  <1>4. QED
    BY <1>1, <1>3

LEMMA CollectKeeps ==
  ASSUME NEW l \in ListType, NEW holders,
         NEW kept, kept = Reached(l, holders \cup {l.first, l.last})
  PROVE  Keeps(l, Collect(l, holders), kept)
  <1>1. kept \subseteq Nodes
    BY ReachedIs
  <1>2. PICK m : m = Collect(l, holders)
    OBVIOUS
  <1> DEFINE seen(p) == IF p \in Nodes \ kept THEN Dangling ELSE p
  <1>3. PICK nd : nd = [n \in Nodes |-> IF n \in kept THEN [l.node[n] EXCEPT !.prev = seen(l.node[n].prev)] ELSE Free]
    OBVIOUS
  <1>4. m = [l EXCEPT !.node = nd]
    BY <1>2, <1>3 DEF Collect
  <1>5. m = [node |-> nd, first |-> l.first, last |-> l.last, size |-> l.size]
    BY <1>4, Typed
  <1>6. \A n \in Nodes \ kept : nd[n] = Free
    BY <1>3
  <1>7. ASSUME NEW n \in kept
        PROVE  nd[n] = [val |-> l.node[n].val, valid |-> l.node[n].valid, next |-> l.node[n].next,
                        prev |-> seen(l.node[n].prev)]
    <2>1. nd[n] = [l.node[n] EXCEPT !.prev = seen(l.node[n].prev)]
      BY <1>1, <1>3
    <2>2. l.node[n] = [val |-> l.node[n].val, valid |-> l.node[n].valid, next |-> l.node[n].next,
                       prev |-> l.node[n].prev]
      BY <1>1, NodeTyped
    <2>3. QED
      BY <2>1, <2>2
  <1>8. nd \in [Nodes -> NodeType]
    <2>1. Free \in NodeType
      BY DEF Free, NodeType
    <2>2. ASSUME NEW n \in kept PROVE nd[n] \in NodeType
      <3>1. seen(l.node[n].prev) \in Nodes \cup {Null, Dangling}
        BY <1>1, NodeTyped
      <3> HIDE DEF seen
      <3>2. QED
        <4>1. n \in Nodes
          BY <1>1
        <4>2. /\ l.node[n].val \in Values \cup {Null} /\ l.node[n].next \in Nodes \cup {Null}
              /\ l.node[n].valid \in BOOLEAN
          BY <4>1, NodeTyped
        <4>3. [val |-> l.node[n].val, valid |-> l.node[n].valid, next |-> l.node[n].next,
               prev |-> seen(l.node[n].prev)] \in NodeType
          BY <3>1, <4>2 DEF NodeType
        <4>4. QED
          BY <1>7, <4>3
    <2>3. \A n \in Nodes : nd[n] \in NodeType
      BY <1>6, <2>1, <2>2
    <2>4. QED
      BY <1>3, <2>3
  <1>9. m \in ListType
    BY <1>5, <1>8, Typed
  <1>10. ASSUME NEW x \in kept
         PROVE  /\ m.node[x].val = l.node[x].val /\ m.node[x].valid = l.node[x].valid
                /\ m.node[x].next = l.node[x].next
                /\ m.node[x].prev = seen(l.node[x].prev)
    <2> HIDE DEF seen
    <2>1. m.node[x] = [val |-> l.node[x].val, valid |-> l.node[x].valid, next |-> l.node[x].next,
                       prev |-> seen(l.node[x].prev)]
      BY <1>5, <1>7
    <2>2. QED
      BY <2>1
  <1>11. \A x \in Nodes \ kept : m.node[x] = Free
    BY <1>5, <1>6
  <1>12. m.first = l.first /\ m.last = l.last /\ m.size = l.size
    BY <1>5
  <1>13. QED
    BY <1>2, <1>9, <1>10, <1>11, <1>12 DEF Keeps

-----------------------------------------------------------------------------
(***************************************************************************)
(* Each operation keeps the list sound.                                    *)
(***************************************************************************)
LEMMA EmptiesSound ==
  ASSUME NEW l, Sound(l), NEW m, Empties(l, m)
  PROVE  Sound(m) /\ Live(m) = Live(l)
  <1>1. m \in ListType /\ l \in ListType
    BY DEF Empties, Sound
  <1>2. \A x \in Nodes :
          /\ m.node[x].val = l.node[x].val /\ ~m.node[x].valid
          /\ m.node[x].next = l.node[x].next /\ m.node[x].prev = l.node[x].prev
    BY DEF Empties
  <1>3. Chain(m, <<>>)
    BY <1>2 DEF Chain, Empties, At
  <1>4. PICK r : Ordered(l, r)
    BY DEF Sound
  <1>5. Ordered(m, r)
    BY <1>2, <1>4 DEF Ordered
  <1>6. Live(m) = Live(l)
    BY <1>2 DEF Live
  <1>7. ASSUME NEW n \in Nodes
        PROVE  Intact(m, n)
    <2>1. Intact(l, n)
      BY DEF Sound
    <2>2. n \notin Live(m) => m.node[n] = Free
      <3>1. m.node[n] = [val |-> m.node[n].val, valid |-> m.node[n].valid, next |-> m.node[n].next,
                         prev |-> m.node[n].prev]
        BY <1>1, NodeTyped
      <3>2. m.node[n].valid = FALSE
        BY <1>1, <1>2, NodeTyped
      <3>3. n \notin Live(l) => l.node[n].val = Null /\ l.node[n].next = Null /\ l.node[n].prev = Null
        BY <2>1 DEF Intact, Free
      <3>4. QED
        BY <1>2, <1>6, <3>1, <3>2, <3>3 DEF Free
    <2>3. QED
      BY <1>2, <1>6, <2>1, <2>2 DEF Intact
  <1>8. QED
    BY <1>1, <1>3, <1>5, <1>6, <1>7 DEF Sound

LEMMA AddsLastChain ==
  ASSUME NEW l, Sound(l), NEW s, Chain(l, s), NEW n \in Nodes \ Live(l), NEW v \in Values, NEW m, AddsLast(l, m, n, v)
  PROVE  Sound(m) /\ Live(m) = Live(l) \cup {n} /\ Chain(m, Append(s, n))
  <1>1. PICK b : b = l.last
    OBVIOUS
  <1>2. /\ m \in ListType
        /\ m.node[n].val = v /\ m.node[n].valid /\ m.node[n].next = Null /\ m.node[n].prev = b
        /\ m.first = (IF b = Null THEN n ELSE l.first) /\ m.last = n /\ m.size = l.size + 1
    BY <1>1 DEF AddsLast
  <1>3. \A x \in Nodes \ {n} :
          /\ m.node[x].val = l.node[x].val /\ (m.node[x].valid <=> l.node[x].valid)
          /\ m.node[x].prev = l.node[x].prev
          /\ m.node[x].next = (IF x = b THEN n ELSE l.node[x].next)
          /\ x # b => m.node[x] = l.node[x]
    BY <1>1 DEF AddsLast
  <1>4. b \in Live(l) \cup {Null} /\ (b # Null => l.node[b].valid)
    BY <1>1, Ends
  <1>5. \A x \in Nodes : Intact(l, x)
    BY DEF Sound
  <1>6. Live(m) = Live(l) \cup {n}
    BY <1>2, <1>3, NodesAssumption DEF Live
  <1>7. ASSUME NEW x \in Nodes
        PROVE  Intact(m, x)
    <2>1. CASE x = n
      BY <1>2, <1>4, <1>6, <2>1 DEF Intact
    <2>2. CASE x # n
      <3>1. Intact(l, x) /\ x \in Nodes \ {n}
        BY <1>5, <2>2
      <3>2. m.node[x].valid => x \in Live(m)
        BY <1>3, <1>6, <3>1 DEF Intact
      <3>3. x \notin Live(m) => m.node[x] = Free
        BY <1>3, <1>4, <1>6, <3>1, NodesAssumption DEF Intact
      <3>4. m.node[x].next \in Live(m) \cup {Null} /\ m.node[x].prev \in Live(m) \cup {Null, Dangling}
        BY <1>3, <1>6, <3>1 DEF Intact
      <3>5. QED
        BY <3>2, <3>3, <3>4 DEF Intact
    <2>3. QED
      BY <2>1, <2>2
  <1>8. PICK r : Ordered(l, r)
    BY DEF Sound
  <1>9. \E q : Ordered(m, q)
    <2>1. PICK k \in Int : b # Null => r[b] < k
      <3>1. b # Null => r[b] \in Int
        BY <1>4, <1>8 DEF Ordered, Live
      <3>2. (IF b = Null THEN 0 ELSE r[b] + 1) \in Int
        BY <3>1
      <3>3. QED
        BY <3>1, <3>2
    <2>2. PICK q : q = [r EXCEPT ![n] = k]
      OBVIOUS
    <2>3. q \in [Nodes -> Int] /\ q[n] = k /\ \A x \in Nodes \ {n} : q[x] = r[x]
      BY <1>8, <2>2 DEF Ordered
    <2>4. ASSUME NEW x \in Nodes, m.node[x].next \in Nodes PROVE q[x] < q[m.node[x].next]
      <3>1. x # n
        BY <1>2, <2>4, NodesAssumption
      <3>2. CASE x = b
        BY <1>3, <2>1, <2>3, <3>1, <3>2, NodesAssumption
      <3>3. CASE x # b
        <4>1. m.node[x].next = l.node[x].next /\ l.node[x].next # n
          BY <1>3, <1>5, <2>4, <3>1, <3>3, NodesAssumption DEF Intact
        <4>2. r[x] < r[l.node[x].next]
          BY <1>8, <2>4, <4>1 DEF Ordered
        <4>3. QED
          BY <2>3, <2>4, <3>1, <4>1, <4>2
      <3>4. QED
        BY <3>2, <3>3
    <2>5. ASSUME NEW x \in Nodes, m.node[x].prev \in Nodes PROVE q[m.node[x].prev] < q[x]
      <3>1. CASE x = n
        <4>1. b \in Nodes /\ b # n /\ b # Null
          BY <1>2, <1>4, <2>5, <3>1, NodesAssumption DEF Live
        <4>2. QED
          BY <1>2, <2>1, <2>3, <3>1, <4>1
      <3>2. CASE x # n
        <4>1. m.node[x].prev = l.node[x].prev /\ l.node[x].prev # n
          BY <1>3, <1>5, <2>5, <3>2, NodesAssumption DEF Intact
        <4>2. r[l.node[x].prev] < r[x]
          BY <1>8, <2>5, <4>1 DEF Ordered
        <4>3. QED
          BY <2>3, <2>5, <3>2, <4>1, <4>2
      <3>3. QED
        BY <3>1, <3>2
    <2>6. QED
      BY <2>3, <2>4, <2>5 DEF Ordered
  <1>10. Chain(l, s)
    OBVIOUS
  <1>11. /\ s \in Seq(Nodes) /\ Len(s) \in Nat /\ \A i \in 1..Len(s) : s[i] \in Nodes /\ l.node[s[i]].valid /\ s[i] # n
    BY <1>5, <1>10, ChainMembers DEF Chain, Intact
  <1>12. /\ \A i, j \in 1..Len(s) : s[i] = s[j] => i = j
         /\ \A x \in Nodes : l.node[x].valid <=> \E i \in 1..Len(s) : s[i] = x
         /\ l.size = Len(s) /\ l.first = At(s, 1) /\ b = At(s, Len(s))
         /\ \A i \in 1..Len(s) : l.node[s[i]].next = At(s, i + 1) /\ l.node[s[i]].prev = At(s, i - 1)
    BY <1>1, <1>10 DEF Chain
  <1>13. PICK t : t = Append(s, n)
    OBVIOUS
  <1>14. /\ t \in Seq(Nodes) /\ Len(t) = Len(s) + 1 /\ t[Len(s) + 1] = n
         /\ \A i \in 1..Len(s) : t[i] = s[i]
    BY <1>11, <1>13
  <1>15. /\ \A i \in 0..Len(s) : At(t, i) = At(s, i)
         /\ At(t, Len(s) + 1) = n /\ At(t, Len(s) + 2) = Null
    BY <1>11, <1>14 DEF At
  <1>16. Chain(m, t)
    <2>1. \A i, j \in 1..Len(t) : t[i] = t[j] => i = j
      <3>1. ASSUME NEW i \in 1..Len(t), NEW j \in 1..Len(t), t[i] = t[j] PROVE i = j
        <4>1. (i \in 1..Len(s) \/ i = Len(s) + 1) /\ (j \in 1..Len(s) \/ j = Len(s) + 1)
          BY <1>11, <1>14
        <4>2. \A d \in 1..Len(s) : s[d] # n
          BY <1>11
        <4>3. CASE i \in 1..Len(s) /\ j \in 1..Len(s)
          <5>1. s[i] = s[j]
            BY <1>14, <3>1, <4>3
          <5>2. QED
            BY <1>12, <4>3, <5>1
        <4>4. CASE i \in 1..Len(s) /\ j = Len(s) + 1
          BY <1>14, <3>1, <4>2, <4>4
        <4>5. CASE i = Len(s) + 1 /\ j \in 1..Len(s)
          BY <1>14, <3>1, <4>2, <4>5
        <4>6. QED
          BY <4>1, <4>3, <4>4, <4>5
      <3>2. QED
        BY <3>1
    <2>2. ASSUME NEW x \in Nodes PROVE m.node[x].valid <=> \E i \in 1..Len(t) : t[i] = x
      <3>1. \A i \in 1..Len(t) : i \in 1..Len(s) \/ i = Len(s) + 1
        BY <1>11, <1>14
      <3>2. \A i \in 1..Len(s) : i \in 1..Len(t)
        BY <1>11, <1>14
      <3>3. Len(s) + 1 \in 1..Len(t)
        BY <1>11, <1>14
      <3>4. CASE x = n
        BY <1>2, <1>14, <3>3, <3>4
      <3>5. CASE x # n
        <4>1. m.node[x].valid <=> \E i \in 1..Len(s) : s[i] = x
          <5>1. l.node[x].valid <=> \E i \in 1..Len(s) : s[i] = x
            BY <1>12
          <5>2. m.node[x].valid <=> l.node[x].valid
            BY <1>3, <3>5
          <5>3. QED
            BY <5>1, <5>2
        <4>2. ASSUME NEW i \in 1..Len(s), s[i] = x PROVE \E d \in 1..Len(t) : t[d] = x
          BY <1>14, <3>2, <4>2
        <4>3. ASSUME NEW i \in 1..Len(t), t[i] = x PROVE \E d \in 1..Len(s) : s[d] = x
          BY <1>14, <3>1, <3>5, <4>3
        <4>4. QED
          BY <4>1, <4>2, <4>3
      <3>6. QED
        BY <3>4, <3>5
    <2>3. m.size = Len(t) /\ m.last = At(t, Len(t))
      BY <1>2, <1>12, <1>14, <1>15
    <2>4. m.first = At(t, 1)
      <3>1. CASE Len(s) = 0
        BY <1>2, <1>12, <1>15, <3>1 DEF At
      <3>2. CASE Len(s) # 0
        <4>1. 1 \in 1..Len(s) /\ Len(s) \in 1..Len(s)
          BY <1>11, <3>2
        <4>2. b # Null
          BY <1>11, <1>12, <4>1, NodesAssumption DEF At
        <4>3. QED
          BY <1>2, <1>12, <1>15, <4>1, <4>2
      <3>3. QED
        BY <3>1, <3>2
    <2>5. ASSUME NEW i \in 1..Len(t)
          PROVE  m.node[t[i]].next = At(t, i + 1) /\ m.node[t[i]].prev = At(t, i - 1)
      <3>1. CASE i = Len(s) + 1
        BY <1>2, <1>11, <1>12, <1>14, <1>15, <3>1
      <3>2. CASE i \in 1..Len(s)
        <4>1. t[i] = s[i] /\ s[i] \in Nodes \ {n}
          BY <1>11, <1>14, <3>2
        <4>2. m.node[s[i]].prev = At(t, i - 1)
          <5>1. l.node[s[i]].prev = At(s, i - 1)
            BY <1>12, <3>2
          <5>2. At(t, i - 1) = At(s, i - 1)
            BY <1>11, <1>15, <3>2
          <5>3. QED
            BY <1>3, <4>1, <5>1, <5>2
        <4>3. CASE i = Len(s)
          <5>1. s[i] = b
            BY <1>12, <3>2, <4>3 DEF At
          <5>2. QED
            BY <1>3, <1>11, <1>15, <4>1, <4>2, <4>3, <5>1
        <4>4. CASE i # Len(s)
          <5>1. Len(s) \in 1..Len(s) /\ i + 1 \in 0..Len(s)
            BY <1>11, <3>2, <4>4
          <5>2. s[i] # b
            BY <1>12, <3>2, <4>4, <5>1 DEF At
          <5>3. l.node[s[i]].next = At(s, i + 1) /\ At(t, i + 1) = At(s, i + 1)
            BY <1>12, <1>15, <3>2, <5>1
          <5>4. QED
            BY <1>3, <4>1, <4>2, <5>2, <5>3
        <4>5. QED
          BY <4>3, <4>4
      <3>3. QED
        BY <1>11, <1>14, <3>1, <3>2
    <2>6. QED
      BY <1>14, <2>1, <2>2, <2>3, <2>4, <2>5 DEF Chain
  <1>17. QED
    BY <1>2, <1>6, <1>7, <1>9, <1>13, <1>16 DEF Sound

LEMMA AddsLastSound ==
  ASSUME NEW l, Sound(l), NEW n \in Nodes \ Live(l), NEW v \in Values, NEW m, AddsLast(l, m, n, v)
  PROVE  Sound(m) /\ Live(m) = Live(l) \cup {n}
  <1>1. PICK s : Chain(l, s)
    BY DEF Sound
  <1>2. QED
    BY <1>1, AddsLastChain

LEMMA AddsFirstChain ==
  ASSUME NEW l, Sound(l), NEW s, Chain(l, s), NEW n \in Nodes \ Live(l), NEW v \in Values, NEW m, AddsFirst(l, m, n, v)
  PROVE  Sound(m) /\ Live(m) = Live(l) \cup {n} /\ Chain(m, <<n>> \o s)
  <1>1. PICK b : b = l.first
    OBVIOUS
  <1>2. /\ m \in ListType
        /\ m.node[n].val = v /\ m.node[n].valid /\ m.node[n].next = b /\ m.node[n].prev = Null
        /\ m.last = (IF b = Null THEN n ELSE l.last) /\ m.first = n /\ m.size = l.size + 1
    BY <1>1 DEF AddsFirst
  <1>3. \A x \in Nodes \ {n} :
          /\ m.node[x].val = l.node[x].val /\ (m.node[x].valid <=> l.node[x].valid)
          /\ m.node[x].next = l.node[x].next
          /\ m.node[x].prev = (IF x = b THEN n ELSE l.node[x].prev)
          /\ x # b => m.node[x] = l.node[x]
    BY <1>1 DEF AddsFirst
  <1>4. b \in Live(l) \cup {Null} /\ (b # Null => l.node[b].valid)
    BY <1>1, Ends
  <1>5. \A x \in Nodes : Intact(l, x)
    BY DEF Sound
  <1>6. Live(m) = Live(l) \cup {n}
    BY <1>2, <1>3, NodesAssumption DEF Live
  <1>7. ASSUME NEW x \in Nodes
        PROVE  Intact(m, x)
    <2>1. CASE x = n
      BY <1>2, <1>4, <1>6, <2>1 DEF Intact
    <2>2. CASE x # n
      <3>1. Intact(l, x) /\ x \in Nodes \ {n}
        BY <1>5, <2>2
      <3>2. m.node[x].valid => x \in Live(m)
        BY <1>3, <1>6, <3>1 DEF Intact
      <3>3. x \notin Live(m) => m.node[x] = Free
        BY <1>3, <1>4, <1>6, <3>1, NodesAssumption DEF Intact
      <3>4. m.node[x].next \in Live(m) \cup {Null} /\ m.node[x].prev \in Live(m) \cup {Null, Dangling}
        BY <1>3, <1>6, <3>1 DEF Intact
      <3>5. QED
        BY <3>2, <3>3, <3>4 DEF Intact
    <2>3. QED
      BY <2>1, <2>2
  <1>8. PICK r : Ordered(l, r)
    BY DEF Sound
  <1>9. \E q : Ordered(m, q)
    <2>1. PICK k \in Int : b # Null => k < r[b]
      <3>1. b # Null => r[b] \in Int
        BY <1>4, <1>8 DEF Ordered, Live
      <3>2. (IF b = Null THEN 0 ELSE r[b] - 1) \in Int
        BY <3>1
      <3>3. QED
        BY <3>1, <3>2
    <2>2. PICK q : q = [r EXCEPT ![n] = k]
      OBVIOUS
    <2>3. q \in [Nodes -> Int] /\ q[n] = k /\ \A x \in Nodes \ {n} : q[x] = r[x]
      BY <1>8, <2>2 DEF Ordered
    <2>4. ASSUME NEW x \in Nodes, m.node[x].next \in Nodes PROVE q[x] < q[m.node[x].next]
      <3>1. CASE x = n
        <4>1. b \in Nodes /\ b # n /\ b # Null
          BY <1>2, <1>4, <2>4, <3>1, NodesAssumption DEF Live
        <4>2. QED
          BY <1>2, <2>1, <2>3, <3>1, <4>1
      <3>2. CASE x # n
        <4>1. m.node[x].next = l.node[x].next /\ l.node[x].next # n
          BY <1>3, <1>5, <2>4, <3>2, NodesAssumption DEF Intact
        <4>2. r[x] < r[l.node[x].next]
          BY <1>8, <2>4, <4>1 DEF Ordered
        <4>3. QED
          BY <2>3, <2>4, <3>2, <4>1, <4>2
      <3>3. QED
        BY <3>1, <3>2
    <2>5. ASSUME NEW x \in Nodes, m.node[x].prev \in Nodes PROVE q[m.node[x].prev] < q[x]
      <3>1. x # n
        BY <1>2, <2>5, NodesAssumption
      <3>2. CASE x = b
        BY <1>3, <2>1, <2>3, <3>1, <3>2, NodesAssumption
      <3>3. CASE x # b
        <4>1. m.node[x].prev = l.node[x].prev /\ l.node[x].prev # n
          BY <1>3, <1>5, <2>5, <3>1, <3>3, NodesAssumption DEF Intact
        <4>2. r[l.node[x].prev] < r[x]
          BY <1>8, <2>5, <4>1 DEF Ordered
        <4>3. QED
          BY <2>3, <2>5, <3>1, <4>1, <4>2
      <3>4. QED
        BY <3>2, <3>3
    <2>6. QED
      BY <2>3, <2>4, <2>5 DEF Ordered
  <1>10. Chain(l, s)
    OBVIOUS
  <1>11. /\ s \in Seq(Nodes) /\ Len(s) \in Nat /\ \A i \in 1..Len(s) : s[i] \in Nodes /\ l.node[s[i]].valid /\ s[i] # n
    BY <1>5, <1>10, ChainMembers DEF Chain, Intact
  <1>12. /\ \A i, j \in 1..Len(s) : s[i] = s[j] => i = j
         /\ \A x \in Nodes : l.node[x].valid <=> \E i \in 1..Len(s) : s[i] = x
         /\ l.size = Len(s) /\ b = At(s, 1) /\ l.last = At(s, Len(s))
         /\ \A i \in 1..Len(s) : l.node[s[i]].next = At(s, i + 1) /\ l.node[s[i]].prev = At(s, i - 1)
    BY <1>1, <1>10 DEF Chain
  <1>13. PICK t : t = <<n>> \o s
    OBVIOUS
  <1>14. /\ t \in Seq(Nodes) /\ Len(t) = Len(s) + 1 /\ t[1] = n
         /\ \A i \in 1..Len(s) : t[i + 1] = s[i]
    BY <1>11, <1>13
  <1>15. /\ \A i \in 1..(Len(s) + 1) : At(t, i + 1) = At(s, i)
         /\ At(t, 1) = n /\ At(t, 0) = Null
    BY <1>11, <1>14 DEF At
  <1>16. \A i \in 1..Len(t) : i = 1 \/ (i - 1 \in 1..Len(s) /\ t[i] = s[i - 1])
    <2>1. ASSUME NEW i \in 1..Len(t), i # 1 PROVE i - 1 \in 1..Len(s) /\ t[i] = s[i - 1]
      <3>1. PICK j \in 1..Len(s) : i = j + 1
        BY <1>11, <1>14, <2>1
      <3>2. QED
        BY <1>14, <3>1
    <2>2. QED
      BY <2>1
  <1>17. Chain(m, t)
    <2>1. \A i, j \in 1..Len(t) : t[i] = t[j] => i = j
      <3>1. ASSUME NEW i \in 1..Len(t), NEW j \in 1..Len(t), t[i] = t[j] PROVE i = j
        <4>1. i = 1 <=> j = 1
          BY <1>11, <1>14, <1>16, <3>1
        <4>2. i # 1 => i - 1 = j - 1
          <5>1. i # 1 => /\ i - 1 \in 1..Len(s) /\ t[i] = s[i - 1]
                         /\ j - 1 \in 1..Len(s) /\ t[j] = s[j - 1]
            BY <1>16, <4>1
          <5>2. \A d, e \in 1..Len(s) : s[d] = s[e] => d = e
            BY <1>12
          <5>3. QED
            BY <3>1, <5>1, <5>2
        <4>3. QED
          BY <4>1, <4>2
      <3>2. QED
        BY <3>1
    <2>2. ASSUME NEW x \in Nodes PROVE m.node[x].valid <=> \E i \in 1..Len(t) : t[i] = x
      <3>1. \A i \in 1..Len(s) : i + 1 \in 1..Len(t)
        BY <1>11, <1>14
      <3>2. 1 \in 1..Len(t)
        BY <1>11, <1>14
      <3>3. CASE x = n
        BY <1>2, <1>14, <3>2, <3>3
      <3>4. CASE x # n
        <4>1. m.node[x].valid <=> \E j \in 1..Len(s) : s[j] = x
          BY <1>3, <1>12, <3>4
        <4>2. ASSUME NEW j \in 1..Len(s), s[j] = x PROVE \E i \in 1..Len(t) : t[i] = x
          BY <1>14, <3>1, <4>2
        <4>3. ASSUME NEW i \in 1..Len(t), t[i] = x PROVE \E j \in 1..Len(s) : s[j] = x
          BY <1>14, <1>16, <3>4, <4>3
        <4>4. QED
          BY <4>1, <4>2, <4>3
      <3>5. QED
        BY <3>3, <3>4
    <2>3. m.size = Len(t) /\ m.first = At(t, 1)
      BY <1>2, <1>12, <1>14, <1>15
    <2>4. m.last = At(t, Len(t))
      <3>1. CASE Len(s) = 0
        BY <1>2, <1>12, <1>14, <1>15, <3>1 DEF At
      <3>2. CASE Len(s) # 0
        <4>1. 1 \in 1..Len(s) /\ Len(s) \in 1..(Len(s) + 1)
          BY <1>11, <3>2
        <4>2. b # Null
          BY <1>11, <1>12, <4>1, NodesAssumption DEF At
        <4>3. At(t, Len(s) + 1) = At(s, Len(s))
          BY <1>15, <4>1
        <4>4. QED
          BY <1>2, <1>12, <1>14, <4>2, <4>3
      <3>3. QED
        BY <3>1, <3>2
    <2>5. ASSUME NEW i \in 1..Len(t)
          PROVE  m.node[t[i]].next = At(t, i + 1) /\ m.node[t[i]].prev = At(t, i - 1)
      <3>1. CASE i = 1
        <4>1. At(t, 1 + 1) = At(s, 1)
          BY <1>11, <1>15
        <4>2. QED
          BY <1>2, <1>12, <1>14, <1>15, <3>1, <4>1
      <3>2. CASE i # 1
        <4>1. PICK j \in 1..Len(s) : j = i - 1 /\ t[i] = s[j]
          BY <1>16, <3>2
        <4>2. s[j] \in Nodes \ {n}
          BY <1>11
        <4>3. l.node[s[j]].next = At(s, j + 1) /\ l.node[s[j]].prev = At(s, j - 1)
          BY <1>12
        <4>4. At(t, (j + 1) + 1) = At(s, j + 1) /\ i + 1 = (j + 1) + 1 /\ i - 1 = j
          <5>1. j + 1 \in 1..(Len(s) + 1)
            BY <1>11
          <5>2. At(t, (j + 1) + 1) = At(s, j + 1)
            BY <1>15, <5>1
          <5>3. QED
            BY <4>1, <5>2
        <4>5. m.node[s[j]].next = At(t, i + 1)
          BY <1>3, <4>2, <4>3, <4>4
        <4>6. CASE j = 1
          <5>1. s[j] = b
            BY <1>12, <4>6 DEF At
          <5>2. QED
            BY <1>3, <1>15, <4>1, <4>2, <4>4, <4>5, <4>6, <5>1
        <4>7. CASE j # 1
          <5>1. 1 \in 1..Len(s) /\ j - 1 \in 1..(Len(s) + 1)
            BY <1>11, <4>7
          <5>2. s[j] # b
            BY <1>12, <4>7, <5>1 DEF At
          <5>3. At(t, (j - 1) + 1) = At(s, j - 1) /\ (j - 1) + 1 = j
            BY <1>15, <5>1
          <5>4. QED
            BY <1>3, <4>1, <4>2, <4>3, <4>4, <4>5, <5>2, <5>3
        <4>8. QED
          BY <4>6, <4>7
      <3>3. QED
        BY <3>1, <3>2
    <2>6. QED
      BY <1>14, <2>1, <2>2, <2>3, <2>4, <2>5 DEF Chain
  <1>18. QED
    BY <1>2, <1>6, <1>7, <1>9, <1>13, <1>17 DEF Sound

LEMMA AddsFirstSound ==
  ASSUME NEW l, Sound(l), NEW n \in Nodes \ Live(l), NEW v \in Values, NEW m, AddsFirst(l, m, n, v)
  PROVE  Sound(m) /\ Live(m) = Live(l) \cup {n}
  <1>1. PICK s : Chain(l, s)
    BY DEF Sound
  <1>2. QED
    BY <1>1, AddsFirstChain

(* A sequence without the first place of an element.                       *)
LEMMA RemoveFirstIs ==
  ASSUME NEW A, NEW s \in Seq(A), NEW e
  PROVE  /\ (\A i \in 1..Len(s) : s[i] # e) => RemoveFirst(s, e) = s
         /\ \A k \in 1..Len(s) :
              s[k] = e /\ (\A i \in 1..(k - 1) : s[i] # e)
              => RemoveFirst(s, e) = [i \in 1..(Len(s) - 1) |-> IF i < k THEN s[i] ELSE s[i + 1]]
  <1>1. Len(s) \in Nat /\ DOMAIN s = 1..Len(s) /\ \A i \in 1..Len(s) : s[i] \in A
    BY LenProperties, ElementOfSeq
  <1>2. ASSUME \A i \in 1..Len(s) : s[i] # e PROVE RemoveFirst(s, e) = s
    BY <1>2 DEF RemoveFirst
  <1>3. ASSUME NEW k \in 1..Len(s), s[k] = e, \A i \in 1..(k - 1) : s[i] # e
        PROVE  RemoveFirst(s, e) = [i \in 1..(Len(s) - 1) |-> IF i < k THEN s[i] ELSE s[i + 1]]
    <2> DEFINE I == {i \in 1..Len(s) : s[i] = e}
               a == SubSeq(s, 1, k - 1)
               b == SubSeq(s, k + 1, Len(s))
               r == a \o b
    <2>1. k \in I /\ \A i \in I : k <= i
      BY <1>1, <1>3
    <2>2. \A x \in I : (\A y \in I : x <= y) => x = k
      BY <1>1, <2>1
    <2>3. Min(I) = k
      BY <2>1, <2>2 DEF Min
    <2>4. SelectInSeq(s, LAMBDA v : v = e) = k
      BY <2>1, <2>3 DEF SelectInSeq
    <2>5. RemoveFirst(s, e) = r
      BY <1>3, <2>4 DEF RemoveFirst, RemoveAt
    <2>6. PICK n \in Nat : n = Len(s)
      BY <1>1
    <2>7. a \in Seq(A) /\ Len(a) = k - 1 /\ \A i \in 1..(k - 1) : a[i] = s[i]
      BY <1>1
    <2>8. b \in Seq(A) /\ Len(b) = n - k /\ \A i \in 1..(n - k) : b[i] = s[k + i]
      <3>1. b = [i \in 1..(IF k + 1 <= n THEN n - (k + 1) + 1 ELSE 0) |-> s[(k + 1) + i - 1]]
        BY <2>6, <1>1
      <3>2. (IF k + 1 <= n THEN n - (k + 1) + 1 ELSE 0) = n - k
        BY <2>6
      <3>3. \A i \in 1..(n - k) : (k + 1) + i - 1 = k + i /\ k + i \in 1..n
        BY <2>6
      <3>4. b = [i \in 1..(n - k) |-> s[(k + 1) + i - 1]]
        BY <3>1, <3>2
      <3>5. PICK d \in Nat : d = n - k
        <4>1. n - k \in Nat
          BY <2>6
        <4>2. QED
          BY <4>1
      <3>6. b = [i \in 1..d |-> s[(k + 1) + i - 1]]
        BY <3>4, <3>5
      <3> HIDE DEF b
      <3>7. \A i \in 1..d : b[i] = s[k + i] /\ b[i] \in A
        BY <1>1, <2>6, <3>3, <3>5, <3>6
      <3>8. b \in Seq(A) /\ Len(b) = d
        BY <3>6, <3>7
      <3>9. QED
        BY <3>5, <3>7, <3>8
    <2> HIDE DEF a, b
    <2>9. /\ r \in Seq(A) /\ Len(r) = Len(a) + Len(b)
          /\ \A i \in 1..(Len(a) + Len(b)) : r[i] = IF i <= Len(a) THEN a[i] ELSE b[i - Len(a)]
      BY <2>7, <2>8, ConcatProperties
    <2> HIDE DEF r
    <2>10. Len(r) = n - 1
      BY <2>6, <2>7, <2>8, <2>9
    <2>11. ASSUME NEW i \in 1..(n - 1) PROVE r[i] = IF i < k THEN s[i] ELSE s[i + 1]
      <3>1. Len(a) + Len(b) = n - 1
        BY <2>6, <2>7, <2>8
      <3>2. r[i] = IF i <= k - 1 THEN a[i] ELSE b[i - (k - 1)]
        BY <2>7, <2>9, <3>1
      <3>3. CASE i < k
        <4>1. i \in 1..(k - 1) /\ i <= k - 1
          BY <2>6, <3>3
        <4>2. QED
          BY <2>7, <3>2, <3>3, <4>1
      <3>4. CASE ~(i < k)
        <4>1. i - (k - 1) \in 1..(n - k) /\ k + (i - (k - 1)) = i + 1 /\ ~(i <= k - 1)
          BY <2>6, <3>4
        <4>2. r[i] = b[i - (k - 1)]
          BY <3>2, <4>1
        <4>3. QED
          BY <2>8, <3>4, <4>1, <4>2
      <3>5. QED
        BY <3>3, <3>4
    <2>12. r = [i \in 1..(n - 1) |-> IF i < k THEN s[i] ELSE s[i + 1]]
      <3>1. r = [i \in 1..(n - 1) |-> r[i]]
        BY <2>9, <2>10
      <3>2. QED
        BY <2>11, <3>1
    <2>13. QED
      BY <2>5, <2>6, <2>12
  <1>4. QED
    BY <1>2, <1>3

LEMMA RemoveFirstAt ==
  ASSUME NEW A, NEW s \in Seq(A), NEW e, NEW k \in 1..Len(s), s[k] = e, \A i \in 1..(k - 1) : s[i] # e
  PROVE  RemoveFirst(s, e) = [i \in 1..(Len(s) - 1) |-> IF i < k THEN s[i] ELSE s[i + 1]]
  BY RemoveFirstIs

LEMMA TakesOutChain ==
  ASSUME NEW l, Sound(l), NEW s, Chain(l, s), NEW n \in Nodes, l.node[n].valid, NEW m, TakesOut(l, m, n)
  PROVE  Sound(m) /\ Live(m) = Live(l) /\ Chain(m, RemoveFirst(s, n))
  <1>1. PICK p, q : p = l.node[n].prev /\ q = l.node[n].next
    OBVIOUS
  <1>2. /\ m \in ListType
        /\ m.first = (IF p = Null THEN q ELSE l.first) /\ m.last = (IF q = Null THEN p ELSE l.last)
        /\ m.size = l.size - 1
    BY <1>1 DEF TakesOut
  <1>3. \A x \in Nodes :
          /\ m.node[x].val = l.node[x].val /\ (m.node[x].valid <=> l.node[x].valid /\ x # n)
          /\ m.node[x].next = (IF x = p THEN q ELSE l.node[x].next)
          /\ m.node[x].prev = (IF x = q THEN p ELSE l.node[x].prev)
          /\ x \notin {n, p, q} => m.node[x] = l.node[x]
    BY <1>1 DEF TakesOut
  <1>4. \A x \in Nodes : Intact(l, x)
    BY DEF Sound
  <1>5. p \in (Nodes \ {n}) \cup {Null} /\ q \in (Nodes \ {n}) \cup {Null} /\ (p # Null => p # q) /\ l.size > 0
    BY <1>1, Neighbours
  <1>6. Live(m) = Live(l)
    BY <1>3 DEF Live
  <1>7. p \in Live(l) \cup {Null} /\ q \in Live(l) \cup {Null} /\ n \in Live(l)
    BY <1>1, <1>4, <1>5, NodesAssumption DEF Intact
  <1>8. ASSUME NEW x \in Nodes
        PROVE  Intact(m, x)
    <2>1. m.node[x].valid => x \in Live(m)
      BY <1>3, <1>4, <1>6 DEF Intact
    <2>2. x \notin Live(m) => m.node[x] = Free
      <3>1. x \notin Live(m) => x \notin {n, p, q}
        BY <1>6, <1>7, NodesAssumption
      <3>2. QED
        BY <1>3, <1>4, <1>6, <3>1 DEF Intact
    <2>3. m.node[x].next \in Live(m) \cup {Null}
      BY <1>3, <1>4, <1>6, <1>7 DEF Intact
    <2>4. m.node[x].prev \in Live(m) \cup {Null, Dangling}
      BY <1>3, <1>4, <1>6, <1>7 DEF Intact
    <2>5. QED
      BY <2>1, <2>2, <2>3, <2>4 DEF Intact
  <1>9. PICK r : Ordered(l, r)
    BY DEF Sound
  <1>10. Chain(l, s)
    OBVIOUS
  <1>11. /\ s \in Seq(Nodes) /\ Len(s) \in Nat /\ \A i \in 1..Len(s) : s[i] \in Nodes /\ s[i] # Null
    BY <1>10, ChainMembers, NodesAssumption DEF Chain
  <1>12. /\ \A i, j \in 1..Len(s) : s[i] = s[j] => i = j
         /\ \A x \in Nodes : l.node[x].valid <=> \E i \in 1..Len(s) : s[i] = x
         /\ l.size = Len(s) /\ l.first = At(s, 1) /\ l.last = At(s, Len(s))
         /\ \A i \in 1..Len(s) : l.node[s[i]].next = At(s, i + 1) /\ l.node[s[i]].prev = At(s, i - 1)
    BY <1>10 DEF Chain
  <1>13. PICK k \in 1..Len(s) : s[k] = n
    BY <1>12
  <1>14. p = At(s, k - 1) /\ q = At(s, k + 1)
    BY <1>1, <1>12, <1>13
  <1>15. Ordered(m, r)
    <2>1. ASSUME p \in Nodes, q \in Nodes PROVE r[p] < r[q]
      <3>1. r[p] < r[n] /\ r[n] < r[q]
        BY <1>1, <1>9, <2>1 DEF Ordered
      <3>2. r[p] \in Int /\ r[n] \in Int /\ r[q] \in Int
        BY <1>9, <2>1 DEF Ordered
      <3>3. QED
        BY <3>1, <3>2
    <2>2. ASSUME NEW x \in Nodes, m.node[x].next \in Nodes PROVE r[x] < r[m.node[x].next]
      <3>1. CASE x = p
        BY <1>3, <2>1, <2>2, <3>1
      <3>2. CASE x # p
        BY <1>3, <1>9, <2>2, <3>2 DEF Ordered
      <3>3. QED
        BY <3>1, <3>2
    <2>3. ASSUME NEW x \in Nodes, m.node[x].prev \in Nodes PROVE r[m.node[x].prev] < r[x]
      <3>1. CASE x = q
        BY <1>3, <2>1, <2>3, <3>1
      <3>2. CASE x # q
        BY <1>3, <1>9, <2>3, <3>2 DEF Ordered
      <3>3. QED
        BY <3>1, <3>2
    <2>4. QED
      BY <1>9, <2>2, <2>3 DEF Ordered
  <1>16. PICK t : t = [i \in 1..(Len(s) - 1) |-> IF i < k THEN s[i] ELSE s[i + 1]]
    OBVIOUS
  <1>17. Len(s) - 1 \in Nat
    BY <1>11, <1>13
  <1>18. \A i \in 1..(Len(s) - 1) : i < k => i \in 1..Len(s) /\ t[i] = s[i]
    BY <1>11, <1>13, <1>16
  <1>19. \A i \in 1..(Len(s) - 1) : ~(i < k) => i + 1 \in 1..Len(s) /\ t[i] = s[i + 1]
    BY <1>11, <1>13, <1>16
  <1>20. t \in Seq(Nodes) /\ Len(t) = Len(s) - 1
    <2>1. \A i \in 1..(Len(s) - 1) : t[i] \in Nodes
      BY <1>11, <1>18, <1>19
    <2>2. QED
      BY <1>16, <1>17, <2>1
  <1>21. \A i \in 0..(k - 1) : At(t, i) = At(s, i)
    BY <1>11, <1>13, <1>18, <1>20 DEF At
  <1>22. \A i \in k..Len(s) : At(t, i) = At(s, i + 1)
    BY <1>11, <1>13, <1>19, <1>20 DEF At
  <1>23. Chain(m, t)
    <2>1. ASSUME NEW i \in 1..Len(t)
          PROVE  /\ i < k => i \in 1..Len(s) /\ t[i] = s[i]
                 /\ ~(i < k) => i + 1 \in 1..Len(s) /\ t[i] = s[i + 1]
      BY <1>18, <1>19, <1>20
    <2>2. ASSUME NEW i \in 1..Len(t), NEW j \in 1..Len(t), t[i] = t[j] PROVE i = j
      <3>1. PICK d \in 1..Len(s) : t[i] = s[d] /\ d = IF i < k THEN i ELSE i + 1
        BY <2>1
      <3>2. PICK e \in 1..Len(s) : t[j] = s[e] /\ e = IF j < k THEN j ELSE j + 1
        BY <2>1
      <3>3. d = e
        <4>1. \A f, g \in 1..Len(s) : s[f] = s[g] => f = g
          BY <1>12
        <4>2. s[d] = s[e]
          BY <2>2, <3>1, <3>2
        <4>3. QED
          BY <4>1, <4>2
      <3>4. QED
        BY <1>13, <3>1, <3>2, <3>3
    <2>3. ASSUME NEW x \in Nodes PROVE m.node[x].valid <=> \E i \in 1..Len(t) : t[i] = x
      <3>1. ASSUME NEW i \in 1..Len(t), t[i] = x PROVE m.node[x].valid
        <4>1. PICK d \in 1..Len(s) : t[i] = s[d] /\ d # k
          <5>1. CASE i < k
            BY <1>13, <2>1, <5>1
          <5>2. CASE ~(i < k)
            <6>1. i + 1 \in 1..Len(s) /\ t[i] = s[i + 1]
              BY <2>1, <5>2
            <6>2. i + 1 # k
              BY <1>11, <1>13, <5>2
            <6>3. QED
              BY <6>1, <6>2
          <5>3. QED
            BY <5>1, <5>2
        <4>2. s[d] # s[k]
          BY <1>12, <4>1
        <4>3. QED
          BY <1>3, <1>12, <1>13, <3>1, <4>1, <4>2
      <3>2. ASSUME m.node[x].valid PROVE \E i \in 1..Len(t) : t[i] = x
        <4>1. PICK d \in 1..Len(s) : s[d] = x /\ d # k
          BY <1>3, <1>12, <1>13, <3>2
        <4>2. CASE d < k
          <5>1. d \in 1..(Len(s) - 1)
            BY <1>11, <1>13, <4>2
          <5>2. QED
            BY <1>18, <1>20, <4>1, <4>2, <5>1
        <4>3. CASE ~(d < k)
          <5>1. PICK e : e = d - 1
            OBVIOUS
          <5>2. e \in 1..(Len(s) - 1) /\ ~(e < k) /\ e + 1 = d
            BY <1>11, <1>13, <4>1, <4>3, <5>1
          <5>3. QED
            BY <1>19, <1>20, <4>1, <5>2
        <4>4. QED
          BY <4>2, <4>3
      <3>3. QED
        BY <3>1, <3>2
    <2>4. m.size = Len(t)
      BY <1>2, <1>12, <1>20
    <2>5. m.first = At(t, 1)
      <3>1. CASE k = 1
        <4>1. p = Null
          BY <1>11, <1>14, <3>1 DEF At
        <4>2. 1 \in k..Len(s)
          BY <1>11, <1>13, <3>1
        <4>3. At(t, 1) = At(s, 1 + 1)
          BY <1>22, <4>2
        <4>4. QED
          BY <1>2, <1>14, <3>1, <4>1, <4>3
      <3>2. CASE k # 1
        <4>1. k - 1 \in 1..Len(s) /\ 1 \in 0..(k - 1)
          BY <1>11, <1>13, <3>2
        <4>2. p # Null
          BY <1>11, <1>14, <4>1 DEF At
        <4>3. At(t, 1) = At(s, 1)
          BY <1>21, <4>1
        <4>4. QED
          BY <1>2, <1>12, <4>2, <4>3
      <3>3. QED
        BY <3>1, <3>2
    <2>6. m.last = At(t, Len(t))
      <3>1. CASE k = Len(s)
        <4>1. q = Null /\ Len(s) - 1 \in 0..(k - 1)
          BY <1>11, <1>14, <1>17, <3>1 DEF At
        <4>2. At(t, Len(s) - 1) = At(s, Len(s) - 1)
          BY <1>21, <4>1
        <4>3. QED
          BY <1>2, <1>14, <1>20, <3>1, <4>1, <4>2
      <3>2. CASE k # Len(s)
        <4>1. k + 1 \in 1..Len(s) /\ Len(s) - 1 \in k..Len(s) /\ (Len(s) - 1) + 1 = Len(s)
          BY <1>11, <1>13, <3>2
        <4>2. q # Null
          BY <1>11, <1>14, <4>1 DEF At
        <4>3. At(t, Len(s) - 1) = At(s, Len(s))
          BY <1>22, <4>1
        <4>4. QED
          BY <1>2, <1>12, <1>20, <4>2, <4>3
      <3>3. QED
        BY <3>1, <3>2
    <2>7. ASSUME NEW i \in 1..Len(t)
          PROVE  m.node[t[i]].next = At(t, i + 1) /\ m.node[t[i]].prev = At(t, i - 1)
      <3>1. CASE i < k
        <4>1. i \in 1..Len(s) /\ t[i] = s[i] /\ s[i] \in Nodes
          BY <1>11, <2>1, <3>1
        <4>2. l.node[s[i]].next = At(s, i + 1) /\ l.node[s[i]].prev = At(s, i - 1)
          BY <1>12, <4>1
        <4>3. At(t, i - 1) = At(s, i - 1)
          BY <1>13, <1>21, <3>1
        <4>4. s[i] # q
          <5>1. k + 1 \in 1..Len(s) => s[i] # s[k + 1]
            BY <1>12, <1>13, <3>1, <4>1
          <5>2. QED
            BY <1>11, <1>14, <4>1, <5>1 DEF At
        <4>5. m.node[s[i]].prev = At(t, i - 1)
          BY <1>3, <4>1, <4>2, <4>3, <4>4
        <4>6. CASE i = k - 1
          <5>1. s[i] = p /\ i + 1 = k
            BY <1>13, <1>14, <4>1, <4>6 DEF At
          <5>2. At(t, k) = At(s, k + 1)
            BY <1>11, <1>13, <1>22
          <5>3. QED
            BY <1>3, <1>14, <4>1, <4>5, <5>1, <5>2
        <4>7. CASE i # k - 1
          <5>1. s[i] # p
            <6>1. k - 1 \in 1..Len(s) => s[i] # s[k - 1]
              BY <1>12, <4>1, <4>7
            <6>2. QED
              BY <1>11, <1>14, <4>1, <6>1 DEF At
          <5>2. At(t, i + 1) = At(s, i + 1)
            <6>1. i + 1 \in 0..(k - 1)
              BY <1>13, <3>1, <4>7
            <6>2. QED
              BY <1>21, <6>1
          <5>3. QED
            BY <1>3, <4>1, <4>2, <4>5, <5>1, <5>2
        <4>8. QED
          BY <4>6, <4>7
      <3>2. CASE ~(i < k)
        <4>1. PICK j \in 1..Len(s) : j = i + 1 /\ t[i] = s[j] /\ s[j] \in Nodes
          BY <1>11, <2>1, <3>2
        <4>2. l.node[s[j]].next = At(s, j + 1) /\ l.node[s[j]].prev = At(s, j - 1)
          BY <1>12
        <4>3. At(t, i + 1) = At(s, j + 1)
          <5>1. i + 1 \in k..Len(s)
            BY <1>11, <1>13, <1>20, <3>2
          <5>2. QED
            BY <1>22, <4>1, <5>1
        <4>4. s[j] # p
          <5>1. k - 1 \in 1..Len(s) => s[j] # s[k - 1]
            BY <1>12, <1>13, <3>2, <4>1
          <5>2. QED
            BY <1>11, <1>14, <4>1, <5>1 DEF At
        <4>5. m.node[s[j]].next = At(t, i + 1)
          BY <1>3, <4>1, <4>2, <4>3, <4>4
        <4>6. CASE i = k
          <5>1. s[j] = q
            BY <1>13, <1>14, <4>1, <4>6 DEF At
          <5>2. At(t, k - 1) = At(s, k - 1)
            BY <1>11, <1>13, <1>21
          <5>3. QED
            BY <1>3, <1>14, <4>1, <4>5, <4>6, <5>1, <5>2
        <4>7. CASE i # k
          <5>1. s[j] # q
            <6>1. j \in 1..Len(s) /\ j # k + 1
              BY <4>1, <4>7
            <6>2. k + 1 \in 1..Len(s) => s[j] # s[k + 1]
              BY <1>12, <6>1
            <6>3. QED
              BY <1>11, <1>14, <4>1, <6>2 DEF At
          <5>2. At(t, i - 1) = At(s, j - 1)
            <6>1. i - 1 \in k..Len(s) /\ (i - 1) + 1 = j - 1
              BY <1>11, <1>13, <1>20, <3>2, <4>1, <4>7
            <6>2. QED
              BY <1>22, <6>1
          <5>3. QED
            BY <1>3, <4>1, <4>2, <4>5, <5>1, <5>2
        <4>8. QED
          BY <4>6, <4>7
      <3>3. QED
        BY <3>1, <3>2
    <2>8. \A i, j \in 1..Len(t) : t[i] = t[j] => i = j
      BY <2>2
    <2>9. QED
      BY <1>20, <2>3, <2>4, <2>5, <2>6, <2>7, <2>8 DEF Chain
  <1>24. t = RemoveFirst(s, n)
    <2>1. \A i \in 1..(k - 1) : s[i] # n
      BY <1>11, <1>12, <1>13
    <2>2. QED
      BY <1>11, <1>13, <1>16, <2>1, RemoveFirstIs
  <1>25. QED
    BY <1>2, <1>6, <1>8, <1>15, <1>23, <1>24 DEF Sound

LEMMA TakesOutSound ==
  ASSUME NEW l, Sound(l), NEW n \in Nodes, l.node[n].valid, NEW m, TakesOut(l, m, n)
  PROVE  Sound(m) /\ Live(m) = Live(l)
  <1>1. PICK s : Chain(l, s)
    BY DEF Sound
  <1>2. QED
    BY <1>1, TakesOutChain

(* What is left when everything that nothing leads to is deleted.          *)
LEMMA KeepsChain ==
  ASSUME NEW l, Sound(l), NEW s, Chain(l, s), NEW kept \in SUBSET Nodes, Closed(l, kept), l.first \in kept \cup {Null},
         NEW m, Keeps(l, m, kept)
  PROVE  Sound(m) /\ Live(m) = Live(l) \cap kept /\ Chain(m, s)
  <1>1. m \in ListType /\ m.first = l.first /\ m.last = l.last /\ m.size = l.size
    BY DEF Keeps
  <1>2. \A x \in kept :
          /\ m.node[x].val = l.node[x].val /\ m.node[x].valid = l.node[x].valid
          /\ m.node[x].next = l.node[x].next
          /\ m.node[x].prev = IF l.node[x].prev \in Nodes \ kept THEN Dangling ELSE l.node[x].prev
    BY DEF Keeps
  <1>3. \A x \in Nodes \ kept : m.node[x] = Free
    BY DEF Keeps
  <1>4. \A x \in Nodes \ kept : /\ m.node[x].val = Null /\ ~m.node[x].valid
                               /\ m.node[x].next = Null /\ m.node[x].prev = Null
    BY <1>3 DEF Free
  <1>5. \A x \in Nodes : Intact(l, x)
    BY DEF Sound
  <1>6. Live(m) = Live(l) \cap kept
    BY <1>2, <1>4 DEF Live
  <1>7. Chain(l, s)
    OBVIOUS
  <1>8. /\ s \in Seq(Nodes) /\ Len(s) \in Nat /\ \A i \in 1..Len(s) : s[i] \in Nodes /\ s[i] # Null
    BY <1>7, ChainMembers, NodesAssumption DEF Chain
  <1>9. /\ \A i, j \in 1..Len(s) : s[i] = s[j] => i = j
        /\ \A x \in Nodes : l.node[x].valid <=> \E i \in 1..Len(s) : s[i] = x
        /\ l.size = Len(s) /\ l.first = At(s, 1) /\ l.last = At(s, Len(s))
        /\ \A i \in 1..Len(s) : l.node[s[i]].next = At(s, i + 1) /\ l.node[s[i]].prev = At(s, i - 1)
    BY <1>7 DEF Chain
  <1>10. \A i \in 1..Len(s) : s[i] \in kept
    <2> DEFINE S == {i \in Nat : i + 1 \in 1..Len(s) => s[i + 1] \in kept}
    <2>1. 0 \in S
      <3>1. 1 \in 1..Len(s) => l.first = s[1]
        BY <1>9 DEF At
      <3>2. QED
        BY <1>8, <3>1
    <2>2. ASSUME NEW i \in Nat, i \in S PROVE i + 1 \in S
      <3>1. ASSUME (i + 1) + 1 \in 1..Len(s) PROVE s[(i + 1) + 1] \in kept
        <4>1. i + 1 \in 1..Len(s) /\ s[i + 1] \in kept
          BY <1>8, <2>2, <3>1
        <4>2. l.node[s[i + 1]].next = s[(i + 1) + 1]
          BY <1>9, <3>1, <4>1 DEF At
        <4>3. QED
          BY <1>8, <3>1, <4>1, <4>2 DEF Closed
      <3>2. QED
        BY <3>1
    <2> HIDE DEF S
    <2>3. Nat \subseteq S
      BY <2>1, <2>2, Induction
    <2>4. ASSUME NEW i \in 1..Len(s) PROVE s[i] \in kept
      <3>1. i - 1 \in Nat /\ (i - 1) + 1 = i
        BY <1>8
      <3>2. i - 1 \in S
        BY <2>3, <3>1
      <3>3. QED
        BY <3>1, <3>2 DEF S
    <2>5. QED
      BY <2>4
  <1>11. \A x \in Nodes : m.node[x].valid <=> l.node[x].valid
    BY <1>2, <1>4, <1>9, <1>10
  <1>12. Chain(m, s)
    <2>1. ASSUME NEW i \in 1..Len(s)
          PROVE  m.node[s[i]].next = At(s, i + 1) /\ m.node[s[i]].prev = At(s, i - 1)
      <3>1. l.node[s[i]].next = At(s, i + 1) /\ l.node[s[i]].prev = At(s, i - 1)
        BY <1>9
      <3>2. At(s, i - 1) \in kept \cup {Null}
        BY <1>10 DEF At
      <3>3. l.node[s[i]].prev \notin Nodes \ kept
        BY <3>1, <3>2, NodesAssumption
      <3>4. QED
        BY <1>2, <1>10, <3>1, <3>3
    <2>2. \A x \in Nodes : m.node[x].valid <=> \E i \in 1..Len(s) : s[i] = x
      BY <1>9, <1>11
    <2>3. QED
      BY <1>1, <1>8, <1>9, <2>1, <2>2 DEF Chain
  <1>13. PICK r : Ordered(l, r)
    BY DEF Sound
  <1>14. Ordered(m, r)
    BY <1>2, <1>4, <1>13, NodesAssumption DEF Ordered
  <1>15. ASSUME NEW x \in Nodes
         PROVE  Intact(m, x)
    <2>1. CASE x \in kept
      <3>1. Intact(l, x)
        BY <1>5
      <3>2. m.node[x].valid => x \in Live(m)
        BY <1>2, <1>6, <2>1, <3>1 DEF Intact
      <3>3. m.node[x].next \in Live(m) \cup {Null}
        BY <1>2, <1>6, <2>1, <3>1 DEF Intact, Closed
      <3>4. m.node[x].prev \in Live(m) \cup {Null, Dangling}
        BY <1>2, <1>6, <2>1, <3>1 DEF Intact, Live
      <3>5. x \notin Live(m) => m.node[x] = Free
        <4>1. x \notin Live(m) => l.node[x] = Free
          BY <1>6, <2>1, <3>1 DEF Intact
        <4>2. m.node[x] = [val |-> m.node[x].val, valid |-> m.node[x].valid, next |-> m.node[x].next,
                           prev |-> m.node[x].prev]
          BY <1>1, NodeTyped
        <4>3. l.node[x] = Free => /\ m.node[x].val = Null /\ m.node[x].valid = FALSE
                                  /\ m.node[x].next = Null /\ m.node[x].prev = Null
          BY <1>2, <2>1, NodesAssumption DEF Free
        <4>4. QED
          BY <4>1, <4>2, <4>3 DEF Free
      <3>6. QED
        BY <3>2, <3>3, <3>4, <3>5 DEF Intact
    <2>2. CASE x \notin kept
      BY <1>3, <1>4, <1>6, <2>2 DEF Intact
    <2>3. QED
      BY <2>1, <2>2
  <1>16. QED
    BY <1>1, <1>6, <1>12, <1>14, <1>15 DEF Sound

LEMMA KeepsSound ==
  ASSUME NEW l, Sound(l), NEW kept \in SUBSET Nodes, Closed(l, kept), l.first \in kept \cup {Null},
         NEW m, Keeps(l, m, kept)
  PROVE  Sound(m) /\ Live(m) = Live(l) \cap kept
  <1>1. PICK s : Chain(l, s)
    BY DEF Sound
  <1>2. QED
    BY <1>1, KeepsChain

(* The nodes that are held stay, with what they hold; the ends do anyway.   *)
LEMMA CollectSound ==
  ASSUME NEW l, Sound(l), NEW holders
  PROVE  LET m == Collect(l, holders)
         IN  /\ Sound(m) /\ Live(m) \subseteq Live(l)
             /\ holders \cap Live(l) \subseteq Live(m)
             /\ m.first = l.first /\ m.last = l.last
             /\ \A x \in Live(m) : m.node[x].val = l.node[x].val
  <1>1. l \in ListType
    BY DEF Sound
  <1>2. PICK roots : roots = holders \cup {l.first, l.last}
    OBVIOUS
  <1>3. PICK kept : kept = Reached(l, roots)
    OBVIOUS
  <1>4. kept \in SUBSET Nodes /\ Closed(l, kept) /\ roots \cap Nodes \subseteq kept
    BY <1>1, <1>3, ReachedIs
  <1>5. PICK m : m = Collect(l, holders)
    OBVIOUS
  <1>6. Keeps(l, m, kept)
    BY <1>1, <1>2, <1>3, <1>5, CollectKeeps
  <1>7. l.first \in kept \cup {Null}
    BY <1>2, <1>4, Ends
  <1>8. Sound(m) /\ Live(m) = Live(l) \cap kept
    BY <1>4, <1>6, <1>7, KeepsSound
  <1>9. holders \cap Live(l) \subseteq kept
    BY <1>2, <1>4 DEF Live
  <1>10. \A x \in kept : m.node[x].val = l.node[x].val
    BY <1>6 DEF Keeps
  <1>11. m.first = l.first /\ m.last = l.last
    BY <1>6 DEF Keeps
  <1>12. QED
    BY <1>5, <1>8, <1>9, <1>10, <1>11

-----------------------------------------------------------------------------
(***************************************************************************)
(* What soundness is for.                                                  *)
(***************************************************************************)
LEMMA SoundLinked ==
  ASSUME NEW l, Sound(l)
  PROVE  LinkedBothWays(l)
  <1>1. l \in ListType
    BY DEF Sound
  <1>2. PICK s : Chain(l, s)
    BY DEF Sound
  <1>3. Listed(l) = s /\ Walk(l, l.last, Dec) = Reverse(s)
    BY <1>1, <1>2, ListedIs, WalkedBack
  <1>4. s = Reverse(Reverse(s))
    <2>1. s \in Seq(Nodes) /\ Len(s) \in Nat
      BY <1>2 DEF Chain
    <2>2. PICK t : t = Reverse(s)
      OBVIOUS
    <2>3. t \in Seq(Nodes) /\ Len(t) = Len(s) /\ \A i \in 1..Len(s) : t[i] = s[(Len(s) - i) + 1]
      BY <2>1, <2>2 DEF Reverse
    <2>4. Reverse(t) \in Seq(Nodes) /\ Len(Reverse(t)) = Len(s) /\ \A i \in 1..Len(s) : Reverse(t)[i] = t[(Len(s) - i) + 1]
      BY <2>1, <2>3 DEF Reverse
    <2>5. \A i \in 1..Len(s) : Reverse(t)[i] = s[i]
      BY <2>1, <2>3, <2>4
    <2>6. QED
      BY <2>1, <2>2, <2>4, <2>5
  <1>5. ToSet(s) = {n \in Nodes : l.node[n].valid}
    <2>1. DOMAIN s = 1..Len(s) /\ \A i \in 1..Len(s) : s[i] \in Nodes
      BY <1>2, ChainMembers
    <2>2. \A n \in Nodes : l.node[n].valid <=> \E i \in 1..Len(s) : s[i] = n
      BY <1>2 DEF Chain
    <2>3. QED
      BY <2>1, <2>2 DEF ToSet
  <1>6. ASSUME NEW k \in 1..Len(s)
        PROVE  l.node[s[k]].prev = IF k = 1 THEN Null ELSE s[k - 1]
    <2>1. l.node[s[k]].prev = At(s, k - 1) /\ Len(s) \in Nat
      BY <1>2, ChainMembers DEF Chain
    <2>2. QED
      BY <2>1 DEF At
  <1>7. l.size = Len(s)
    BY <1>2 DEF Chain
  <1>8. QED
    BY <1>3, <1>4, <1>5, <1>6, <1>7 DEF LinkedBothWays

LEMMA SoundAcyclic ==
  ASSUME NEW l, Sound(l)
  PROVE  NoReferenceCycle(l)
  <1>1. l \in ListType
    BY DEF Sound
  <1>2. PICK r : Ordered(l, r)
    BY DEF Sound
  <1>3. ASSUME NEW n \in Nodes
        PROVE  n \notin Reached(l, {l.node[n].next})
    <2> DEFINE S == {x \in Nodes : r[x] > r[n]}
    <2>1. \A x \in Nodes : r[x] \in Int
      BY <1>2 DEF Ordered
    <2>2. \A x \in Nodes : l.node[x].next \in Nodes => r[x] < r[l.node[x].next]
      BY <1>2 DEF Ordered
    <2>3. {l.node[n].next} \cap Nodes \subseteq S
      BY <2>1, <2>2
    <2>4. Closed(l, S)
      <3>1. ASSUME NEW x \in S PROVE l.node[x].next \in S \cup {Null}
        <4>1. x \in Nodes /\ l.node[x].next \in Nodes \cup {Null}
          BY <1>1, NodeTyped
        <4>2. l.node[x].next \in Nodes => r[l.node[x].next] > r[n]
          BY <2>1, <2>2, <4>1
        <4>3. QED
          BY <4>1, <4>2
      <3>2. QED
        BY <3>1 DEF Closed
    <2>5. n \notin S
      BY <2>1
    <2> HIDE DEF S
    <2>6. S \in SUBSET Nodes
      BY DEF S
    <2>7. Reached(l, {l.node[n].next}) \subseteq S
      BY <1>1, <2>3, <2>4, <2>6, ReachedIs
    <2>8. QED
      BY <2>5, <2>7
  <1>4. QED
    BY <1>3 DEF NoReferenceCycle

(* What the operations take from a sound list: an element that is found,    *)
(* forwards or backwards, and the node an iterator moves to.               *)
LEMMA FoundIsListed ==
  ASSUME NEW l, Sound(l), NEW s, s = Listed(l) \/ s = Walk(l, l.last, Dec), NEW k \in 1..Len(s)
  PROVE  s[k] \in Nodes /\ l.node[s[k]].valid
  <1>1. l \in ListType
    BY DEF Sound
  <1>2. PICK t : Chain(l, t)
    BY DEF Sound
  <1>3. Listed(l) = t /\ Walk(l, l.last, Dec) = Reverse(t)
    BY <1>1, <1>2, ListedIs, WalkedBack
  <1>4. Len(t) \in Nat /\ \A i \in 1..Len(t) : t[i] \in Nodes /\ l.node[t[i]].valid
    BY <1>2, ChainMembers
  <1>5. CASE s = t
    BY <1>4, <1>5
  <1>6. CASE s = Reverse(t)
    <2>1. t \in Seq(Nodes)
      BY <1>2 DEF Chain
    <2>2. Len(s) = Len(t) /\ \A i \in 1..Len(t) : s[i] = t[(Len(t) - i) + 1]
      BY <1>6, <2>1 DEF Reverse
    <2>3. (Len(t) - k) + 1 \in 1..Len(t) /\ s[k] = t[(Len(t) - k) + 1]
      BY <1>4, <2>2
    <2>4. QED
      BY <1>4, <2>3
  <1>7. QED
    BY <1>3, <1>5, <1>6

LEMMA IncStays ==
  ASSUME NEW l, Sound(l), NEW n \in Live(l)
  PROVE  Inc(l, n) \in Live(l) \cup {Null}
  <1>1. l \in ListType /\ \A x \in Nodes : Intact(l, x)
    BY DEF Sound
  <1>2. Linked(l, "next")
    BY <1>1, LinkedType
  <1>3. LinksWithin(l, "next", Live(l) \cup {Null})
    BY <1>1 DEF LinksWithin, Intact
  <1>4. Live(l) \cup {Null} \in SUBSET Pointers /\ n \in Nodes
    BY DEF Live, Pointers
  <1>5. l.node[n].next \in Live(l) \cup {Null}
    BY <1>1, <1>4 DEF Intact
  <1>6. Skip(l, l.node[n].next, "next") \in Live(l) \cup {Null}
    BY <1>2, <1>3, <1>4, <1>5, SkipStays
  <1>7. QED
    BY <1>6 DEF Inc

LEMMA DecStays ==
  ASSUME NEW l, Sound(l), NEW n \in Live(l)
  PROVE  Dec(l, n) \in Live(l) \cup {Null, Dangling}
  <1>1. l \in ListType /\ \A x \in Nodes : Intact(l, x)
    BY DEF Sound
  <1>2. Linked(l, "prev")
    BY <1>1, LinkedType
  <1>3. LinksWithin(l, "prev", Live(l) \cup {Null, Dangling})
    BY <1>1 DEF LinksWithin, Intact
  <1>4. Live(l) \cup {Null, Dangling} \in SUBSET Pointers /\ n \in Nodes
    BY DEF Live, Pointers
  <1>5. l.node[n].prev \in Live(l) \cup {Null, Dangling}
    BY <1>1, <1>4 DEF Intact
  <1>6. Skip(l, l.node[n].prev, "prev") \in Live(l) \cup {Null, Dangling}
    BY <1>2, <1>3, <1>4, <1>5, SkipStays
  <1>7. QED
    BY <1>6 DEF Dec

(***************************************************************************)
(* An operation changes the list, then what nothing holds is deleted.      *)
(***************************************************************************)
LEMMA PushBackSound ==
  ASSUME NEW l, Sound(l), NEW v \in Values, Unallocated(l) # {}
  PROVE  /\ Sound(PushBack(l, v)) /\ Live(PushBack(l, v)) = Live(l) \cup {Allocate(l)}
         /\ \A x \in Live(l) : PushBack(l, v).node[x].val = l.node[x].val
  <1>1. Allocate(l) \in Nodes \ Live(l)
    BY FreshNode
  <1>2. AddsLast(l, PushBack(l, v), Allocate(l), v)
    BY PushBackAdds
  <1>3. \A x \in Live(l) : PushBack(l, v).node[x].val = l.node[x].val
    BY <1>1, <1>2 DEF AddsLast, Live
  <1>4. Sound(PushBack(l, v)) /\ Live(PushBack(l, v)) = Live(l) \cup {Allocate(l)}
    BY <1>1, <1>2, AddsLastSound
  <1>5. QED
    BY <1>3, <1>4

LEMMA PushFrontSound ==
  ASSUME NEW l, Sound(l), NEW v \in Values, Unallocated(l) # {}
  PROVE  Sound(PushFront(l, v)) /\ Live(l) \subseteq Live(PushFront(l, v))
  <1>1. Allocate(l) \in Nodes \ Live(l)
    BY FreshNode
  <1>2. AddsFirst(l, PushFront(l, v), Allocate(l), v)
    BY PushFrontAdds
  <1>3. QED
    BY <1>1, <1>2, AddsFirstSound

LEMMA RemoveNodeSound ==
  ASSUME NEW l, Sound(l), NEW n \in Nodes, l.node[n].valid
  PROVE  Sound(RemoveNode(l, n)) /\ Live(RemoveNode(l, n)) = Live(l)
  BY RemoveNodeTakesOut, TakesOutSound

LEMMA ClearSound ==
  ASSUME NEW l, Sound(l)
  PROVE  Sound(Clear(l)) /\ Live(Clear(l)) = Live(l)
  BY ClearEmpties, EmptiesSound

LEMMA NewListSound == Sound(NewList)
  <1>1. \A n \in Nodes : NewList.node[n] = Free
    BY DEF NewList
  <1>2. Free \in NodeType /\ Free.val = Null /\ ~Free.valid /\ Free.next = Null /\ Free.prev = Null
    BY DEF Free, NodeType
  <1>3. NewList \in ListType
    <2>1. NewList.node \in [Nodes -> NodeType]
      BY <1>2 DEF NewList
    <2>2. QED
      BY <2>1, Typed DEF NewList
  <1>4. Chain(NewList, <<>>)
    <2>1. \A n \in Nodes : ~NewList.node[n].valid
      BY <1>1, <1>2
    <2>2. NewList.size = 0 /\ NewList.first = Null /\ NewList.last = Null
      BY DEF NewList
    <2>3. QED
      BY <2>1, <2>2 DEF Chain, At
  <1>5. Ordered(NewList, [n \in Nodes |-> 0])
    BY <1>1, <1>2, NodesAssumption DEF Ordered
  <1>6. \A n \in Nodes : Intact(NewList, n)
    BY <1>1, <1>2 DEF Intact
  <1>7. QED
    BY <1>3, <1>4, <1>5, <1>6 DEF Sound

(* push_back of one value after the other, while there is room.            *)
Pushes(f, l, w, k) == f = [j \in 0..k |-> IF j = 0 THEN l ELSE PushBack(f[j - 1], w[j])]

LEMMA PushesExist ==
  ASSUME NEW l, NEW w, NEW n \in Nat
  PROVE  \E f : Pushes(f, l, w, n)
  <1> DEFINE S == {k \in Nat : \E f : Pushes(f, l, w, k)}
  <1>1. 0 \in S
    <2>1. PICK f : f = [j \in 0..0 |-> l]
      OBVIOUS
    <2>2. Pushes(f, l, w, 0)
      BY <2>1 DEF Pushes
    <2>3. QED
      BY <2>2
  <1>2. ASSUME NEW k \in Nat, k \in S
        PROVE  k + 1 \in S
    <2>1. PICK f : Pushes(f, l, w, k)
      BY <1>2
    <2>2. PICK g : g = [j \in 0..(k + 1) |-> IF j = k + 1 THEN PushBack(f[k], w[k + 1]) ELSE f[j]]
      OBVIOUS
    <2>3. /\ \A j \in 0..k : g[j] = f[j]
          /\ g[k + 1] = PushBack(f[k], w[k + 1])
      BY <2>2
    <2>4. ASSUME NEW j \in 0..(k + 1)
          PROVE  g[j] = IF j = 0 THEN l ELSE PushBack(g[j - 1], w[j])
      <3>1. CASE j = k + 1
        BY <2>3, <3>1
      <3>2. CASE j \in 0..k
        <4>1. f[j] = IF j = 0 THEN l ELSE PushBack(f[j - 1], w[j])
          BY <2>1, <3>2 DEF Pushes
        <4>2. j # 0 => g[j - 1] = f[j - 1]
          BY <2>3, <3>2
        <4>3. QED
          BY <2>3, <3>2, <4>1, <4>2
      <3>3. QED
        BY <3>1, <3>2
    <2>5. g = [j \in 0..(k + 1) |-> g[j]]
      BY <2>2
    <2>6. Pushes(g, l, w, k + 1)
      BY <2>4, <2>5 DEF Pushes
    <2>7. QED
      BY <2>6
  <1> HIDE DEF S
  <1>3. n \in S
    BY <1>1, <1>2, Induction
  <1>4. QED
    BY <1>3 DEF S

LEMMA PushAllSound ==
  ASSUME NEW l, Sound(l), NEW w \in Seq(Values), Cardinality(Unallocated(l)) >= Len(w)
  PROVE  Sound(PushAll(l, w)) /\ \A x \in Live(l) : x \in Live(PushAll(l, w))
  <1>1. Len(w) \in Nat /\ \A k \in 1..Len(w) : w[k] \in Values
    OBVIOUS
  <1>2. PICK f : Pushes(f, l, w, Len(w)) /\ PushAll(l, w) = f[Len(w)]
    <2>1. \E f : Pushes(f, l, w, Len(w))
      BY <1>1, PushesExist
    <2>2. QED
      BY <2>1 DEF PushAll, Pushes
  <1>3. f[0] = l /\ \A k \in 1..Len(w) : f[k] = PushBack(f[k - 1], w[k])
    BY <1>1, <1>2 DEF Pushes
  <1>4. \A m : Unallocated(m) = Nodes \ Live(m) /\ IsFiniteSet(Unallocated(m))
    <2>1. ASSUME NEW m PROVE Unallocated(m) = Nodes \ Live(m) /\ IsFiniteSet(Unallocated(m))
      <3>1. Unallocated(m) \in SUBSET Nodes
        BY DEF Unallocated
      <3>2. IsFiniteSet(Unallocated(m))
        BY <3>1, NodesAssumption, FS_Subset
      <3>3. QED
        BY <3>2 DEF Unallocated, Live
    <2>2. QED
      BY <2>1
  <1>5. Cardinality(Unallocated(l)) \in Nat
    BY <1>4, FS_CardinalityType
  <1> DEFINE S == {k \in Nat : k <= Len(w) =>
                     /\ Sound(f[k]) /\ Live(l) \subseteq Live(f[k])
                     /\ Cardinality(Unallocated(f[k])) = Cardinality(Unallocated(l)) - k}
  <1>6. 0 \in S
    BY <1>3, <1>5
  <1>7. ASSUME NEW k \in Nat, k \in S
        PROVE  k + 1 \in S
    <2> SUFFICES ASSUME k + 1 <= Len(w)
                 PROVE  /\ Sound(f[k + 1]) /\ Live(l) \subseteq Live(f[k + 1])
                        /\ Cardinality(Unallocated(f[k + 1])) = Cardinality(Unallocated(l)) - (k + 1)
      OBVIOUS
    <2>1. /\ Sound(f[k]) /\ Live(l) \subseteq Live(f[k])
          /\ Cardinality(Unallocated(f[k])) = Cardinality(Unallocated(l)) - k
      BY <1>1, <1>7
    <2>2. k + 1 \in 1..Len(w) /\ (k + 1) - 1 = k
      BY <1>1
    <2>3. PICK g, h, v : g = f[k] /\ h = f[k + 1] /\ v = w[k + 1]
      OBVIOUS
    <2>4. h = PushBack(g, v) /\ v \in Values
      BY <1>1, <1>3, <2>2, <2>3
    <2>5. Cardinality(Unallocated(g)) # 0
      BY <1>1, <1>5, <2>1, <2>2, <2>3
    <2>6. Unallocated(g) # {}
      BY <2>5, FS_EmptySet
    <2>7. Sound(h) /\ Live(h) = Live(g) \cup {Allocate(g)}
      BY <2>1, <2>3, <2>4, <2>6, PushBackSound
    <2>8. Allocate(g) \in Unallocated(g)
      BY <1>4, <2>6, FreshNode
    <2>9. Unallocated(h) = Unallocated(g) \ {Allocate(g)}
      BY <1>4, <2>7
    <2>10. Cardinality(Unallocated(h)) = Cardinality(Unallocated(g)) - 1
      BY <1>4, <2>8, <2>9, FS_RemoveElement
    <2>11. QED
      BY <1>5, <2>1, <2>3, <2>7, <2>10
  <1> HIDE DEF S
  <1>8. Len(w) \in S
    BY <1>1, <1>6, <1>7, Induction
  <1>9. QED
    BY <1>1, <1>2, <1>8 DEF S

-----------------------------------------------------------------------------
(***************************************************************************)
(* Where a removed node leads to.  Both links lead up in an order of the    *)
(* nodes, so that skipping comes to an end within N steps.                 *)
(***************************************************************************)
Climbs(l, link, r) ==
  /\ r \in [Nodes -> Int]
  /\ \A c \in Nodes : l.node[c][link] \in Nodes => r[c] < r[l.node[c][link]]
Above(r, c) == {x \in Nodes : r[c] <= r[x]}

LEMMA SoundClimbs ==
  ASSUME NEW l, Sound(l), NEW link \in {"next", "prev"}
  PROVE  Linked(l, link) /\ \E r : Climbs(l, link, r)
  <1>1. l \in ListType
    BY DEF Sound
  <1>2. PICK r : Ordered(l, r)
    BY DEF Sound
  <1>3. CASE link = "next"
    <2>1. Climbs(l, "next", r)
      BY <1>2 DEF Ordered, Climbs
    <2>2. QED
      BY <1>1, <1>3, <2>1, LinkedType
  <1>4. CASE link = "prev"
    <2>1. PICK b : b = [c \in Nodes |-> -r[c]]
      OBVIOUS
    <2>2. r \in [Nodes -> Int]
      BY <1>2 DEF Ordered
    <2>3. b \in [Nodes -> Int] /\ \A c \in Nodes : b[c] = -r[c]
      BY <2>1, <2>2
    <2>4. ASSUME NEW c \in Nodes, l.node[c].prev \in Nodes PROVE b[c] < b[l.node[c].prev]
      <3>1. PICK d \in Nodes : d = l.node[c].prev
        BY <2>4
      <3>2. r[d] < r[c] /\ r[d] \in Int /\ r[c] \in Int
        BY <1>2, <2>2, <2>4, <3>1 DEF Ordered
      <3>3. b[c] < b[d]
        BY <2>3, <3>2
      <3>4. QED
        BY <3>1, <3>3
    <2>5. Climbs(l, "prev", b)
      BY <2>3, <2>4 DEF Climbs
    <2>6. QED
      BY <1>1, <1>4, <2>5, LinkedType
  <1>5. QED
    BY <1>3, <1>4

LEMMA AboveIs ==
  ASSUME NEW r \in [Nodes -> Int], NEW c \in Nodes
  PROVE  /\ Cardinality(Above(r, c)) \in 1..N
         /\ \A d \in Nodes : r[c] < r[d] => Cardinality(Above(r, d)) < Cardinality(Above(r, c))
  <1>1. \A d \in Nodes : IsFiniteSet(Above(r, d)) /\ Cardinality(Above(r, d)) \in Nat /\ Cardinality(Above(r, d)) <= N
    <2>1. ASSUME NEW d \in Nodes
          PROVE  IsFiniteSet(Above(r, d)) /\ Cardinality(Above(r, d)) \in Nat /\ Cardinality(Above(r, d)) <= N
      <3>1. Above(r, d) \in SUBSET Nodes
        BY DEF Above
      <3>2. QED
        BY <3>1, NodesAssumption, FS_Subset, FS_CardinalityType DEF N
    <2>2. QED
      BY <2>1
  <1>2. c \in Above(r, c)
    <2>1. r[c] \in Int
      OBVIOUS
    <2>2. QED
      BY <2>1 DEF Above
  <1>3. Cardinality(Above(r, c)) # 0
    BY <1>1, <1>2, FS_EmptySet
  <1>4. ASSUME NEW d \in Nodes, r[c] < r[d] PROVE Cardinality(Above(r, d)) < Cardinality(Above(r, c))
    <2>1. Above(r, d) \subseteq Above(r, c) /\ c \notin Above(r, d)
      <3>1. \A x \in Nodes : r[x] \in Int
        OBVIOUS
      <3>2. QED
        BY <1>4, <3>1 DEF Above
    <2>2. Above(r, d) \in SUBSET Above(r, c) /\ Above(r, d) # Above(r, c)
      BY <1>2, <2>1
    <2>3. QED
      BY <1>1, <2>2, FS_Subset
  <1>5. QED
    BY <1>1, <1>3, <1>4, Numbers

(* Induction along a link: what holds of a node when it holds of the one    *)
(* that its link leads to.                                                 *)
LEMMA ClimbInduction ==
  ASSUME NEW l, NEW link, NEW r, Climbs(l, link, r), NEW T,
         \A c \in Nodes : (l.node[c][link] \in Nodes => l.node[c][link] \in T) => c \in T
  PROVE  Nodes \subseteq T
  <1> DEFINE A(c) == Cardinality(Above(r, c))
             S == {k \in Nat : \A c \in Nodes : A(c) <= k => c \in T}
  <1>1. \A c \in Nodes : A(c) \in 1..N /\ \A d \in Nodes : r[c] < r[d] => A(d) < A(c)
    BY AboveIs DEF Climbs
  <1> HIDE DEF A
  <1>2. 0 \in S
    BY <1>1, Numbers
  <1>3. ASSUME NEW k \in Nat, k \in S
        PROVE  k + 1 \in S
    <2> SUFFICES ASSUME NEW c \in Nodes, A(c) <= k + 1
                 PROVE  c \in T
      OBVIOUS
    <2>1. ASSUME l.node[c][link] \in Nodes PROVE l.node[c][link] \in T
      <3>1. PICK d \in Nodes : d = l.node[c][link]
        BY <2>1
      <3>2. A(d) < A(c)
        BY <1>1, <3>1 DEF Climbs
      <3>3. A(d) <= k
        BY <1>1, <3>2, Numbers
      <3>4. QED
        BY <1>3, <3>1, <3>3
    <2>2. QED
      BY <2>1
  <1>4. N \in S
    <2> HIDE DEF S
    <2>1. QED
      BY <1>2, <1>3, Induction, Numbers
  <1>5. ASSUME NEW c \in Nodes PROVE c \in T
    BY <1>1, <1>4, Numbers
  <1>6. QED
    BY <1>5

LEMMA SkipStep ==
  ASSUME NEW l, NEW link, Linked(l, link), NEW r, Climbs(l, link, r), NEW c \in Nodes, ~l.node[c].valid
  PROVE  Skip(l, c, link) = Skip(l, l.node[c][link], link)
  <1>1. PICK f : Unfolds(f, l, link) /\ \A q : Skip(l, q, link) = f[<<N, q>>]
    BY SkipUnfolds
  <1> DEFINE A(x) == Cardinality(Above(r, x))
             S == {k \in Nat : k + 1 <= N => \A x \in Pointers : (x \in Nodes => A(x) <= k) => f[<<k + 1, x>>] = f[<<k, x>>]}
  <1>2. \A x \in Nodes : A(x) \in 1..N /\ \A d \in Nodes : r[x] < r[d] => A(d) < A(x)
    BY AboveIs DEF Climbs
  <1> HIDE DEF A
  <1>3. ASSUME NEW k \in 0..N, NEW x \in Pointers, Stops(l, x) PROVE f[<<k, x>>] = x
    BY <1>1, <1>3 DEF Unfolds
  <1>4. 0 \in S
    <2> SUFFICES ASSUME 0 + 1 <= N, NEW x \in Pointers, x \in Nodes => A(x) <= 0
                 PROVE  f[<<0 + 1, x>>] = f[<<0, x>>]
      OBVIOUS
    <2>1. x \notin Nodes
      BY <1>2, Numbers
    <2>2. Stops(l, x) /\ 0 \in 0..N /\ 0 + 1 \in 0..N
      BY <2>1, Numbers DEF Stops
    <2>3. QED
      BY <1>3, <2>2
  <1>5. ASSUME NEW k \in Nat, k \in S
        PROVE  k + 1 \in S
    <2> SUFFICES ASSUME (k + 1) + 1 <= N, NEW x \in Pointers, x \in Nodes => A(x) <= k + 1
                 PROVE  f[<<(k + 1) + 1, x>>] = f[<<k + 1, x>>]
      OBVIOUS
    <2>1. /\ k + 1 \in 0..N /\ (k + 1) + 1 \in 0..N /\ k + 1 <= N
          /\ ((k + 1) + 1) - 1 = k + 1 /\ (k + 1) - 1 = k /\ k + 1 # 0 /\ (k + 1) + 1 # 0
      BY Numbers
    <2>2. CASE Stops(l, x)
      BY <1>3, <2>1, <2>2
    <2>3. CASE ~Stops(l, x)
      <3>1. PICK y : y = l.node[x][link]
        OBVIOUS
      <3>2. y \in Pointers /\ x \in Nodes
        BY <2>3, <3>1 DEF Linked, Stops
      <3>3. f[<<(k + 1) + 1, x>>] = f[<<k + 1, y>>] /\ f[<<k + 1, x>>] = f[<<k, y>>]
        BY <1>1, <2>1, <2>3, <3>1 DEF Unfolds
      <3>4. y \in Nodes => A(y) < A(x)
        BY <1>2, <3>1, <3>2 DEF Climbs
      <3>5. y \in Nodes => A(y) <= k
        BY <1>2, <3>2, <3>4, Numbers
      <3>6. QED
        BY <1>5, <2>1, <3>2, <3>3, <3>5
    <2>4. QED
      BY <2>2, <2>3
  <1>6. PICK y : y = l.node[c][link]
    OBVIOUS
  <1>7. y \in Pointers /\ ~Stops(l, c) /\ c \in Pointers
    BY <1>6 DEF Linked, Stops, Pointers
  <1>8. N \in Nat \ {0} /\ N - 1 \in Nat /\ (N - 1) + 1 = N /\ N \in 0..N
    BY <1>2, Numbers
  <1>9. f[<<N, c>>] = f[<<N - 1, y>>]
    BY <1>1, <1>6, <1>7, <1>8 DEF Unfolds
  <1>10. y \in Nodes => A(y) <= N - 1
    <2>1. y \in Nodes => A(y) < A(c)
      BY <1>2, <1>6 DEF Climbs
    <2>2. QED
      BY <1>2, <2>1, Numbers
  <1>11. N - 1 \in S
    <2> HIDE DEF S
    <2>1. QED
      BY <1>4, <1>5, <1>8, Induction
  <1>12. f[<<N, y>>] = f[<<N - 1, y>>]
    BY <1>7, <1>8, <1>10, <1>11
  <1>13. QED
    BY <1>1, <1>6, <1>9, <1>12

(***************************************************************************)
(* The moves of an iterator on any node, over either link.                 *)
(***************************************************************************)
Links == {"next", "prev"}
MovesTo(l, c, link) == Skip(l, l.node[c][link], link)

LEMMA IncDecMove == ASSUME NEW l, NEW c PROVE Inc(l, c) = MovesTo(l, c, "next") /\ Dec(l, c) = MovesTo(l, c, "prev")
  BY DEF Inc, Dec, MovesTo

LEMMA SkipIs ==
  ASSUME NEW l, Sound(l), NEW link \in Links
  PROVE  /\ \A c \in Pointers : Skip(l, c, link) = IF Stops(l, c) THEN c ELSE Skip(l, l.node[c][link], link)
         /\ \A c \in Nodes : l.node[c][link] \in Pointers
  <1>1. Linked(l, link)
    BY SoundClimbs DEF Links
  <1>2. PICK r : Climbs(l, link, r)
    BY SoundClimbs DEF Links
  <1>3. ASSUME NEW c \in Pointers
        PROVE  Skip(l, c, link) = IF Stops(l, c) THEN c ELSE Skip(l, l.node[c][link], link)
    <2>1. CASE Stops(l, c)
      BY <1>1, <2>1, SkipStops
    <2>2. CASE ~Stops(l, c)
      <3>1. c \in Nodes /\ ~l.node[c].valid
        BY <2>2 DEF Stops
      <3>2. Skip(l, c, link) = Skip(l, l.node[c][link], link)
        BY <1>1, <1>2, <3>1, SkipStep
      <3>3. QED
        BY <2>2, <3>2
    <2>3. QED
      BY <2>1, <2>2
  <1>4. QED
    BY <1>1, <1>3 DEF Linked

(* What holds of Null and Dangling, of the valid nodes, and of a removed    *)
(* node when it holds of where its link leads, holds of all.               *)
LEMMA SkipInduction ==
  ASSUME NEW l, Sound(l), NEW link \in Links, NEW T, Null \in T, Dangling \in T,
         \A c \in Nodes : l.node[c].valid \/ l.node[c][link] \in T => c \in T
  PROVE  Pointers \subseteq T
  <1>1. PICK r : Climbs(l, link, r)
    BY SoundClimbs DEF Links
  <1>2. ASSUME NEW c \in Nodes, l.node[c][link] \in Nodes => l.node[c][link] \in T PROVE c \in T
    <2>1. l.node[c][link] \in Pointers
      BY SkipIs
    <2>2. l.node[c][link] \in T
      BY <1>2, <2>1 DEF Pointers
    <2>3. QED
      BY <2>2
  <1>3. Nodes \subseteq T
    BY <1>1, <1>2, ClimbInduction
  <1>4. QED
    BY <1>3 DEF Pointers

LEMMA SkipEnds ==
  ASSUME NEW l, Sound(l), NEW link \in Links, NEW c \in Pointers
  PROVE  Skip(l, c, link) \in Pointers /\ Stops(l, Skip(l, c, link))
  <1> DEFINE T == {d \in Pointers : Skip(l, d, link) \in Pointers /\ Stops(l, Skip(l, d, link))}
  <1>1. Null \in T /\ Dangling \in T
    <2>1. \A d \in {Null, Dangling} : d \in Pointers /\ Stops(l, d)
      BY NodesAssumption DEF Stops, Pointers
    <2>2. QED
      BY <2>1, SkipIs
  <1>2. ASSUME NEW d \in Nodes, l.node[d].valid \/ l.node[d][link] \in T PROVE d \in T
    <2>1. d \in Pointers
      BY DEF Pointers
    <2>2. CASE Stops(l, d)
      BY <2>1, <2>2, SkipIs
    <2>3. CASE ~Stops(l, d)
      <3>1. Skip(l, d, link) = Skip(l, l.node[d][link], link)
        BY <2>1, <2>3, SkipIs
      <3>2. l.node[d][link] \in T
        BY <1>2, <2>3 DEF Stops
      <3>3. QED
        BY <2>1, <3>1, <3>2
    <2>4. QED
      BY <2>2, <2>3
  <1> HIDE DEF T
  <1>3. c \in T
    BY <1>1, <1>2, SkipInduction
  <1>4. QED
    BY <1>3 DEF T

(* The elements in the order of a link.                                    *)
Runs(l, link, u) ==
  /\ u \in Seq(Nodes) /\ Len(u) \in 0..N
  /\ \A i, j \in 1..Len(u) : u[i] = u[j] => i = j
  /\ \A n \in Nodes : l.node[n].valid <=> \E i \in 1..Len(u) : u[i] = n
  /\ \A i \in 1..Len(u) : l.node[u[i]][link] = At(u, i + 1)
Line(s, link) == IF link = "next" THEN s ELSE Reverse(s)

LEMMA ReverseIs ==
  ASSUME NEW A, NEW s \in Seq(A), NEW t, t = Reverse(s)
  PROVE  /\ Len(s) \in Nat /\ t \in Seq(A) /\ Len(t) = Len(s)
         /\ \A i \in 1..Len(s) : t[i] = s[Len(s) + 1 - i]
  BY DEF Reverse

LEMMA ChainRuns ==
  ASSUME NEW l, NEW s, Chain(l, s), NEW link \in Links
  PROVE  Runs(l, link, Line(s, link))
  <1>1. s \in Seq(Nodes) /\ Len(s) \in 0..N
    BY ChainShort DEF Chain
  <1>2. CASE link = "next"
    <2>1. Runs(l, "next", s)
      BY <1>1 DEF Chain, Runs
    <2>2. QED
      BY <1>2, <2>1 DEF Line
  <1>3. CASE link = "prev"
    <2>1. PICK t : t = Reverse(s)
      OBVIOUS
    <2>2. /\ Len(s) \in Nat /\ t \in Seq(Nodes) /\ Len(t) = Len(s)
          /\ \A i \in 1..Len(s) : t[i] = s[Len(s) + 1 - i]
      BY <1>1, <2>1, ReverseIs
    <2>3. \A i \in 1..Len(s) : Len(s) + 1 - i \in 1..Len(s) /\ Len(s) + 1 - (Len(s) + 1 - i) = i
      BY <2>2
    <2>4. \A i, j \in 1..Len(t) : t[i] = t[j] => i = j
      <3>1. ASSUME NEW i \in 1..Len(t), NEW j \in 1..Len(t), t[i] = t[j] PROVE i = j
        <4>1. i \in 1..Len(s) /\ j \in 1..Len(s)
          BY <2>2
        <4>2. PICK a, b \in 1..Len(s) : a = Len(s) + 1 - i /\ b = Len(s) + 1 - j
          BY <2>3, <4>1
        <4>3. s[a] = s[b]
          BY <2>2, <3>1, <4>1, <4>2
        <4>4. a = b
          BY <4>3 DEF Chain
        <4>5. Len(s) \in Nat /\ i \in Int /\ j \in Int
          BY <2>2, <4>1
        <4>6. Len(s) + 1 - i = Len(s) + 1 - j
          BY <4>2, <4>4
        <4>7. QED
          BY <4>5, <4>6
      <3>2. QED
        BY <3>1
    <2>5. \A n \in Nodes : l.node[n].valid <=> \E i \in 1..Len(t) : t[i] = n
      <3>1. \A n : (\E i \in 1..Len(t) : t[i] = n) <=> \E i \in 1..Len(s) : s[i] = n
        BY <2>2, <2>3
      <3>2. QED
        BY <3>1 DEF Chain
    <2>6. ASSUME NEW i \in 1..Len(t) PROVE l.node[t[i]].prev = At(t, i + 1)
      <3>0. i \in 1..Len(s)
        BY <2>2
      <3>1. PICK k \in 1..Len(s) : k = Len(s) + 1 - i
        BY <2>3, <3>0
      <3>2. l.node[s[k]].prev = At(s, k - 1) /\ t[i] = s[k]
        BY <2>2, <3>0, <3>1 DEF Chain
      <3>3. At(s, k - 1) = At(t, i + 1)
        BY <2>2, <3>0, <3>1 DEF At
      <3>4. QED
        BY <3>2, <3>3
    <2>7. Runs(l, "prev", t)
      BY <1>1, <2>2, <2>4, <2>5, <2>6 DEF Runs
    <2>8. QED
      BY <1>3, <2>1, <2>7 DEF Line
  <1>4. QED
    BY <1>2, <1>3 DEF Links

(* A move ends on an element, at the end, or on a deleted node.            *)
LEMMA MoveIs ==
  ASSUME NEW l, Sound(l), NEW link \in Links, NEW u, Runs(l, link, u), NEW c \in Nodes
  PROVE  /\ MovesTo(l, c, link) = Dangling \/ \E k \in 1..(Len(u) + 1) : MovesTo(l, c, link) = At(u, k)
         /\ \A i \in 1..Len(u) : c = u[i] => MovesTo(l, c, link) = At(u, i + 1)
  <1>1. u \in Seq(Nodes) /\ Len(u) \in Nat /\ \A i \in 1..Len(u) : u[i] \in Nodes /\ l.node[u[i]].valid
    BY Numbers DEF Runs
  <1>2. l.node[c][link] \in Pointers
    BY SkipIs
  <1>3. PICK d : d = MovesTo(l, c, link)
    OBVIOUS
  <1>4. d \in Pointers /\ Stops(l, d)
    BY <1>2, <1>3, SkipEnds DEF MovesTo
  <1>5. d = Dangling \/ \E k \in 1..(Len(u) + 1) : d = At(u, k)
    <2>1. CASE d = Null
      <3>1. Len(u) + 1 \in 1..(Len(u) + 1) /\ At(u, Len(u) + 1) = Null
        BY <1>1 DEF At
      <3>2. QED
        BY <2>1, <3>1
    <2>2. CASE d \in Nodes
      <3>1. PICK k \in 1..Len(u) : u[k] = d
        BY <1>4, <2>2 DEF Stops, Runs
      <3>2. k \in 1..(Len(u) + 1) /\ At(u, k) = d
        BY <1>1, <3>1 DEF At
      <3>3. QED
        BY <3>2
    <2>3. QED
      BY <1>4, <2>1, <2>2 DEF Pointers
  <1>6. ASSUME NEW i \in 1..Len(u), c = u[i] PROVE MovesTo(l, c, link) = At(u, i + 1)
    <2>1. l.node[c][link] = At(u, i + 1)
      BY <1>6 DEF Runs
    <2>2. At(u, i + 1) \in Pointers /\ Stops(l, At(u, i + 1))
      BY <1>1, NodesAssumption DEF At, Stops, Pointers
    <2>3. Skip(l, At(u, i + 1), link) = At(u, i + 1)
      BY <2>2, SkipIs
    <2>4. QED
      BY <2>1, <2>3 DEF MovesTo
  <1>7. QED
    BY <1>3, <1>5, <1>6

(***************************************************************************)
(* The way an iterator on c has in front of it, over either link: what is   *)
(* left of the elements, or it strays onto a node that was deleted.        *)
(***************************************************************************)
From(u, k) == [i \in 1..(Len(u) + 1 - k) |-> u[i + k - 1]]
Way(l, c, link) == IF link = "next" THEN Walk(l, Inc(l, c), Inc) ELSE Walk(l, Dec(l, c), Dec)
Strays(l, c, link) == MovesTo(l, c, link) = Dangling

IsFrom(w, u, k) ==
  /\ Len(w) = Len(u) + 1 - k
  /\ \A i \in 1..Len(w) : i + k - 1 \in 1..Len(u) /\ w[i] = u[i + k - 1]
  /\ \A i \in Nat \ {0} : At(w, i) = At(u, i + k - 1)

LEMMA FromIs ==
  ASSUME NEW A, NEW u \in Seq(A), NEW k \in 1..(Len(u) + 1), NEW w, w = From(u, k)
  PROVE  w \in Seq(A) /\ IsFrom(w, u, k)
  <1>1. Len(u) \in Nat /\ Len(u) + 1 - k \in Nat /\ \A i \in 1..Len(u) : u[i] \in A
    OBVIOUS
  <1>2. w \in Seq(A) /\ Len(w) = Len(u) + 1 - k /\ \A i \in 1..(Len(u) + 1 - k) : w[i] = u[i + k - 1]
    BY <1>1 DEF From
  <1>3. \A i \in 1..Len(w) : i + k - 1 \in 1..Len(u)
    BY <1>1, <1>2
  <1>4. \A i \in Nat \ {0} : At(w, i) = At(u, i + k - 1)
    BY <1>1, <1>2, <1>3 DEF At
  <1>5. \A i \in 1..Len(w) : w[i] = u[i + k - 1]
    BY <1>2
  <1>6. QED
    BY <1>2, <1>3, <1>4, <1>5 DEF IsFrom

LEMMA DanglingWalk ==
  ASSUME NEW l \in ListType, Nodes # {}
  PROVE  Walk(l, Dangling, Inc) = <<Dangling>> /\ Walk(l, Dangling, Dec) = <<Dangling>>
  <1>1. N \in Nat \ {0}
    BY Numbers, NodesAssumption, FS_EmptySet DEF N
  <1>2. Walk(l, Dangling, Inc) = <<Dangling>>
    <2> DEFINE mv == [n \in Nodes |-> Inc(l, n)]
    <2>1. mv \in [Nodes -> Pointers] /\ \A n \in Nodes : mv[n] = Inc(l, n)
      BY MovesTyped
    <2> DEFINE W(f) == f = [x \in Steps \X Pointers |->
                            IF x[1] = 0 \/ x[2] = Null THEN <<>>
                            ELSE IF x[2] = Dangling THEN <<x[2]>> ELSE <<x[2]>> \o f[<<x[1] - 1, Inc(l, x[2])>>]]
    <2>2. PICK g : /\ g = [x \in Steps \X Pointers |->
                            IF x[1] = 0 \/ x[2] = Null THEN <<>>
                            ELSE IF x[2] = Dangling THEN <<x[2]>> ELSE <<x[2]>> \o g[<<x[1] - 1, mv[x[2]]>>]]
                   /\ WalksBy(g, mv)
      BY <2>1, WalkUnfolds
    <2>3. \A x \in Steps \X Pointers : x[2] # Null /\ x[2] # Dangling => mv[x[2]] = Inc(l, x[2])
      BY <2>1 DEF Pointers
    <2> HIDE DEF mv
    <2>4. W(g)
      BY <2>2, <2>3
    <2>5. PICK f : W(f) /\ Walk(l, Dangling, Inc) = f[<<N, Dangling>>]
      BY <2>4 DEF Walk, N
    <2>6. <<N, Dangling>> \in Steps \X Pointers /\ Dangling # Null
      BY <1>1, Numbers, NodesAssumption DEF Pointers
    <2>7. f[<<N, Dangling>>] = <<Dangling>>
      BY <1>1, <2>5, <2>6
    <2>8. QED
      BY <2>5, <2>7
  <1>3. Walk(l, Dangling, Dec) = <<Dangling>>
    <2> DEFINE mv == [n \in Nodes |-> Dec(l, n)]
    <2>1. mv \in [Nodes -> Pointers] /\ \A n \in Nodes : mv[n] = Dec(l, n)
      BY MovesTyped
    <2> DEFINE W(f) == f = [x \in Steps \X Pointers |->
                            IF x[1] = 0 \/ x[2] = Null THEN <<>>
                            ELSE IF x[2] = Dangling THEN <<x[2]>> ELSE <<x[2]>> \o f[<<x[1] - 1, Dec(l, x[2])>>]]
    <2>2. PICK g : /\ g = [x \in Steps \X Pointers |->
                            IF x[1] = 0 \/ x[2] = Null THEN <<>>
                            ELSE IF x[2] = Dangling THEN <<x[2]>> ELSE <<x[2]>> \o g[<<x[1] - 1, mv[x[2]]>>]]
                   /\ WalksBy(g, mv)
      BY <2>1, WalkUnfolds
    <2>3. \A x \in Steps \X Pointers : x[2] # Null /\ x[2] # Dangling => mv[x[2]] = Dec(l, x[2])
      BY <2>1 DEF Pointers
    <2> HIDE DEF mv
    <2>4. W(g)
      BY <2>2, <2>3
    <2>5. PICK f : W(f) /\ Walk(l, Dangling, Dec) = f[<<N, Dangling>>]
      BY <2>4 DEF Walk, N
    <2>6. <<N, Dangling>> \in Steps \X Pointers /\ Dangling # Null
      BY <1>1, Numbers, NodesAssumption DEF Pointers
    <2>7. f[<<N, Dangling>>] = <<Dangling>>
      BY <1>1, <2>5, <2>6
    <2>8. QED
      BY <2>5, <2>7
  <1>4. QED
    BY <1>2, <1>3

LEMMA WayIs ==
  ASSUME NEW l, Sound(l), NEW link \in Links, NEW u, Runs(l, link, u), NEW c \in Nodes,
         NEW k \in 1..(Len(u) + 1), MovesTo(l, c, link) = At(u, k)
  PROVE  Way(l, c, link) = From(u, k) /\ ~Strays(l, c, link)
  <1>1. u \in Seq(Nodes) /\ Len(u) \in Nat /\ Len(u) <= N /\ \A i \in 1..Len(u) : u[i] \in Nodes
    BY Numbers DEF Runs
  <1>2. PICK w : w = From(u, k)
    OBVIOUS
  <1>3. /\ w \in Seq(Nodes) /\ Len(w) = Len(u) + 1 - k
        /\ \A i \in 1..Len(w) : i + k - 1 \in 1..Len(u) /\ w[i] = u[i + k - 1]
        /\ \A i \in Nat \ {0} : At(w, i) = At(u, i + k - 1)
    <2>1. w \in Seq(Nodes) /\ IsFrom(w, u, k)
      BY <1>1, <1>2, FromIs
    <2>2. QED
      BY <2>1 DEF IsFrom
  <1>4. ASSUME NEW i \in 1..Len(w) PROVE MovesTo(l, w[i], link) = At(w, i + 1)
    <2>1. PICK j \in 1..Len(u) : j = i + k - 1 /\ w[i] = u[j]
      BY <1>3
    <2>2. MovesTo(l, u[j], link) = At(u, j + 1)
      BY <1>1, MoveIs
    <2>3. i + 1 \in Nat \ {0} /\ (i + 1) + k - 1 = j + 1
      BY <1>1, <1>3, <2>1
    <2>4. At(w, i + 1) = At(u, (i + 1) + k - 1)
      BY <1>3, <2>3
    <2>5. QED
      BY <2>1, <2>2, <2>3, <2>4
  <1>5. At(w, 1) = At(u, k)
    <2>1. At(w, 1) = At(u, 1 + k - 1) /\ 1 + k - 1 = k
      BY <1>1, <1>3
    <2>2. QED
      BY <2>1
  <1>6. l \in ListType /\ Len(w) <= N
    BY <1>1, <1>3, Numbers DEF Sound
  <1>7. Way(l, c, link) = w
    <2>1. CASE link = "next"
      <3>1. \A i \in 1..Len(w) : Inc(l, w[i]) = At(w, i + 1)
        BY <1>4, <2>1, IncDecMove
      <3>2. Walk(l, At(w, 1), Inc) = w
        BY <1>3, <1>6, <3>1, WalkInc
      <3>3. Inc(l, c) = At(w, 1)
        BY <1>5, <2>1, IncDecMove
      <3>4. QED
        BY <2>1, <3>2, <3>3 DEF Way
    <2>2. CASE link = "prev"
      <3>1. \A i \in 1..Len(w) : Dec(l, w[i]) = At(w, i + 1)
        BY <1>4, <2>2, IncDecMove
      <3>2. Walk(l, At(w, 1), Dec) = w
        BY <1>3, <1>6, <3>1, WalkDec
      <3>3. Dec(l, c) = At(w, 1)
        BY <1>5, <2>2, IncDecMove
      <3>4. link # "next"
        BY <2>2
      <3>5. QED
        BY <3>2, <3>3, <3>4 DEF Way
    <2>3. QED
      BY <2>1, <2>2 DEF Links
  <1>8. At(u, k) # Dangling
    BY <1>1, NodesAssumption DEF At
  <1>9. QED
    BY <1>2, <1>7, <1>8 DEF Strays

LEMMA WayTyped ==
  ASSUME NEW l, Sound(l), NEW link \in Links, NEW c \in Nodes
  PROVE  /\ Strays(l, c, link) => Way(l, c, link) = <<Dangling>> /\ link = "prev" /\ ~l.node[c].valid
         /\ ~Strays(l, c, link) => Way(l, c, link) \in Seq(Nodes)
  <1>1. PICK s : Chain(l, s)
    BY DEF Sound
  <1>2. PICK u : u = Line(s, link)
    OBVIOUS
  <1>3. Runs(l, link, u)
    BY <1>1, <1>2, ChainRuns
  <1>4. u \in Seq(Nodes) /\ Len(u) \in Nat /\ \A i \in 1..Len(u) : u[i] \in Nodes
    BY <1>3, Numbers DEF Runs
  <1>5. ASSUME ~Strays(l, c, link) PROVE Way(l, c, link) \in Seq(Nodes)
    <2>1. PICK k \in 1..(Len(u) + 1) : MovesTo(l, c, link) = At(u, k)
      BY <1>3, <1>5, MoveIs DEF Strays
    <2>2. PICK w : w = From(u, k)
      OBVIOUS
    <2>3. w \in Seq(Nodes)
      BY <1>4, <2>2, FromIs
    <2>4. Way(l, c, link) = w
      BY <1>3, <2>1, <2>2, WayIs
    <2>5. QED
      BY <2>3, <2>4
  <1>6. ASSUME Strays(l, c, link) PROVE Way(l, c, link) = <<Dangling>> /\ link = "prev" /\ ~l.node[c].valid
    <2>1. l \in ListType /\ Nodes # {}
      BY DEF Sound
    <2>2. MovesTo(l, c, link) = Dangling
      BY <1>6 DEF Strays
    <2>3. Way(l, c, link) = <<Dangling>>
      <3>1. CASE link = "next"
        BY <2>1, <2>2, <3>1, IncDecMove, DanglingWalk DEF Way
      <3>2. CASE link = "prev"
        <4>1. link # "next" /\ Dec(l, c) = Dangling
          BY <2>2, <3>2, IncDecMove
        <4>2. QED
          BY <2>1, <4>1, DanglingWalk DEF Way
      <3>3. QED
        BY <3>1, <3>2 DEF Links
    <2>4. link # "next"
      <3> SUFFICES ASSUME link = "next" PROVE FALSE
        OBVIOUS
      <3>1. Linked(l, "next") /\ \A d \in Nodes : l.node[d].next \in Nodes \cup {Null}
        BY <2>1, LinkedType, NodeTyped
      <3>2. Nodes \cup {Null} \in SUBSET Pointers /\ LinksWithin(l, "next", Nodes \cup {Null})
        BY <3>1 DEF Pointers, LinksWithin
      <3>3. Skip(l, l.node[c].next, "next") \in Nodes \cup {Null}
        BY <3>1, <3>2, SkipStays
      <3>4. QED
        BY <2>2, <3>3, NodesAssumption DEF MovesTo
    <2>5. ~l.node[c].valid
      <3> SUFFICES ASSUME l.node[c].valid PROVE FALSE
        OBVIOUS
      <3>1. PICK i \in 1..Len(u) : c = u[i]
        BY <1>3 DEF Runs
      <3>2. MovesTo(l, c, link) = At(u, i + 1)
        BY <1>3, <3>1, MoveIs
      <3>3. At(u, i + 1) \in Nodes \cup {Null}
        BY <1>4 DEF At
      <3>4. QED
        BY <2>2, <3>2, <3>3, NodesAssumption
    <2>6. QED
      BY <2>3, <2>4, <2>5 DEF Links
  <1>7. QED
    BY <1>5, <1>6

(***************************************************************************)
(* How the moves change when a node joins the elements, when one is taken   *)
(* out, when all are, and when nodes are deleted.                          *)
(***************************************************************************)
LEMMA LiveLinks ==
  ASSUME NEW l, Sound(l), NEW link \in Links, NEW c \in Nodes
  PROVE  l.node[c][link] \in Live(l) \cup {Null, Dangling} /\ l.node[c].valid \in BOOLEAN
  <1>1. Intact(l, c) /\ l \in ListType
    BY DEF Sound
  <1>2. l.node[c].valid \in BOOLEAN
    BY <1>1, NodeTyped
  <1>3. CASE link = "next"
    BY <1>1, <1>2, <1>3 DEF Intact
  <1>4. CASE link = "prev"
    BY <1>1, <1>2, <1>4 DEF Intact
  <1>5. QED
    BY <1>3, <1>4 DEF Links

Joins(l, m, link, n, e) ==
  /\ m.node[n].valid
  /\ \A c \in Live(l) : /\ m.node[c].valid = l.node[c].valid
                        /\ m.node[c][link] = IF c = e THEN n ELSE l.node[c][link]
                        /\ c = e => l.node[c].valid

LEMMA JoinsMoves ==
  ASSUME NEW l, Sound(l), NEW m, Sound(m), NEW link \in Links, NEW n \in Nodes, NEW e, Joins(l, m, link, n, e),
         NEW c \in Live(l)
  PROVE  MovesTo(m, c, link) = IF c = e THEN n ELSE MovesTo(l, c, link)
  <1> DEFINE T == {d \in Pointers : d \in Live(l) \cup {Null, Dangling} => Skip(m, d, link) = Skip(l, d, link)}
  <1>1. \A d \in {Null, Dangling} : d \in Pointers /\ Stops(l, d) /\ Stops(m, d)
    BY NodesAssumption DEF Stops, Pointers
  <1>2. Null \in T /\ Dangling \in T
    BY <1>1, SkipIs
  <1>3. ASSUME NEW d \in Nodes, l.node[d].valid \/ l.node[d][link] \in T PROVE d \in T
    <2>0. d \in Pointers
      BY DEF Pointers
    <2> SUFFICES ASSUME d \in Live(l) PROVE Skip(m, d, link) = Skip(l, d, link)
      <3>1. d \notin {Null, Dangling}
        BY NodesAssumption
      <3>2. QED
        BY <2>0, <3>1
    <2>1. CASE l.node[d].valid
      <3>1. Stops(l, d) /\ Stops(m, d)
        BY <2>1 DEF Joins, Stops
      <3>2. QED
        BY <2>0, <3>1, SkipIs
    <2>2. CASE ~l.node[d].valid
      <3>1. ~Stops(l, d) /\ ~Stops(m, d) /\ m.node[d][link] = l.node[d][link]
        BY <2>2 DEF Joins, Stops
      <3>2. l.node[d][link] \in Live(l) \cup {Null, Dangling}
        BY LiveLinks
      <3>3. Skip(m, l.node[d][link], link) = Skip(l, l.node[d][link], link)
        BY <1>3, <2>2, <3>2
      <3>4. QED
        BY <2>0, <3>1, <3>3, SkipIs
    <2>3. QED
      BY <2>1, <2>2
  <1> HIDE DEF T
  <1>4. \A d \in Live(l) \cup {Null, Dangling} : Skip(m, d, link) = Skip(l, d, link)
    <2>1. Live(l) \cup {Null, Dangling} \subseteq Pointers
      BY DEF Live, Pointers
    <2>2. Pointers \subseteq T
      BY <1>2, <1>3, SkipInduction
    <2>3. QED
      BY <2>1, <2>2 DEF T
  <1>5. c \in Nodes
    BY DEF Live
  <1>6. CASE c = e
    <2>1. m.node[c][link] = n /\ Stops(m, n) /\ n \in Pointers
      BY <1>6 DEF Joins, Stops, Pointers
    <2>2. QED
      BY <1>6, <2>1, SkipIs DEF MovesTo
  <1>7. CASE c # e
    <2>1. m.node[c][link] = l.node[c][link]
      BY <1>7 DEF Joins
    <2>2. l.node[c][link] \in Live(l) \cup {Null, Dangling}
      BY <1>5, LiveLinks
    <2>3. QED
      BY <1>4, <1>7, <2>1, <2>2 DEF MovesTo
  <1>8. QED
    BY <1>6, <1>7

Loses(l, m, link, n, t) ==
  /\ l.node[n].valid /\ ~m.node[n].valid /\ l.node[n][link] = t /\ m.node[n][link] = t
  /\ t \in Pointers /\ Stops(m, t)
  /\ \A c \in Nodes \ {n} :
       /\ m.node[c].valid = l.node[c].valid
       /\ \/ m.node[c][link] = l.node[c][link]
          \/ l.node[c].valid /\ l.node[c][link] = n /\ m.node[c][link] = t

LEMMA LosesMoves ==
  ASSUME NEW l, Sound(l), NEW m, Sound(m), NEW link \in Links, NEW n \in Nodes, NEW t, Loses(l, m, link, n, t),
         NEW c \in Nodes
  PROVE  MovesTo(m, c, link) = IF MovesTo(l, c, link) = n THEN t ELSE MovesTo(l, c, link)
  <1> DEFINE X(d) == IF d = n THEN t ELSE d
             T == {d \in Pointers : Skip(m, d, link) = X(Skip(l, d, link))}
  <1>0. n # Null /\ n # Dangling /\ n \in Pointers
    BY NodesAssumption DEF Pointers
  <1>1. \A d \in {Null, Dangling} : d \in Pointers /\ Stops(l, d) /\ Stops(m, d)
    BY NodesAssumption DEF Stops, Pointers
  <1>2. Null \in T /\ Dangling \in T
    BY <1>0, <1>1, SkipIs
  <1>3. n \in T
    <2>1. Stops(l, n) /\ ~Stops(m, n) /\ m.node[n][link] = t /\ t \in Pointers /\ Stops(m, t)
      BY DEF Loses, Stops
    <2>2. Skip(l, n, link) = n /\ Skip(m, n, link) = Skip(m, t, link) /\ Skip(m, t, link) = t
      BY <1>0, <2>1, SkipIs
    <2>3. QED
      BY <1>0, <2>2
  <1>4. ASSUME NEW d \in Nodes, l.node[d].valid \/ l.node[d][link] \in T PROVE d \in T
    <2>0. d \in Pointers
      BY DEF Pointers
    <2> HIDE DEF X
    <2>1. CASE l.node[d].valid /\ d # n
      <3>1. Stops(l, d) /\ Stops(m, d)
        BY <2>1 DEF Loses, Stops
      <3>2. Skip(m, d, link) = d /\ Skip(l, d, link) = d
        BY <2>0, <3>1, SkipIs
      <3>3. X(d) = d
        BY <2>1 DEF X
      <3>4. QED
        BY <2>0, <3>2, <3>3
    <2>2. CASE ~l.node[d].valid
      <3>0. d # n
        BY <2>2 DEF Loses
      <3>1. ~Stops(l, d) /\ ~Stops(m, d) /\ m.node[d][link] = l.node[d][link]
        BY <2>2, <3>0 DEF Loses, Stops
      <3>2. Skip(m, l.node[d][link], link) = X(Skip(l, l.node[d][link], link))
        BY <1>4, <2>2
      <3>3. Skip(m, d, link) = Skip(m, l.node[d][link], link) /\ Skip(l, d, link) = Skip(l, l.node[d][link], link)
        BY <2>0, <3>1, SkipIs
      <3>4. QED
        BY <2>0, <3>2, <3>3
    <2>3. QED
      BY <1>3, <2>1, <2>2
  <1> HIDE DEF T
  <1>5. \A d \in Pointers : Skip(m, d, link) = X(Skip(l, d, link))
    <2>1. Pointers \subseteq T
      BY <1>2, <1>4, SkipInduction
    <2>2. QED
      BY <2>1 DEF T
  <1>6. CASE m.node[c][link] = l.node[c][link]
    <2>1. l.node[c][link] \in Pointers
      BY SkipIs
    <2>2. QED
      BY <1>5, <1>6, <2>1 DEF MovesTo
  <1>7. CASE l.node[c][link] = n /\ m.node[c][link] = t
    <2>1. Stops(l, n) /\ Stops(m, t) /\ t \in Pointers
      BY DEF Loses, Stops
    <2>2. Skip(l, n, link) = n /\ Skip(m, t, link) = t
      BY <1>0, <2>1, SkipIs
    <2>3. QED
      BY <1>7, <2>2 DEF MovesTo
  <1>8. CASE c = n
    BY <1>6, <1>8 DEF Loses
  <1>9. QED
    BY <1>6, <1>7, <1>8 DEF Loses

(* Nodes stay where they were, and lead where they did or to a node that    *)
(* was deleted; some elements may be marked as removed.                    *)
Thins(l, m, link, kept) ==
  /\ kept \in SUBSET Nodes
  /\ \A c \in kept : /\ m.node[c].valid => l.node[c].valid
                     /\ \/ m.node[c][link] = l.node[c][link] /\ l.node[c][link] \in kept \cup {Null, Dangling}
                        \/ m.node[c][link] = Dangling

LEMMA ThinsMoves ==
  ASSUME NEW l, Sound(l), NEW m, Sound(m), NEW link \in Links, NEW kept, Thins(l, m, link, kept), NEW c \in kept,
         MovesTo(m, c, link) # Dangling
  PROVE  /\ MovesTo(l, c, link) # Dangling
         /\ (\A d \in kept : m.node[d].valid = l.node[d].valid) => MovesTo(m, c, link) = MovesTo(l, c, link)
  <1> DEFINE A == \A d \in kept : m.node[d].valid = l.node[d].valid
             G(d) == Skip(m, d, link) # Dangling =>
                       Skip(l, d, link) # Dangling /\ (A => Skip(m, d, link) = Skip(l, d, link))
             T == {d \in Pointers : d \in kept \cup {Null, Dangling} => G(d)}
  <1> HIDE DEF A
  <1>1. \A d \in {Null, Dangling} : d \in Pointers /\ Stops(l, d) /\ Stops(m, d)
    BY NodesAssumption DEF Stops, Pointers
  <1>2. G(Null) /\ G(Dangling)
    BY <1>1, SkipIs
  <1>3. ASSUME NEW d \in Nodes, l.node[d].valid \/ l.node[d][link] \in T PROVE d \in T
    <2>0. d \in Pointers /\ d # Null /\ d # Dangling
      BY NodesAssumption DEF Pointers
    <2> SUFFICES ASSUME d \in kept PROVE G(d)
      BY <2>0
    <2>1. CASE m.node[d].valid
      <3>1. Stops(l, d) /\ Stops(m, d)
        BY <2>1 DEF Thins, Stops
      <3>2. Skip(m, d, link) = d /\ Skip(l, d, link) = d
        BY <2>0, <3>1, SkipIs
      <3>3. QED
        BY <2>0, <3>2
    <2>2. CASE ~m.node[d].valid
      <3>1. Skip(m, d, link) = Skip(m, m.node[d][link], link)
        BY <2>0, <2>2, SkipIs DEF Stops
      <3>2. CASE m.node[d][link] = Dangling
        BY <1>1, <3>1, <3>2, SkipIs
      <3>3. CASE m.node[d][link] = l.node[d][link] /\ l.node[d][link] \in kept \cup {Null, Dangling}
        <4>1. CASE l.node[d].valid
          <5>1. Skip(l, d, link) = d
            BY <2>0, <4>1, SkipIs DEF Stops
          <5>2. ~A
            <6>1. m.node[d].valid # l.node[d].valid
              BY <2>2, <4>1
            <6>2. QED
              BY <6>1 DEF A
          <5>3. QED
            BY <2>0, <5>1, <5>2
        <4>2. CASE ~l.node[d].valid
          <5>1. Skip(l, d, link) = Skip(l, l.node[d][link], link)
            BY <2>0, <4>2, SkipIs DEF Stops
          <5>2. G(l.node[d][link])
            BY <1>3, <3>3, <4>2
          <5>3. QED
            BY <3>1, <3>3, <5>1, <5>2
        <4>3. QED
          BY <4>1, <4>2
      <3>4. QED
        BY <3>2, <3>3 DEF Thins
    <2>3. QED
      BY <2>1, <2>2
  <1> HIDE DEF G
  <1>4. \A d \in kept \cup {Null, Dangling} : G(d)
    <2>1. Null \in T /\ Dangling \in T
      BY <1>1, <1>2
    <2> HIDE DEF T
    <2>2. Pointers \subseteq T
      BY <1>3, <2>1, SkipInduction
    <2>3. kept \cup {Null, Dangling} \subseteq Pointers
      BY DEF Thins, Pointers
    <2>4. QED
      BY <2>2, <2>3 DEF T
  <1>5. c \in Nodes
    BY DEF Thins
  <1>6. CASE m.node[c][link] = Dangling
    <2>1. Skip(m, Dangling, link) = Dangling
      BY <1>1, SkipIs
    <2>2. QED
      BY <1>6, <2>1 DEF MovesTo
  <1>7. CASE m.node[c][link] = l.node[c][link] /\ l.node[c][link] \in kept \cup {Null, Dangling}
    <2>1. G(l.node[c][link])
      BY <1>4, <1>7
    <2>2. QED
      BY <1>7, <2>1 DEF G, A, MovesTo
  <1>8. QED
    BY <1>6, <1>7 DEF Thins

(* The same of the ways.                                                   *)
LEMMA WayMeets ==
  ASSUME NEW l, Sound(l), NEW m, Sound(m), NEW link \in Links, NEW n \in Nodes, NEW u, Runs(l, link, u),
         Runs(m, link, Append(u, n)), Joins(l, m, link, n, At(u, Len(u))), NEW c \in Live(l), ~Strays(m, c, link)
  PROVE  /\ ~Strays(l, c, link)
         /\ \/ Way(m, c, link) = Append(Way(l, c, link), n) /\ (l.node[c].valid \/ Way(l, c, link) # <<>>)
            \/ ~l.node[c].valid /\ Way(m, c, link) = Way(l, c, link)
  <1>1. u \in Seq(Nodes) /\ Len(u) \in Nat /\ \A i \in 1..Len(u) : u[i] \in Nodes
    BY Numbers DEF Runs
  <1>2. PICK x : x = Append(u, n)
    OBVIOUS
  <1>3. /\ x \in Seq(Nodes) /\ Len(x) = Len(u) + 1 /\ x[Len(u) + 1] = n
        /\ \A i \in 1..Len(u) : x[i] = u[i]
    BY <1>1, <1>2
  <1>4. /\ \A i \in 1..Len(u) : At(x, i) = At(u, i)
        /\ At(x, Len(u) + 1) = n /\ At(x, Len(u) + 2) = Null /\ At(u, Len(u) + 1) = Null
    BY <1>1, <1>3 DEF At
  <1>5. c \in Nodes /\ Runs(m, link, x)
    BY <1>2 DEF Live
  <1>6. MovesTo(m, c, link) = IF c = At(u, Len(u)) THEN n ELSE MovesTo(l, c, link)
    BY JoinsMoves
  <1>7. ~Strays(l, c, link)
    <2>1. CASE c = At(u, Len(u))
      <3>1. l.node[c].valid
        BY <2>1 DEF Joins
      <3>2. QED
        BY <1>5, <3>1, WayTyped
    <2>2. CASE c # At(u, Len(u))
      BY <1>6, <2>2 DEF Strays
    <2>3. QED
      BY <2>1, <2>2
  <1>8. PICK k \in 1..(Len(u) + 1) : MovesTo(l, c, link) = At(u, k)
    BY <1>5, <1>7, MoveIs DEF Strays
  <1>9. Way(l, c, link) = From(u, k)
    BY <1>5, <1>8, WayIs
  <1>10. CASE c = At(u, Len(u))
    <2>1. Len(u) \in 1..Len(u) /\ c = u[Len(u)]
      BY <1>1, <1>5, <1>10, NodesAssumption DEF At
    <2>2. MovesTo(l, c, link) = Null
      BY <1>4, <1>5, <2>1, MoveIs
    <2>3. k = Len(u) + 1
      <3>1. CASE k \in 1..Len(u)
        <4>1. At(u, k) \in Nodes
          BY <1>1, <3>1 DEF At
        <4>2. QED
          BY <1>8, <2>2, <4>1, NodesAssumption
      <3>2. QED
        BY <1>1, <3>1
    <2>4. From(u, k) = <<>>
      BY <1>1, <2>3 DEF From
    <2>5. MovesTo(m, c, link) = At(x, Len(u) + 1) /\ Len(u) + 1 \in 1..(Len(x) + 1)
      BY <1>1, <1>3, <1>4, <1>6, <1>10
    <2>6. Way(m, c, link) = From(x, Len(u) + 1)
      BY <1>5, <2>5, WayIs
    <2>7. From(x, Len(u) + 1) = <<n>>
      <3>1. Len(x) + 1 - (Len(u) + 1) = 1 /\ \A i \in 1..1 : x[i + (Len(u) + 1) - 1] = n
        BY <1>1, <1>3
      <3>2. QED
        BY <3>1 DEF From
    <2>8. Append(<<>>, n) = <<n>>
      OBVIOUS
    <2>9. l.node[c].valid
      BY <1>10 DEF Joins
    <2>10. QED
      BY <1>7, <1>9, <2>4, <2>6, <2>7, <2>8, <2>9
  <1>11. CASE c # At(u, Len(u)) /\ k \in 1..Len(u)
    <2>1. MovesTo(m, c, link) = At(x, k) /\ k \in 1..(Len(x) + 1) /\ k \in 1..(Len(u) + 1)
      BY <1>1, <1>3, <1>4, <1>6, <1>8, <1>11
    <2>2. Way(m, c, link) = From(x, k)
      BY <1>5, <2>1, WayIs
    <2>3. PICK a : a = From(u, k)
      OBVIOUS
    <2>4. PICK b : b = From(x, k)
      OBVIOUS
    <2>5. a \in Seq(Nodes) /\ IsFrom(a, u, k) /\ b \in Seq(Nodes) /\ IsFrom(b, x, k)
      BY <1>1, <1>3, <2>1, <2>3, <2>4, FromIs
    <2>6. PICK e : e = Append(a, n)
      OBVIOUS
    <2>7. Len(a) \in Nat /\ e \in Seq(Nodes) /\ Len(e) = Len(a) + 1 /\ e[Len(a) + 1] = n /\ \A i \in 1..Len(a) : e[i] = a[i]
      BY <2>5, <2>6
    <2>8. Len(a) = Len(u) + 1 - k /\ Len(b) = Len(a) + 1
      BY <1>1, <1>3, <2>5 DEF IsFrom
    <2>9. ASSUME NEW i \in 1..Len(b) PROVE b[i] = e[i]
      <3>1. b[i] = x[i + k - 1]
        BY <2>5 DEF IsFrom
      <3>2. CASE i \in 1..Len(a)
        <4>1. i + k - 1 \in 1..Len(u) /\ a[i] = u[i + k - 1]
          BY <2>5, <3>2 DEF IsFrom
        <4>2. QED
          BY <1>3, <2>7, <3>1, <3>2, <4>1
      <3>3. CASE i = Len(a) + 1
        <4>1. i + k - 1 = Len(u) + 1
          BY <1>1, <2>8, <3>3
        <4>2. QED
          BY <1>3, <2>7, <3>1, <3>3, <4>1
      <3>4. QED
        BY <2>7, <2>8, <3>2, <3>3
    <2>10. b = e
      BY <2>5, <2>7, <2>8, <2>9, SameSeq
    <2>11. a # <<>>
      <3>1. Len(a) # 0
        BY <1>1, <1>11, <2>8
      <3>2. QED
        BY <3>1
    <2>12. QED
      BY <1>7, <1>9, <2>2, <2>3, <2>4, <2>6, <2>10, <2>11
  <1>12. CASE c # At(u, Len(u)) /\ k = Len(u) + 1
    <2>1. MovesTo(m, c, link) = At(x, Len(u) + 2) /\ Len(u) + 2 \in 1..(Len(x) + 1)
      BY <1>1, <1>3, <1>4, <1>6, <1>8, <1>12
    <2>2. Way(m, c, link) = From(x, Len(u) + 2)
      BY <1>5, <2>1, WayIs
    <2>3. From(x, Len(u) + 2) = <<>> /\ From(u, k) = <<>>
      BY <1>1, <1>3, <1>12 DEF From
    <2>4. ~l.node[c].valid
      <3> SUFFICES ASSUME l.node[c].valid PROVE FALSE
        OBVIOUS
      <3>1. PICK i \in 1..Len(u) : c = u[i]
        BY <1>5 DEF Runs
      <3>2. At(u, i + 1) = Null
        <4>1. MovesTo(l, c, link) = At(u, i + 1)
          BY <1>5, <3>1, MoveIs
        <4>2. QED
          BY <1>4, <1>8, <1>12, <4>1
      <3>3. i = Len(u)
        <4>1. CASE i + 1 \in 1..Len(u)
          <5>1. At(u, i + 1) \in Nodes
            BY <1>1, <4>1 DEF At
          <5>2. QED
            BY <3>2, <5>1, NodesAssumption
        <4>2. QED
          BY <1>1, <4>1
      <3>4. QED
        BY <1>12, <3>1, <3>3 DEF At
    <2>5. QED
      BY <1>7, <1>9, <2>2, <2>3, <2>4
  <1>13. QED
    BY <1>1, <1>10, <1>11, <1>12

LEMMA WayLeavesBehind ==
  ASSUME NEW l, Sound(l), NEW m, Sound(m), NEW link \in Links, NEW n \in Nodes, NEW u, Runs(l, link, u),
         NEW x, Runs(m, link, x), Len(x) = Len(u) + 1, \A i \in 1..Len(u) : x[i + 1] = u[i],
         Joins(l, m, link, n, Null), NEW c \in Live(l), ~Strays(m, c, link)
  PROVE  ~Strays(l, c, link) /\ Way(m, c, link) = Way(l, c, link)
  <1>1. u \in Seq(Nodes) /\ Len(u) \in Nat /\ \A i \in 1..Len(u) : u[i] \in Nodes
    BY Numbers DEF Runs
  <1>2. x \in Seq(Nodes)
    BY DEF Runs
  <1>3. c \in Nodes /\ c # Null
    BY NodesAssumption DEF Live
  <1>4. MovesTo(m, c, link) = MovesTo(l, c, link)
    BY <1>3, JoinsMoves
  <1>5. PICK k \in 1..(Len(u) + 1) : MovesTo(l, c, link) = At(u, k)
    BY <1>3, <1>4, MoveIs DEF Strays
  <1>6. MovesTo(m, c, link) = At(x, k + 1) /\ k + 1 \in 1..(Len(x) + 1)
    <2>1. At(x, k + 1) = At(u, k)
      BY <1>1, <1>2 DEF At
    <2>2. QED
      BY <1>1, <1>2, <1>4, <1>5, <2>1
  <1>7. Way(l, c, link) = From(u, k) /\ ~Strays(l, c, link)
    BY <1>3, <1>5, WayIs
  <1>8. Way(m, c, link) = From(x, k + 1)
    BY <1>3, <1>6, WayIs
  <1>9. From(x, k + 1) = From(u, k)
    <2>1. Len(x) + 1 - (k + 1) = Len(u) + 1 - k
      BY <1>1, <1>2
    <2>2. ASSUME NEW i \in 1..(Len(u) + 1 - k) PROVE x[i + (k + 1) - 1] = u[i + k - 1]
      <3>1. PICK j \in 1..Len(u) : j = i + k - 1
        BY <1>1
      <3>2. i + (k + 1) - 1 = j + 1
        BY <1>1, <3>1
      <3>3. QED
        BY <1>2, <3>1, <3>2
    <2>3. QED
      BY <2>1, <2>2 DEF From
  <1>10. QED
    BY <1>7, <1>8, <1>9

LacksOne(x, u, n) ==
  \E j \in 1..Len(u) :
     n = u[j] /\ Len(x) = Len(u) - 1 /\ \A i \in 1..Len(x) : x[i] = IF i < j THEN u[i] ELSE u[i + 1]

LEMMA WayMisses ==
  ASSUME NEW l, Sound(l), NEW m, Sound(m), NEW link \in Links, NEW u, Runs(l, link, u), NEW x, Runs(m, link, x),
         NEW n, LacksOne(x, u, n), NEW t, Loses(l, m, link, n, t), NEW c \in Nodes, ~Strays(m, c, link)
  PROVE  ~Strays(l, c, link) /\ Way(m, c, link) = RemoveFirst(Way(l, c, link), n)
  <1>1. u \in Seq(Nodes) /\ Len(u) \in Nat /\ \A i \in 1..Len(u) : u[i] \in Nodes
    BY Numbers DEF Runs
  <1>2. x \in Seq(Nodes) /\ Len(x) \in Nat
    BY Numbers DEF Runs
  <1>15. PICK j \in 1..Len(u) :
           n = u[j] /\ Len(x) = Len(u) - 1 /\ \A i \in 1..Len(x) : x[i] = IF i < j THEN u[i] ELSE u[i + 1]
    BY DEF LacksOne
  <1> USE <1>15
  <1>3. n \in Nodes /\ n # Dangling
    BY <1>1, NodesAssumption
  <1>4. MovesTo(m, c, link) = IF MovesTo(l, c, link) = n THEN t ELSE MovesTo(l, c, link)
    BY <1>3, LosesMoves
  <1>5. t = At(u, j + 1)
    BY DEF Loses, Runs
  <1>6. PICK k \in 1..(Len(u) + 1) : MovesTo(l, c, link) = At(u, k)
    BY <1>3, <1>4, MoveIs DEF Strays
  <1>7. Way(l, c, link) = From(u, k) /\ ~Strays(l, c, link)
    BY <1>6, WayIs
  <1>8. PICK a : a = From(u, k)
    OBVIOUS
  <1>9. a \in Seq(Nodes) /\ IsFrom(a, u, k)
    BY <1>1, <1>8, FromIs
  <1>10. /\ Len(a) \in Nat /\ Len(a) = Len(u) + 1 - k
         /\ \A i \in 1..Len(a) : i + k - 1 \in 1..Len(u) /\ a[i] = u[i + k - 1]
    BY <1>1, <1>9 DEF IsFrom
  <1>14. k \in Nat /\ (k \in 1..Len(u) \/ k = Len(u) + 1)
    <2>1. PICK d \in Nat : d = Len(u)
      BY <1>1
    <2>2. k \in 1..(d + 1)
      BY <2>1
    <2>3. k \in Nat /\ (k \in 1..d \/ k = d + 1)
      BY <2>2
    <2>4. QED
      BY <2>1, <2>3
  <1>11. CASE k <= j
    <2>1. At(x, k) = (IF k = j THEN t ELSE At(u, k)) /\ k \in 1..(Len(x) + 1)
      <3>1. k \in 1..(Len(x) + 1)
        BY <1>1, <1>11
      <3>2. CASE k = j /\ j = Len(u)
        BY <1>1, <1>5, <3>1, <3>2 DEF At
      <3>3. CASE k = j /\ j # Len(u)
        <4>1. k \in 1..Len(x) /\ ~(k < j) /\ j + 1 \in 1..Len(u)
          BY <1>1, <3>3
        <4>2. x[k] = u[j + 1]
          BY <3>3, <4>1
        <4>3. QED
          BY <1>5, <3>1, <3>3, <4>1, <4>2 DEF At
      <3>4. CASE k < j
        <4>1. k \in 1..Len(x) /\ k \in 1..Len(u) /\ k # j
          BY <1>1, <3>4
        <4>2. QED
          BY <3>1, <3>4, <4>1 DEF At
      <3>5. QED
        BY <1>1, <1>11, <3>2, <3>3, <3>4
    <2>2. At(u, k) = n <=> k = j
      <3>1. k \in 1..Len(u) /\ At(u, k) = u[k]
        BY <1>1, <1>11 DEF At
      <3>2. QED
        BY <3>1 DEF Runs
    <2>3. MovesTo(m, c, link) = At(x, k)
      <3>1. CASE k = j
        BY <1>4, <1>6, <2>1, <2>2, <3>1
      <3>2. CASE k # j
        BY <1>4, <1>6, <2>1, <2>2, <3>2
      <3>3. QED
        BY <3>1, <3>2
    <2>4. Way(m, c, link) = From(x, k)
      BY <2>1, <2>3, WayIs
    <2>5. PICK p \in Nat : p = j + 1 - k
      <3>1. j + 1 - k \in Nat
        BY <1>1, <1>11
      <3>2. QED
        BY <3>1
    <2>6. p \in 1..Len(a) /\ a[p] = n /\ \A i \in 1..(p - 1) : a[i] # n
      <3>1. p \in 1..Len(a) /\ p + k - 1 = j
        BY <1>1, <1>10, <1>11, <2>5
      <3>2. ASSUME NEW i \in 1..(p - 1), a[i] = n PROVE FALSE
        <4>1. i \in 1..Len(a)
          BY <1>10, <2>5, <3>1
        <4>2. PICK h \in 1..Len(u) : h = i + k - 1 /\ a[i] = u[h]
          BY <1>10, <4>1
        <4>3. h = j
          BY <3>2, <4>2 DEF Runs
        <4>4. QED
          BY <1>1, <2>5, <4>2, <4>3
      <3>3. QED
        BY <1>10, <3>1, <3>2
    <2>7. RemoveFirst(a, n) = [i \in 1..(Len(a) - 1) |-> IF i < p THEN a[i] ELSE a[i + 1]]
      BY <1>9, <2>6, RemoveFirstAt
    <2>8. Len(x) + 1 - k = Len(a) - 1
      BY <1>1, <1>10
    <2>9. ASSUME NEW i \in 1..(Len(a) - 1) PROVE x[i + k - 1] = IF i < p THEN a[i] ELSE a[i + 1]
      <3>1. PICK h \in 1..Len(x) : h = i + k - 1
        <4>1. i + k - 1 \in 1..Len(x)
          BY <1>1, <1>10
        <4>2. QED
          BY <4>1
      <3>2. x[h] = IF h < j THEN u[h] ELSE u[h + 1]
        OBVIOUS
      <3>3. i \in 1..Len(a) /\ i + 1 \in 1..Len(a) /\ (i + 1) + k - 1 = h + 1 /\ (i < p <=> h < j)
        BY <1>1, <1>10, <2>5, <3>1
      <3>4. a[i] = u[h] /\ a[i + 1] = u[h + 1]
        <4>1. a[i] = u[i + k - 1]
          BY <1>10, <3>3
        <4>2. a[i + 1] = u[(i + 1) + k - 1]
          BY <1>10, <3>3
        <4>3. QED
          BY <3>1, <3>3, <4>1, <4>2
      <3>5. QED
        BY <3>1, <3>2, <3>3, <3>4
    <2>10. From(x, k) = RemoveFirst(a, n)
      BY <2>7, <2>8, <2>9 DEF From
    <2>11. QED
      BY <1>7, <1>8, <2>4, <2>10
  <1>12. CASE k > j
    <2>1. PICK q \in 1..(Len(x) + 1) : q = k - 1
      <3>1. k - 1 \in 1..(Len(x) + 1)
        BY <1>1, <1>12
      <3>2. QED
        BY <3>1
    <2>2. At(x, q) = At(u, k)
      <3>1. CASE k \in 1..Len(u)
        <4>1. q \in 1..Len(x) /\ ~(q < j) /\ q + 1 = k
          BY <1>1, <1>12, <2>1, <3>1
        <4>2. x[q] = u[k]
          BY <4>1
        <4>3. QED
          BY <3>1, <4>1, <4>2 DEF At
      <3>2. CASE k = Len(u) + 1
        <4>1. q \notin 1..Len(x) /\ k \notin 1..Len(u)
          BY <1>1, <2>1, <3>2
        <4>2. QED
          BY <4>1 DEF At
      <3>3. QED
        BY <1>14, <3>1, <3>2
    <2>3. At(u, k) # n
      <3>1. CASE k \in 1..Len(u)
        BY <1>1, <1>12, <3>1 DEF At, Runs
      <3>2. CASE k \notin 1..Len(u)
        BY <1>3, <3>2, NodesAssumption DEF At
      <3>3. QED
        BY <3>1, <3>2
    <2>4. Way(m, c, link) = From(x, q)
      <3>1. MovesTo(m, c, link) = At(x, q)
        BY <1>4, <1>6, <2>2, <2>3
      <3>2. QED
        BY <3>1, WayIs
    <2>5. \A i \in 1..Len(a) : a[i] # n
      <3> SUFFICES ASSUME NEW i \in 1..Len(a), a[i] = n PROVE FALSE
        OBVIOUS
      <3>1. PICK h \in 1..Len(u) : h = i + k - 1 /\ a[i] = u[h]
        BY <1>10
      <3>2. h = j
        BY <3>1 DEF Runs
      <3>3. QED
        BY <1>1, <1>12, <3>1, <3>2
    <2>6. RemoveFirst(a, n) = a
      BY <1>9, <2>5, RemoveFirstIs
    <2>7. Len(x) + 1 - q = Len(u) + 1 - k
      BY <1>1, <2>1
    <2>8. ASSUME NEW i \in 1..(Len(u) + 1 - k) PROVE x[i + q - 1] = u[i + k - 1]
      <3>1. PICK h \in 1..Len(x) : h = i + q - 1
        <4>1. i + q - 1 \in 1..Len(x)
          BY <1>1, <2>1
        <4>2. QED
          BY <4>1
      <3>2. ~(h < j) /\ h + 1 = i + k - 1
        BY <1>1, <1>12, <2>1, <3>1
      <3>3. x[h] = u[h + 1]
        BY <3>2
      <3>4. QED
        BY <3>1, <3>2, <3>3
    <2>9. From(x, q) = From(u, k)
      BY <2>7, <2>8 DEF From
    <2>10. QED
      BY <1>7, <1>8, <2>4, <2>6, <2>9
  <1>13. QED
    BY <1>1, <1>11, <1>12

LEMMA WayStays ==
  ASSUME NEW l, Sound(l), NEW m, Sound(m), NEW link \in Links, NEW u, Runs(l, link, u), NEW x, Runs(m, link, x),
         NEW kept, Thins(l, m, link, kept), NEW c \in kept, ~Strays(m, c, link)
  PROVE  /\ ~Strays(l, c, link)
         /\ x = u /\ (\A d \in kept : m.node[d].valid = l.node[d].valid) => Way(m, c, link) = Way(l, c, link)
         /\ x = <<>> => Way(m, c, link) = <<>>
  <1>1. c \in Nodes /\ MovesTo(m, c, link) # Dangling
    BY DEF Thins, Strays
  <1>2. MovesTo(l, c, link) # Dangling
    BY <1>1, ThinsMoves
  <1>3. ASSUME x = u, \A d \in kept : m.node[d].valid = l.node[d].valid PROVE Way(m, c, link) = Way(l, c, link)
    <2>1. MovesTo(m, c, link) = MovesTo(l, c, link)
      BY <1>1, <1>3, ThinsMoves
    <2>2. PICK k \in 1..(Len(u) + 1) : MovesTo(l, c, link) = At(u, k)
      BY <1>1, <1>2, MoveIs
    <2>3. Way(l, c, link) = From(u, k)
      BY <1>1, <2>2, WayIs
    <2>4. Runs(m, link, u)
      BY <1>3
    <2>5. Way(m, c, link) = From(u, k)
      BY <1>1, <2>1, <2>2, <2>4, WayIs
    <2>6. QED
      BY <2>3, <2>5
  <1>4. ASSUME x = <<>> PROVE Way(m, c, link) = <<>>
    <2>1. Len(x) = 0
      BY <1>4
    <2>2. PICK k \in 1..(Len(x) + 1) : MovesTo(m, c, link) = At(x, k)
      BY <1>1, MoveIs
    <2>3. Way(m, c, link) = From(x, k)
      BY <1>1, <2>2, WayIs
    <2>4. From(x, k) = <<>>
      BY <2>1 DEF From
    <2>5. QED
      BY <2>3, <2>4
  <1>5. QED
    BY <1>2, <1>3, <1>4 DEF Strays

(***************************************************************************)
(* The elements and the ways after each operation.                         *)
(***************************************************************************)
(* Unless an iterator on c is lost in m, it was not in l, and has w ahead.  *)
HasAhead(l, m, c, link, w) == ~Strays(m, c, link) => ~Strays(l, c, link) /\ Way(m, c, link) = w
(* It meets the element n at the end of its way, unless c was removed.     *)
MayMeet(l, m, c, link, n) ==
  ~Strays(m, c, link) => /\ ~Strays(l, c, link)
                         /\ \/ /\ Way(m, c, link) = Append(Way(l, c, link), n)
                               /\ l.node[c].valid \/ Way(l, c, link) # <<>>
                            \/ ~l.node[c].valid /\ Way(m, c, link) = Way(l, c, link)

LEMMA ListedElements ==
  ASSUME NEW l, Sound(l)
  PROVE  /\ Chain(l, Listed(l)) /\ Listed(l) \in Seq(Nodes) /\ IsInjective(Listed(l))
         /\ \A n : n \in ToSet(Listed(l)) <=> n \in Nodes /\ l.node[n].valid
  <1>1. PICK s : Chain(l, s)
    BY DEF Sound
  <1>2. Listed(l) = s
    BY <1>1, ListedIs DEF Sound
  <1>3. s \in Seq(Nodes) /\ Len(s) \in Nat /\ DOMAIN s = 1..Len(s) /\ \A i \in 1..Len(s) : s[i] \in Nodes
    BY <1>1, ChainMembers DEF Chain
  <1>4. IsInjective(s)
    BY <1>1, <1>3 DEF Chain, IsInjective
  <1>5. \A n : n \in ToSet(s) <=> \E i \in 1..Len(s) : s[i] = n
    BY <1>3 DEF ToSet
  <1>6. \A n : n \in ToSet(s) <=> n \in Nodes /\ l.node[n].valid
    BY <1>1, <1>3, <1>5 DEF Chain
  <1>7. QED
    BY <1>1, <1>2, <1>3, <1>4, <1>6

LEMMA LineIs == ASSUME NEW s PROVE Line(s, "next") = s /\ Line(s, "prev") = Reverse(s)
  BY DEF Line

LEMMA AddsLastWays ==
  ASSUME NEW l, Sound(l), NEW n \in Nodes \ Live(l), NEW v \in Values, NEW m, AddsLast(l, m, n, v)
  PROVE  /\ Listed(m) = Append(Listed(l), n)
         /\ \A c \in Live(l) : MayMeet(l, m, c, "next", n) /\ HasAhead(l, m, c, "prev", Way(l, c, "prev"))
  <1>1. PICK s : s = Listed(l)
    OBVIOUS
  <1>2. Chain(l, s) /\ s \in Seq(Nodes) /\ Len(s) \in Nat /\ \A i \in 1..Len(s) : s[i] \in Nodes
    BY <1>1, ListedElements, ChainMembers
  <1>3. PICK w : w = Append(s, n)
    OBVIOUS
  <1>4. Sound(m) /\ Chain(m, w)
    BY <1>2, <1>3, AddsLastChain
  <1>5. Listed(m) = w
    BY <1>4, ListedIs DEF Sound
  <1>6. "next" \in Links /\ "prev" \in Links
    BY DEF Links
  <1>7. l.last = At(s, Len(s)) /\ (l.last # Null => l.node[l.last].valid)
    BY <1>2, Ends DEF Chain
  <1>8. \A c \in Live(l) : c \in Nodes \ {n} /\ c # Null
    BY NodesAssumption DEF Live
  <1>9. ASSUME NEW c \in Live(l) PROVE MayMeet(l, m, c, "next", n)
    <2>1. Joins(l, m, "next", n, At(s, Len(s)))
      BY <1>7, <1>8 DEF AddsLast, Joins
    <2>2. Runs(l, "next", s) /\ Runs(m, "next", Append(s, n))
      BY <1>2, <1>3, <1>4, <1>6, ChainRuns, LineIs
    <2>3. QED
      BY <1>4, <1>6, <2>1, <2>2, WayMeets DEF MayMeet
  <1>10. ASSUME NEW c \in Live(l) PROVE HasAhead(l, m, c, "prev", Way(l, c, "prev"))
    <2>1. Joins(l, m, "prev", n, Null)
      BY <1>8 DEF AddsLast, Joins
    <2>2. PICK u, x : u = Reverse(s) /\ x = Reverse(w)
      OBVIOUS
    <2>3. Runs(l, "prev", u) /\ Runs(m, "prev", x)
      BY <1>2, <1>4, <1>6, <2>2, ChainRuns, LineIs
    <2>4. w \in Seq(Nodes) /\ Len(w) = Len(s) + 1 /\ \A i \in 1..Len(s) : w[i] = s[i]
      BY <1>2, <1>3
    <2>5. Len(u) = Len(s) /\ \A i \in 1..Len(s) : u[i] = s[Len(s) + 1 - i]
      BY <1>2, <2>2, ReverseIs
    <2>6. Len(x) = Len(w) /\ \A i \in 1..Len(w) : x[i] = w[Len(w) + 1 - i]
      BY <2>2, <2>4, ReverseIs
    <2>7. ASSUME NEW i \in 1..Len(u) PROVE x[i + 1] = u[i]
      <3>1. PICK j \in 1..Len(s) : j = Len(s) + 1 - i
        BY <1>2, <2>5
      <3>2. i + 1 \in 1..Len(w) /\ Len(w) + 1 - (i + 1) = j
        BY <1>2, <2>4, <2>5, <3>1
      <3>3. x[i + 1] = w[j]
        BY <2>6, <3>2
      <3>4. QED
        BY <2>4, <2>5, <3>1, <3>3
    <2>8. Len(x) = Len(u) + 1
      BY <2>4, <2>5, <2>6
    <2>9. QED
      BY <1>4, <1>6, <2>1, <2>3, <2>7, <2>8, WayLeavesBehind DEF HasAhead
  <1>11. QED
    BY <1>1, <1>3, <1>5, <1>9, <1>10

LEMMA AddsFirstWays ==
  ASSUME NEW l, Sound(l), NEW n \in Nodes \ Live(l), NEW v \in Values, NEW m, AddsFirst(l, m, n, v)
  PROVE  /\ Listed(m) = <<n>> \o Listed(l)
         /\ \A c \in Live(l) : HasAhead(l, m, c, "next", Way(l, c, "next")) /\ MayMeet(l, m, c, "prev", n)
  <1>1. PICK s : s = Listed(l)
    OBVIOUS
  <1>2. Chain(l, s) /\ s \in Seq(Nodes) /\ Len(s) \in Nat /\ \A i \in 1..Len(s) : s[i] \in Nodes
    BY <1>1, ListedElements, ChainMembers
  <1>3. PICK w : w = <<n>> \o s
    OBVIOUS
  <1>4. Sound(m) /\ Chain(m, w)
    BY <1>2, <1>3, AddsFirstChain
  <1>5. Listed(m) = w
    BY <1>4, ListedIs DEF Sound
  <1>6. "next" \in Links /\ "prev" \in Links
    BY DEF Links
  <1>7. l.first = At(s, 1) /\ (l.first # Null => l.node[l.first].valid)
    BY <1>2, Ends DEF Chain
  <1>8. \A c \in Live(l) : c \in Nodes \ {n} /\ c # Null
    BY NodesAssumption DEF Live
  <1>9. w \in Seq(Nodes) /\ Len(w) = Len(s) + 1 /\ w[1] = n /\ \A i \in 1..Len(s) : w[i + 1] = s[i]
    BY <1>2, <1>3, SeqCons
  <1>10. ASSUME NEW c \in Live(l) PROVE HasAhead(l, m, c, "next", Way(l, c, "next"))
    <2>1. Joins(l, m, "next", n, Null)
      BY <1>8 DEF AddsFirst, Joins
    <2>2. Runs(l, "next", s) /\ Runs(m, "next", w)
      BY <1>2, <1>4, <1>6, ChainRuns, LineIs
    <2>3. QED
      BY <1>4, <1>6, <1>9, <2>1, <2>2, WayLeavesBehind DEF HasAhead
  <1>11. ASSUME NEW c \in Live(l) PROVE MayMeet(l, m, c, "prev", n)
    <2>1. PICK u, x : u = Reverse(s) /\ x = Reverse(w)
      OBVIOUS
    <2>2. Runs(l, "prev", u) /\ Runs(m, "prev", x)
      BY <1>2, <1>4, <1>6, <2>1, ChainRuns, LineIs
    <2>3. u \in Seq(Nodes) /\ Len(u) = Len(s) /\ \A i \in 1..Len(s) : u[i] = s[Len(s) + 1 - i]
      BY <1>2, <2>1, ReverseIs
    <2>4. x \in Seq(Nodes) /\ Len(x) = Len(w) /\ \A i \in 1..Len(w) : x[i] = w[Len(w) + 1 - i]
      BY <1>9, <2>1, ReverseIs
    <2>5. PICK y : y = Append(u, n)
      OBVIOUS
    <2>6. /\ y \in Seq(Nodes) /\ Len(y) = Len(s) + 1 /\ y[Len(s) + 1] = n
          /\ \A i \in 1..Len(s) : y[i] = u[i]
      BY <1>2, <2>3, <2>5
    <2>7. ASSUME NEW i \in 1..Len(x) PROVE x[i] = y[i]
      <3>1. CASE i \in 1..Len(s)
        <4>0. Len(s) + 1 - i \in 1..Len(s)
          BY <1>2, <3>1
        <4>1. PICK j \in 1..Len(s) : j = Len(s) + 1 - i
          BY <4>0
        <4>2. Len(w) + 1 - i = j + 1
          BY <1>2, <1>9, <3>1, <4>1
        <4>3. x[i] = s[j]
          BY <1>9, <2>4, <4>2
        <4>4. QED
          BY <2>3, <2>6, <3>1, <4>1, <4>3
      <3>2. CASE i = Len(s) + 1
        <4>1. Len(w) + 1 - i = 1
          BY <1>2, <1>9, <3>2
        <4>2. QED
          BY <1>9, <2>4, <2>6, <3>2, <4>1
      <3>3. QED
        BY <1>2, <1>9, <2>4, <3>1, <3>2
    <2>8. Len(x) = Len(y)
      BY <1>9, <2>4, <2>6
    <2>9. x = Append(u, n)
      BY <2>4, <2>5, <2>6, <2>7, <2>8, SameSeq
    <2>10. At(u, Len(u)) = At(s, 1)
      <3>1. CASE Len(s) = 0
        <4>1. Len(u) \notin 1..Len(u) /\ 1 \notin 1..Len(s)
          BY <2>3, <3>1
        <4>2. QED
          BY <4>1 DEF At
      <3>2. CASE Len(s) # 0
        <4>1. Len(s) \in 1..Len(s) /\ 1 \in 1..Len(s) /\ Len(s) + 1 - Len(s) = 1
          BY <1>2, <3>2
        <4>2. u[Len(s)] = s[1]
          BY <2>3, <4>1
        <4>3. QED
          BY <2>3, <4>1, <4>2 DEF At
      <3>3. QED
        BY <3>1, <3>2
    <2>11. Joins(l, m, "prev", n, At(u, Len(u)))
      BY <1>7, <1>8, <2>10 DEF AddsFirst, Joins
    <2>12. Runs(m, "prev", Append(u, n))
      BY <2>2, <2>9
    <2>13. QED
      BY <1>4, <1>6, <2>2, <2>11, <2>12, WayMeets DEF MayMeet
  <1>12. QED
    BY <1>1, <1>3, <1>5, <1>10, <1>11

LEMMA TakesOutWays ==
  ASSUME NEW l, Sound(l), NEW n \in Nodes, l.node[n].valid, NEW m, TakesOut(l, m, n)
  PROVE  /\ Listed(m) = RemoveFirst(Listed(l), n)
         /\ \A c \in Live(l), link \in Links : HasAhead(l, m, c, link, RemoveFirst(Way(l, c, link), n))
  <1>1. PICK s : s = Listed(l)
    OBVIOUS
  <1>2. Chain(l, s) /\ s \in Seq(Nodes) /\ Len(s) \in Nat /\ \A i \in 1..Len(s) : s[i] \in Nodes
    BY <1>1, ListedElements, ChainMembers
  <1>3. PICK w : w = RemoveFirst(s, n)
    OBVIOUS
  <1>4. Sound(m) /\ Chain(m, w)
    BY <1>2, <1>3, TakesOutChain
  <1>5. Listed(m) = w
    BY <1>4, ListedIs DEF Sound
  <1>6. "next" \in Links /\ "prev" \in Links
    BY DEF Links
  <1>7. PICK j \in 1..Len(s) : s[j] = n
    BY <1>2 DEF Chain
  <1>8. \A i \in 1..(j - 1) : s[i] # n
    <2>1. \A i \in 1..(j - 1) : i \in 1..Len(s) /\ i # j
      BY <1>2
    <2>2. QED
      BY <1>2, <1>7, <2>1 DEF Chain
  <1>9. w = [i \in 1..(Len(s) - 1) |-> IF i < j THEN s[i] ELSE s[i + 1]]
    <2>1. RemoveFirst(s, n) = [i \in 1..(Len(s) - 1) |-> IF i < j THEN s[i] ELSE s[i + 1]]
      BY <1>2, <1>7, <1>8, RemoveFirstAt
    <2>2. QED
      BY <1>3, <2>1
  <1>10. /\ w \in Seq(Nodes) /\ Len(w) \in Nat /\ Len(w) = Len(s) - 1
         /\ \A i \in 1..Len(w) : w[i] = IF i < j THEN s[i] ELSE s[i + 1]
    <2>1. w \in Seq(Nodes)
      BY <1>4 DEF Chain
    <2>2. Len(s) - 1 \in Nat
      BY <1>2
    <2>3. PICK d \in Nat : d = Len(s) - 1
      BY <2>2
    <2>4. w = [i \in 1..d |-> IF i < j THEN s[i] ELSE s[i + 1]]
      BY <1>9, <2>3
    <2>5. Len(w) = d
      BY <2>1, <2>4
    <2>6. \A i \in 1..d : w[i] = IF i < j THEN s[i] ELSE s[i + 1]
      BY <2>4
    <2>7. QED
      BY <2>1, <2>3, <2>5, <2>6
  <1>11. PICK p, q : p = l.node[n].prev /\ q = l.node[n].next
    OBVIOUS
  <1>12. p = At(s, j - 1) /\ q = At(s, j + 1)
    BY <1>2, <1>7, <1>11 DEF Chain
  <1>13. p \in (Nodes \ {n}) \cup {Null} /\ q \in (Nodes \ {n}) \cup {Null} /\ (p # Null => p # q)
    BY <1>11, Neighbours
  <1>14. /\ p \in Nodes => l.node[p].valid /\ l.node[p].next = n
         /\ q \in Nodes => l.node[q].valid /\ l.node[q].prev = n
    <2>1. ASSUME p \in Nodes PROVE l.node[p].valid /\ l.node[p].next = n
      <3>1. j - 1 \in 1..Len(s) /\ p = s[j - 1]
        BY <1>2, <1>12, <2>1, NodesAssumption DEF At
      <3>2. l.node[p].next = At(s, (j - 1) + 1) /\ l.node[p].valid
        BY <1>2, <3>1, ChainMembers DEF Chain
      <3>3. At(s, (j - 1) + 1) = n
        BY <1>2, <1>7 DEF At
      <3>4. QED
        BY <3>2, <3>3
    <2>2. ASSUME q \in Nodes PROVE l.node[q].valid /\ l.node[q].prev = n
      <3>1. j + 1 \in 1..Len(s) /\ q = s[j + 1]
        BY <1>2, <1>12, <2>2, NodesAssumption DEF At
      <3>2. l.node[q].prev = At(s, (j + 1) - 1) /\ l.node[q].valid
        BY <1>2, <3>1, ChainMembers DEF Chain
      <3>3. At(s, (j + 1) - 1) = n
        BY <1>2, <1>7 DEF At
      <3>4. QED
        BY <3>2, <3>3
    <2>3. QED
      BY <2>1, <2>2
  <1>15. /\ \A x \in Nodes : /\ m.node[x].valid <=> l.node[x].valid /\ x # n
                             /\ m.node[x].next = IF x = p THEN q ELSE l.node[x].next
                             /\ m.node[x].prev = IF x = q THEN p ELSE l.node[x].prev
    BY <1>11 DEF TakesOut
  <1>16. /\ \A x \in Nodes : l.node[x].valid \in BOOLEAN /\ m.node[x].valid \in BOOLEAN
    BY <1>4, <1>6, LiveLinks
  <1>17. /\ \A x \in Nodes \ {n} : m.node[x].valid = l.node[x].valid
         /\ ~m.node[n].valid
         /\ Stops(m, p) /\ Stops(m, q) /\ p \in Pointers /\ q \in Pointers
    BY <1>13, <1>14, <1>15, <1>16, NodesAssumption DEF Stops, Pointers
  <1>18. ASSUME NEW c \in Nodes PROVE HasAhead(l, m, c, "next", RemoveFirst(Way(l, c, "next"), n))
    <2>1. Loses(l, m, "next", n, q)
      BY <1>11, <1>13, <1>14, <1>15, <1>17 DEF Loses
    <2>2. Runs(l, "next", s) /\ Runs(m, "next", w)
      BY <1>2, <1>4, <1>6, ChainRuns, LineIs
    <2>3. LacksOne(w, s, n)
      BY <1>7, <1>10 DEF LacksOne
    <2>4. QED
      <3>1. ASSUME ~Strays(m, c, "next")
            PROVE  ~Strays(l, c, "next") /\ Way(m, c, "next") = RemoveFirst(Way(l, c, "next"), n)
        <4>1. Sound(m) /\ "next" \in Links
          BY <1>4, <1>6
        <4>2. QED
          BY <2>1, <2>2, <2>3, <3>1, <4>1, WayMisses
      <3>2. QED
        BY <3>1 DEF HasAhead
  <1>19. ASSUME NEW c \in Nodes PROVE HasAhead(l, m, c, "prev", RemoveFirst(Way(l, c, "prev"), n))
    <2>1. Loses(l, m, "prev", n, p)
      BY <1>11, <1>13, <1>14, <1>15, <1>17 DEF Loses
    <2>2. PICK u, x : u = Reverse(s) /\ x = Reverse(w)
      OBVIOUS
    <2>3. Runs(l, "prev", u) /\ Runs(m, "prev", x)
      BY <1>2, <1>4, <1>6, <2>2, ChainRuns, LineIs
    <2>4. Len(u) = Len(s) /\ \A i \in 1..Len(s) : u[i] = s[Len(s) + 1 - i]
      BY <1>2, <2>2, ReverseIs
    <2>5. Len(x) = Len(w) /\ \A i \in 1..Len(w) : x[i] = w[Len(w) + 1 - i]
      <3>1. w \in Seq(Nodes)
        BY <1>10
      <3>2. QED
        BY <2>2, <3>1, ReverseIs
    <2>6. PICK k \in 1..Len(u) : k = Len(s) + 1 - j
      <3>1. Len(s) + 1 - j \in 1..Len(s)
        BY <1>2
      <3>2. QED
        BY <2>4, <3>1
    <2>7. n = u[k]
      <3>1. Len(s) + 1 - k = j /\ k \in 1..Len(s)
        BY <1>2, <2>4, <2>6
      <3>2. QED
        BY <1>7, <2>4, <3>1
    <2>8. ASSUME NEW i \in 1..Len(x) PROVE x[i] = IF i < k THEN u[i] ELSE u[i + 1]
      <3>1. PICK h \in 1..Len(w) : h = Len(w) + 1 - i
        <4>1. Len(w) + 1 - i \in 1..Len(w)
          BY <1>10, <2>5
        <4>2. QED
          BY <4>1
      <3>2. x[i] = IF h < j THEN s[h] ELSE s[h + 1]
        BY <1>10, <2>5, <3>1
      <3>3. i \in 1..Len(s) /\ i + 1 \in 1..Len(s) /\ Len(s) + 1 - i = h + 1 /\ Len(s) + 1 - (i + 1) = h /\ (h < j <=> ~(i < k))
        BY <1>2, <1>10, <2>5, <2>6, <3>1
      <3>4. u[i] = s[h + 1] /\ u[i + 1] = s[h]
        BY <2>4, <3>3
      <3>5. QED
        BY <3>2, <3>3, <3>4
    <2>9. Len(x) = Len(u) - 1
      BY <1>10, <2>4, <2>5
    <2>10. LacksOne(x, u, n)
      BY <2>7, <2>8, <2>9 DEF LacksOne
    <2>11. QED
      <3>1. ASSUME ~Strays(m, c, "prev")
            PROVE  ~Strays(l, c, "prev") /\ Way(m, c, "prev") = RemoveFirst(Way(l, c, "prev"), n)
        <4>1. Sound(m) /\ "prev" \in Links
          BY <1>4, <1>6
        <4>2. QED
          BY <2>1, <2>3, <2>10, <3>1, <4>1, WayMisses
      <3>2. QED
        BY <3>1 DEF HasAhead
  <1>20. \A c \in Live(l), link \in Links : HasAhead(l, m, c, link, RemoveFirst(Way(l, c, link), n))
    <2>1. \A c \in Live(l) : c \in Nodes
      BY DEF Live
    <2>2. QED
      BY <1>18, <1>19, <2>1 DEF Links
  <1>21. QED
    BY <1>1, <1>3, <1>5, <1>20

LEMMA EmptiesWays ==
  ASSUME NEW l, Sound(l), NEW m, Empties(l, m)
  PROVE  /\ Listed(m) = <<>>
         /\ \A c \in Live(l), link \in Links : HasAhead(l, m, c, link, <<>>)
  <1>1. PICK s : s = Listed(l)
    OBVIOUS
  <1>2. Chain(l, s) /\ Sound(m)
    BY <1>1, ListedElements, EmptiesSound
  <1>3. Chain(m, <<>>)
    <2>1. PICK w : Chain(m, w)
      BY <1>2 DEF Sound
    <2>2. Len(w) = 0 /\ w \in Seq(Nodes)
      BY <2>1 DEF Chain, Empties
    <2>3. w = <<>>
      BY <2>2
    <2>4. QED
      BY <2>1, <2>3
  <1>4. Listed(m) = <<>>
    BY <1>2, <1>3, ListedIs DEF Sound
  <1>5. ASSUME NEW c \in Live(l), NEW link \in Links PROVE HasAhead(l, m, c, link, <<>>)
    <2>1. \A x \in Nodes : m.node[x][link] = l.node[x][link]
      <3>1. CASE link = "next"
        BY <3>1 DEF Empties
      <3>2. CASE link = "prev"
        BY <3>2 DEF Empties
      <3>3. QED
        BY <3>1, <3>2 DEF Links
    <2>2. \A x \in Nodes : l.node[x][link] \in Nodes \cup {Null, Dangling}
      BY LiveLinks DEF Live
    <2>3. Thins(l, m, link, Nodes)
      BY <2>1, <2>2 DEF Empties, Thins
    <2>4. c \in Nodes
      BY DEF Live
    <2>5. PICK u, x : u = Line(s, link) /\ x = Line(<<>>, link)
      OBVIOUS
    <2>6. Runs(l, link, u) /\ Runs(m, link, x)
      BY <1>2, <1>3, <2>5, ChainRuns
    <2>7. x = <<>>
      <3>1. Line(<<>>, "next") = <<>>
        BY LineIs
      <3>2. Line(<<>>, "prev") = <<>>
        <4>1. PICK t : t = Reverse(<<>>)
          OBVIOUS
        <4>2. PICK e : e = <<>>
          OBVIOUS
        <4>3. e \in Seq(Nodes) /\ Len(e) = 0
          BY <4>2
        <4>4. t \in Seq(Nodes) /\ Len(t) = 0
          BY <4>1, <4>2, <4>3, ReverseIs
        <4>5. t = <<>>
          BY <4>4
        <4>6. QED
          BY <4>1, <4>5, LineIs
      <3>3. QED
        BY <2>5, <3>1, <3>2 DEF Links
    <2>8. QED
      BY <1>2, <2>3, <2>4, <2>6, <2>7, WayStays DEF HasAhead
  <1>6. QED
    BY <1>4, <1>5

LEMMA CollectWays ==
  ASSUME NEW l, Sound(l), NEW holders, NEW m, m = Collect(l, holders)
  PROVE  /\ Sound(m) /\ Listed(m) = Listed(l)
         /\ \A c \in Live(m) : c \in Live(l) /\ m.node[c].valid = l.node[c].valid
         /\ \A c \in Live(m), link \in Links : HasAhead(l, m, c, link, Way(l, c, link))
  <1>1. l \in ListType
    BY DEF Sound
  <1>2. PICK kept : kept = Reached(l, holders \cup {l.first, l.last})
    OBVIOUS
  <1>3. Keeps(l, m, kept)
    BY <1>1, <1>2, CollectKeeps
  <1>4. kept \in SUBSET Nodes /\ Closed(l, kept)
    BY <1>1, <1>2, ReachedIs
  <1>5. l.first \in kept \cup {Null}
    <2>1. (holders \cup {l.first, l.last}) \cap Nodes \subseteq kept
      BY <1>1, <1>2, ReachedIs
    <2>2. l.first \in Nodes \cup {Null}
      BY Ends
    <2>3. QED
      BY <2>1, <2>2
  <1>6. PICK s : s = Listed(l)
    OBVIOUS
  <1>7. Chain(l, s)
    BY <1>6, ListedElements
  <1>8. Sound(m) /\ Live(m) = Live(l) \cap kept /\ Chain(m, s)
    BY <1>3, <1>4, <1>5, <1>7, KeepsChain
  <1>9. Listed(m) = s
    BY <1>8, ListedIs DEF Sound
  <1>10. ASSUME NEW c \in Live(m), NEW link \in Links PROVE HasAhead(l, m, c, link, Way(l, c, link))
    <2>1. Thins(l, m, link, kept)
      <3>1. CASE link = "next"
        BY <1>3, <1>4, <3>1 DEF Keeps, Thins, Closed
      <3>2. CASE link = "prev"
        <4>1. \A x \in kept : l.node[x].prev \in Nodes \cup {Null, Dangling}
          BY <1>1, <1>4, NodeTyped
        <4>2. \A x \in kept : \/ m.node[x].prev = l.node[x].prev /\ l.node[x].prev \in kept \cup {Null, Dangling}
                              \/ m.node[x].prev = Dangling
          BY <1>3, <4>1 DEF Keeps
        <4>3. QED
          BY <1>3, <1>4, <3>2, <4>2 DEF Keeps, Thins
      <3>3. QED
        BY <3>1, <3>2 DEF Links
    <2>2. PICK u : u = Line(s, link)
      OBVIOUS
    <2>3. Runs(l, link, u) /\ Runs(m, link, u)
      BY <1>7, <1>8, <2>2, ChainRuns
    <2>4. c \in kept /\ \A d \in kept : m.node[d].valid = l.node[d].valid
      BY <1>3, <1>8 DEF Keeps
    <2>5. QED
      BY <1>8, <2>1, <2>3, <2>4, WayStays DEF HasAhead
  <1>11. \A c \in Live(m) : c \in Live(l) /\ m.node[c].valid = l.node[c].valid
    BY <1>3, <1>8 DEF Keeps
  <1>12. QED
    BY <1>6, <1>8, <1>9, <1>10, <1>11

LEMMA EmptyWay ==
  ASSUME NEW l, Sound(l), Listed(l) = <<>>, NEW c \in Nodes, NEW link \in Links, ~Strays(l, c, link)
  PROVE  Way(l, c, link) = <<>>
  <1>1. PICK s : s = Listed(l)
    OBVIOUS
  <1>2. Chain(l, s) /\ s \in Seq(Nodes) /\ Len(s) = 0
    BY <1>1, ListedElements
  <1>3. PICK u : u = Line(s, link)
    OBVIOUS
  <1>4. Runs(l, link, u)
    BY <1>2, <1>3, ChainRuns
  <1>5. Len(u) = 0
    <2>1. Line(s, link) = s \/ Line(s, link) = Reverse(s)
      BY LineIs DEF Links
    <2>2. CASE u = Reverse(s)
      BY <1>2, <2>2, ReverseIs
    <2>3. QED
      BY <1>2, <1>3, <2>1, <2>2
  <1>6. PICK k \in 1..(Len(u) + 1) : MovesTo(l, c, link) = At(u, k)
    BY <1>4, MoveIs DEF Strays
  <1>7. Way(l, c, link) = From(u, k)
    BY <1>4, <1>6, WayIs
  <1>8. From(u, k) = <<>>
    BY <1>5 DEF From
  <1>9. QED
    BY <1>7, <1>8

(* An iterator on an element has the elements behind it ahead.             *)
LEMMA FromSplits ==
  ASSUME NEW A, NEW u \in Seq(A), NEW k \in 1..(Len(u) + 1), NEW w, w = From(u, k)
  PROVE  /\ w = <<>> <=> k = Len(u) + 1
         /\ k # Len(u) + 1 => k \in 1..Len(u) /\ Head(w) = u[k] /\ Tail(w) = From(u, k + 1)
         /\ k = 1 => w = u
  <1>1. Len(u) \in Nat /\ w \in Seq(A) /\ IsFrom(w, u, k)
    BY FromIs
  <1>2. Len(w) = Len(u) + 1 - k /\ \A i \in 1..Len(w) : w[i] = u[i + k - 1]
    BY <1>1 DEF IsFrom
  <1>3. w = <<>> <=> k = Len(u) + 1
    <2>1. w = <<>> <=> Len(w) = 0
      BY <1>1
    <2>2. QED
      BY <1>1, <1>2, <2>1
  <1>4. ASSUME k # Len(u) + 1 PROVE k \in 1..Len(u) /\ Head(w) = u[k] /\ Tail(w) = From(u, k + 1)
    <2>1. k \in 1..Len(u) /\ 1 \in 1..Len(w) /\ 1 + k - 1 = k
      BY <1>1, <1>2, <1>4
    <2>2. Head(w) = u[k]
      <3>1. Head(w) = w[1]
        BY <1>1, <2>1
      <3>2. w[1] = u[1 + k - 1]
        BY <1>2, <2>1
      <3>3. QED
        BY <2>1, <3>1, <3>2
    <2>3. PICK j \in 1..(Len(u) + 1) : j = k + 1
      BY <1>1, <2>1
    <2>4. PICK a, b : a = Tail(w) /\ b = From(u, j)
      OBVIOUS
    <2>5. b \in Seq(A) /\ IsFrom(b, u, j)
      BY <2>4, FromIs
    <2>6. a \in Seq(A) /\ Len(a) = Len(w) - 1 /\ \A i \in 1..(Len(w) - 1) : a[i] = w[i + 1]
      BY <1>1, <2>1, <2>4
    <2>7. Len(b) = Len(a)
      BY <1>1, <1>2, <2>3, <2>5, <2>6 DEF IsFrom
    <2>8. ASSUME NEW i \in 1..Len(a) PROVE a[i] = b[i]
      <3>1. i \in 1..(Len(w) - 1) /\ i + 1 \in 1..Len(w) /\ (i + 1) + k - 1 = i + j - 1
        BY <1>1, <2>3, <2>6
      <3>2. a[i] = u[(i + 1) + k - 1]
        BY <1>2, <2>6, <3>1
      <3>3. b[i] = u[i + j - 1]
        BY <2>5, <2>7 DEF IsFrom
      <3>4. QED
        BY <3>1, <3>2, <3>3
    <2>9. a = b
      BY <2>5, <2>6, <2>7, <2>8, SameSeq
    <2>10. QED
      BY <2>1, <2>2, <2>3, <2>4, <2>9
  <1>5. ASSUME k = 1 PROVE w = u
    <2>1. Len(w) = Len(u) /\ \A i \in 1..Len(w) : i + k - 1 = i
      BY <1>1, <1>2, <1>5
    <2>2. \A i \in 1..Len(w) : w[i] = u[i]
      BY <1>2, <2>1
    <2>3. QED
      BY <1>1, <2>1, <2>2, SameSeq
  <1>6. QED
    BY <1>3, <1>4, <1>5

LEMMA WayOfElement ==
  ASSUME NEW l, Sound(l), NEW link \in Links, NEW u, u = Line(Listed(l), link)
  PROVE  /\ u \in Seq(Nodes) /\ Len(u) \in Nat
         /\ \A k \in 1..Len(u) : /\ u[k] \in Nodes /\ l.node[u[k]].valid
                                 /\ ~Strays(l, u[k], link) /\ Way(l, u[k], link) = From(u, k + 1)
         /\ link = "next" => l.first = At(u, 1)
         /\ link = "prev" => l.last = At(u, 1)
         /\ \A c \in Nodes : ~Strays(l, c, link) =>
              \E k \in 1..(Len(u) + 1) : MovesTo(l, c, link) = At(u, k) /\ Way(l, c, link) = From(u, k)
  <1>1. PICK s : s = Listed(l)
    OBVIOUS
  <1>2. Chain(l, s) /\ s \in Seq(Nodes) /\ Len(s) \in Nat
    BY <1>1, ListedElements
  <1>3. Runs(l, link, u)
    BY <1>1, <1>2, ChainRuns
  <1>4. /\ u \in Seq(Nodes) /\ Len(u) \in Nat /\ \A i \in 1..Len(u) : u[i] \in Nodes /\ l.node[u[i]].valid
    BY <1>3, Numbers DEF Runs
  <1>5. ASSUME NEW k \in 1..Len(u) PROVE ~Strays(l, u[k], link) /\ Way(l, u[k], link) = From(u, k + 1)
    <2>1. MovesTo(l, u[k], link) = At(u, k + 1)
      BY <1>3, <1>4, MoveIs
    <2>2. k + 1 \in 1..(Len(u) + 1)
      BY <1>4
    <2>3. QED
      BY <1>3, <1>4, <2>1, <2>2, WayIs
  <1>6. ASSUME link = "next" PROVE l.first = At(u, 1)
    <2>1. u = s
      BY <1>1, <1>6, LineIs
    <2>2. QED
      BY <1>2, <2>1 DEF Chain
  <1>7. ASSUME link = "prev" PROVE l.last = At(u, 1)
    <2>1. u = Reverse(s)
      BY <1>1, <1>7, LineIs
    <2>2. Len(u) = Len(s) /\ \A i \in 1..Len(s) : u[i] = s[Len(s) + 1 - i]
      BY <1>2, <2>1, ReverseIs
    <2>3. At(u, 1) = At(s, Len(s))
      <3>1. CASE Len(s) = 0
        <4>1. 1 \notin 1..Len(u) /\ Len(s) \notin 1..Len(s)
          BY <2>2, <3>1
        <4>2. QED
          BY <4>1 DEF At
      <3>2. CASE Len(s) # 0
        <4>1. 1 \in 1..Len(s) /\ Len(s) \in 1..Len(s) /\ Len(s) + 1 - 1 = Len(s)
          BY <1>2, <3>2
        <4>2. QED
          BY <2>2, <4>1 DEF At
      <3>3. QED
        BY <3>1, <3>2
    <2>4. QED
      BY <1>2, <2>3 DEF Chain
  <1>8. ASSUME NEW c \in Nodes, ~Strays(l, c, link)
        PROVE  \E k \in 1..(Len(u) + 1) : MovesTo(l, c, link) = At(u, k) /\ Way(l, c, link) = From(u, k)
    <2>1. PICK k \in 1..(Len(u) + 1) : MovesTo(l, c, link) = At(u, k)
      BY <1>3, <1>8, MoveIs DEF Strays
    <2>2. Way(l, c, link) = From(u, k)
      BY <1>3, <2>1, WayIs
    <2>3. QED
      BY <2>1, <2>2
  <1>9. QED
    BY <1>4, <1>5, <1>6, <1>7, <1>8

(* Elements that come after all were removed are on the way of none that    *)
(* stand on a removed one.                                                 *)
LEMMA PushAllWays ==
  ASSUME NEW l, Sound(l), Listed(l) = <<>>, NEW w \in Seq(Values), Cardinality(Unallocated(l)) >= Len(w),
         NEW c \in Live(l), NEW link \in Links
  PROVE  HasAhead(l, PushAll(l, w), c, link, <<>>)
  <1>1. Len(w) \in Nat /\ \A k \in 1..Len(w) : w[k] \in Values
    OBVIOUS
  <1>2. PICK f : Pushes(f, l, w, Len(w)) /\ PushAll(l, w) = f[Len(w)]
    <2>1. \E f : Pushes(f, l, w, Len(w))
      BY <1>1, PushesExist
    <2>2. QED
      BY <2>1 DEF PushAll, Pushes
  <1>3. f[0] = l /\ \A k \in 1..Len(w) : f[k] = PushBack(f[k - 1], w[k])
    BY <1>1, <1>2 DEF Pushes
  <1>4. \A m : Unallocated(m) = Nodes \ Live(m) /\ IsFiniteSet(Unallocated(m))
    <2>1. ASSUME NEW m PROVE Unallocated(m) = Nodes \ Live(m) /\ IsFiniteSet(Unallocated(m))
      <3>1. Unallocated(m) \in SUBSET Nodes
        BY DEF Unallocated
      <3>2. IsFiniteSet(Unallocated(m))
        BY <3>1, NodesAssumption, FS_Subset
      <3>3. QED
        BY <3>2 DEF Unallocated, Live
    <2>2. QED
      BY <2>1
  <1>5. Cardinality(Unallocated(l)) \in Nat
    BY <1>4, FS_CardinalityType
  <1>6. c \in Nodes /\ ~l.node[c].valid
    <2>1. c \in Nodes
      BY DEF Live
    <2>2. ToSet(<<>>) = {}
      BY DEF ToSet
    <2>3. QED
      BY <2>1, <2>2, ListedElements
  <1> DEFINE S == {k \in Nat : k <= Len(w) =>
                     /\ Sound(f[k]) /\ c \in Live(f[k])
                     /\ Cardinality(Unallocated(f[k])) = Cardinality(Unallocated(l)) - k
                     /\ ~f[k].node[c].valid /\ HasAhead(l, f[k], c, link, <<>>)}
  <1>7. 0 \in S
    <2>1. HasAhead(l, l, c, link, <<>>)
      BY <1>6, EmptyWay DEF HasAhead
    <2>2. QED
      BY <1>3, <1>5, <1>6, <2>1
  <1>8. ASSUME NEW k \in Nat, k \in S
        PROVE  k + 1 \in S
    <2> SUFFICES ASSUME k + 1 <= Len(w)
                 PROVE  /\ Sound(f[k + 1]) /\ c \in Live(f[k + 1])
                        /\ Cardinality(Unallocated(f[k + 1])) = Cardinality(Unallocated(l)) - (k + 1)
                        /\ ~f[k + 1].node[c].valid /\ HasAhead(l, f[k + 1], c, link, <<>>)
      OBVIOUS
    <2>1. PICK g, h, v : g = f[k] /\ h = f[k + 1] /\ v = w[k + 1]
      OBVIOUS
    <2>2. /\ Sound(g) /\ c \in Live(g) /\ Cardinality(Unallocated(g)) = Cardinality(Unallocated(l)) - k
          /\ ~g.node[c].valid /\ HasAhead(l, g, c, link, <<>>)
      BY <1>1, <1>8, <2>1
    <2>3. k + 1 \in 1..Len(w) /\ (k + 1) - 1 = k
      BY <1>1
    <2>4. h = PushBack(g, v) /\ v \in Values
      BY <1>1, <1>3, <2>1, <2>3
    <2>5. Cardinality(Unallocated(g)) # 0
      BY <1>1, <1>5, <2>2, <2>3
    <2>6. Unallocated(g) # {}
      BY <2>5, FS_EmptySet
    <2>7. PICK n : n = Allocate(g)
      OBVIOUS
    <2>8. n \in Nodes \ Live(g)
      BY <2>6, <2>7, FreshNode
    <2>9. AddsLast(g, h, n, v)
      BY <2>2, <2>4, <2>6, <2>7, PushBackAdds
    <2>10. Sound(h) /\ Live(h) = Live(g) \cup {n}
      BY <2>2, <2>4, <2>8, <2>9, AddsLastSound
    <2>11. Cardinality(Unallocated(h)) = Cardinality(Unallocated(g)) - 1
      <3>1. n \in Unallocated(g) /\ Unallocated(h) = Unallocated(g) \ {n}
        BY <1>4, <2>8, <2>10
      <3>2. QED
        BY <1>4, <3>1, FS_RemoveElement
    <2>12. ~h.node[c].valid
      BY <1>6, <2>2, <2>8, <2>9 DEF AddsLast
    <2>13. HasAhead(l, h, c, link, <<>>)
      <3>1. MayMeet(g, h, c, "next", n) /\ HasAhead(g, h, c, "prev", Way(g, c, "prev"))
        BY <2>2, <2>4, <2>8, <2>9, AddsLastWays
      <3>2. CASE link = "next"
        BY <2>2, <3>1, <3>2 DEF MayMeet, HasAhead
      <3>3. CASE link = "prev"
        BY <2>2, <3>1, <3>3 DEF HasAhead
      <3>4. QED
        BY <3>2, <3>3 DEF Links
    <2>14. Cardinality(Unallocated(h)) = Cardinality(Unallocated(l)) - (k + 1)
      BY <1>5, <2>2, <2>11
    <2>15. QED
      BY <2>1, <2>2, <2>10, <2>12, <2>13, <2>14
  <1> HIDE DEF S
  <1>9. Len(w) \in S
    BY <1>1, <1>7, <1>8, Induction
  <1>10. QED
    BY <1>1, <1>2, <1>9 DEF S
=============================================================================
