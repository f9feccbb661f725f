----------------------------- MODULE ListNodes -----------------------------
(***************************************************************************)
(* The nodes of panda::owning_list and the operations on them              *)
(* (panda/owning_list.h), as operators from a list to the list they leave. *)
(*                                                                         *)
(* A list l is a record: l.node[n] holds the value, the valid flag, next   *)
(* (a strong reference) and prev (a raw pointer) of node n, and is Free    *)
(* when n is not allocated; l.first, l.last and l.size are the members of  *)
(* the list object.                                                        *)
(***************************************************************************)
EXTENDS Integers, SequencesExt

CONSTANTS
  Nodes,    \* the pool of nodes: bounds how many exist at a time
  Values,   \* what the list holds
  Null,     \* the null pointer
  Dangling  \* a raw pointer to a node that was deleted

ASSUME NodesAssumption ==
  /\ IsFiniteSet(Nodes)
  /\ Null \notin Nodes \cup Values /\ Dangling \notin Nodes \cup {Null}

Pointers == Nodes \cup {Null, Dangling}
Steps    == 0..Cardinality(Nodes)   \* how often a pointer is moved on, at most

Free    == [val |-> Null, valid |-> FALSE, next |-> Null, prev |-> Null]
NewList == [node |-> [n \in Nodes |-> Free], first |-> Null, last |-> Null, size |-> 0]

Unallocated(l) == {n \in Nodes : l.node[n].val = Null}
Allocate(l)    == CHOOSE n \in Nodes : l.node[n].val = Null

(***************************************************************************)
(* next_strategy and prev_strategy: leave the node, then skip the nodes    *)
(* that were removed.  The variant stops at them.                          *)
(***************************************************************************)
Skip(l, p, link) ==
  LET from[x \in Steps \X Pointers] ==
        LET c == x[2]
        IN  IF x[1] = 0 \/ c \notin Nodes \/ l.node[c].valid THEN c ELSE from[<<x[1] - 1, l.node[c][link]>>]
  IN  from[<<Cardinality(Nodes), p>>]

IncStops(l, n) == l.node[n].next
Inc(l, n) == Skip(l, l.node[n].next, "next")
Dec(l, n) == Skip(l, l.node[n].prev, "prev")

(* The nodes an iterator at p has in front of it, p included; a raw pointer *)
(* to a deleted node ends the walk and is its last element.                *)
Walk(l, p, Move(_, _)) ==
  LET from[x \in Steps \X Pointers] ==
        LET c == x[2]
        IN  IF x[1] = 0 \/ c = Null THEN <<>>
            ELSE IF c = Dangling THEN <<c>> ELSE <<c>> \o from[<<x[1] - 1, Move(l, c)>>]
  IN  from[<<Cardinality(Nodes), p>>]
Listed(l) == Walk(l, l.first, Inc)

(* What the references count down to when an operation is over: the nodes  *)
(* no strong reference leads to are deleted, raw pointers to them dangle.  *)
Closed(l, S)      == \A n \in S : l.node[n].next \in S \cup {Null}
Reached(l, roots) ==
  LET all == {S \in SUBSET Nodes : roots \cap Nodes \subseteq S /\ Closed(l, S)}
  IN  {n \in Nodes : \A S \in all : n \in S}

Collect(l, holders) ==
  LET kept    == Reached(l, holders \cup {l.first, l.last})
      seen(p) == IF p \in Nodes \ kept THEN Dangling ELSE p
  IN  [l EXCEPT !.node = [n \in Nodes |-> IF n \in kept THEN [l.node[n] EXCEPT !.prev = seen(@)] ELSE Free]]

(***************************************************************************)
(* push_back, push_front, remove_node, clear.  The variant links the old   *)
(* first node forward to the new one.                                      *)
(***************************************************************************)
PushBack(l, v) ==
  LET n == Allocate(l)
      m == [l EXCEPT !.node[n] = [val |-> v, valid |-> TRUE, next |-> Null, prev |-> l.last],
                     !.last = n, !.size = @ + 1]
  IN  IF l.last = Null THEN [m EXCEPT !.first = n] ELSE [m EXCEPT !.node[l.last].next = n]

PushFrontLinksNext(l, v) ==
  LET n == Allocate(l)
      m == [l EXCEPT !.node[n] = [val |-> v, valid |-> TRUE, next |-> l.first, prev |-> Null],
                     !.first = n, !.size = @ + 1]
  IN  IF l.first = Null THEN [m EXCEPT !.last = n] ELSE [m EXCEPT !.node[l.first].next = n]
PushFront(l, v) ==
  LET n == Allocate(l)
      m == [l EXCEPT !.node[n] = [val |-> v, valid |-> TRUE, next |-> l.first, prev |-> Null],
                     !.first = n, !.size = @ + 1]
  IN  IF l.first = Null THEN [m EXCEPT !.last = n] ELSE [m EXCEPT !.node[l.first].prev = n]

PushAll(l, w) ==
  LET m[k \in 0..Len(w)] == IF k = 0 THEN l ELSE PushBack(m[k - 1], w[k]) IN m[Len(w)]

(* The removed node keeps its links.  The variant leaves the prev of the    *)
(* node behind it.                                                         *)
Unlink(l, n) ==
  LET p == l.node[n].prev
      m == [l EXCEPT !.node[n].valid = FALSE, !.size = @ - 1]
  IN  IF p = Null THEN [m EXCEPT !.first = l.node[n].next] ELSE [m EXCEPT !.node[p].next = l.node[n].next]
RemoveNodeKeepsPrev(l, n) ==
  IF l.node[n].next = Null THEN [Unlink(l, n) EXCEPT !.last = l.node[n].prev] ELSE Unlink(l, n)
RemoveNode(l, n) ==
  LET x == l.node[n].next
  IN  IF x = Null THEN [Unlink(l, n) EXCEPT !.last = l.node[n].prev]
                  ELSE [Unlink(l, n) EXCEPT !.node[x].prev = l.node[n].prev]

(* clear(), and the destructor.  The variant forgets that "we must          *)
(* invalidate all elements to make ++ on any iterator correct".            *)
Emptied(l) == [l EXCEPT !.first = Null, !.last = Null, !.size = 0]
ClearKeepsValid(l) == Emptied(l)
Clear(l) ==
  LET gone == ToSet(Listed(l))
  IN  Emptied([l EXCEPT !.node = [n \in Nodes |-> [l.node[n] EXCEPT !.valid = @ /\ n \notin gone]]])

(***************************************************************************)
(* What the operations rely on.                                            *)
(***************************************************************************)
ListType ==
  [node  : [Nodes -> [val : Values \cup {Null}, valid : BOOLEAN, next : Nodes \cup {Null},
                      prev : Nodes \cup {Null, Dangling}]],
   first : Nodes \cup {Null}, last : Nodes \cup {Null}, size : Nat]

LinkedBothWays(l) ==
  LET s == Listed(l) IN
  /\ l.size = Len(s)
  /\ s = Reverse(Walk(l, l.last, Dec))
  /\ ToSet(s) = {n \in Nodes : l.node[n].valid}
  /\ \A k \in 1..Len(s) : l.node[s[k]].prev = IF k = 1 THEN Null ELSE s[k - 1]

NoReferenceCycle(l) == \A n \in Nodes : n \notin Reached(l, {l.node[n].next})
=============================================================================
