----------------------------- MODULE OwningList -----------------------------
(***************************************************************************)
(* panda::owning_list and the iterators that walk over it while it is      *)
(* changed (panda/owning_list.h).  An iterator owns the node it stands on. *)
(***************************************************************************)
EXTENDS ListNodes

CONSTANTS
  Fwd, Rev,  \* iterator and reverse_iterator objects of the program
  Contents,  \* the lists and initializer lists that are assigned
  Lost       \* see CursorList

ASSUME ContentsAssumption == Contents \subseteq Seq(Values)
ASSUME ItersAssumption == Fwd \cap Rev = {} /\ Lost \notin Seq(Nodes)

VARIABLES list, at
vars == <<list, at>>

Iters == Fwd \cup Rev
Init  == list = NewList /\ at = [i \in Iters |-> Null]

Holding     == {at[i] : i \in Iters}
HasRoom(n)  == Cardinality(Unallocated(list)) >= n
Becomes(l)  == list' = Collect(l, Holding) /\ UNCHANGED at

AddLast(v)  == HasRoom(1) /\ Becomes(PushBack(list, v))
AddFirst(v) == HasRoom(1) /\ Becomes(PushFront(list, v))

(* remove(val): the first element that equals val.                         *)
RemoveVal(v) ==
  LET s       == Listed(list)
      Same(k) == list.node[s[k]].val = v
  IN  \E k \in 1..Len(s) : Same(k) /\ (\A j \in 1..(k - 1) : ~Same(j)) /\ Becomes(RemoveNode(list, s[k]))

(* erase(iter), for an element that is still in the list.                  *)
Erase(i) ==
  /\ at[i] # Null /\ list.node[at[i]].valid
  /\ Becomes(RemoveNode(list, at[i]))

Empty == Becomes(Clear(list))

(* operator=: clear, then push_back each.                                  *)
Assign(w) ==
  LET cleared == Collect(Clear(list), Holding)
  IN  /\ Cardinality(Unallocated(cleared)) >= Len(w)
      /\ list' = PushAll(cleared, w)
      /\ UNCHANGED at

(* begin(), rbegin(), ++ and the iterator's destructor: the old node may go. *)
Moves(i, n) == at' = [at EXCEPT ![i] = n] /\ list' = Collect(list, {at'[j] : j \in Iters})
Begin(i)    == Moves(i, IF i \in Fwd THEN list.first ELSE list.last)
Leave(i)    == at[i] # Null /\ Moves(i, Null)

(* A reverse iterator must not be advanced over a deleted node.            *)
Advance(i) ==
  /\ at[i] # Null
  /\ \/ i \in Fwd /\ Moves(i, Inc(list, at[i]))
     \/ i \in Rev /\ Dec(list, at[i]) # Dangling /\ Moves(i, Dec(list, at[i]))

Next ==
  \/ \E v \in Values : AddLast(v) \/ AddFirst(v) \/ RemoveVal(v)
  \/ \E i \in Iters : Erase(i) \/ Begin(i) \/ Advance(i) \/ Leave(i)
  \/ Empty
  \/ \E w \in Contents : Assign(w)

Spec == Init /\ [][Next]_vars

(***************************************************************************)
(* Properties.                                                             *)
(***************************************************************************)
(* Type invariant: the nodes, and the iterators on them.                  *)
TypeOK == list \in ListType /\ at \in [Iters -> Nodes \cup {Null}]

(* next from first and prev from last meet the same elements, those marked *)
(* valid, and size() counts them, after any mix of insertion and removal   *)
(* at both ends and in the middle while removed nodes are still held.      *)
LinksAgree == TypeOK /\ LinkedBothWays(list)

(* The strong references between nodes never close a cycle: "Node will be  *)
(* deleted when all strong reference to it will be forgotten".             *)
NoCycle == NoReferenceCycle(list)

(* Every iterator keeps its element and visits, in order, the elements     *)
(* ahead of it that are still there.                                       *)
WaysOn(i) ==
  IF at[i] = Null THEN <<>>
  ELSE LET w == IF i \in Fwd THEN Walk(list, Inc(list, at[i]), Inc) ELSE Walk(list, Dec(list, at[i]), Dec)
       IN  IF Dangling \in ToSet(w) THEN Lost ELSE w
Cursors == INSTANCE CursorList WITH
             Elements <- Nodes, list <- Listed(list), ahead <- [i \in Iters |-> WaysOn(i)]
ImplementsCursorList == Cursors!Spec
=============================================================================
