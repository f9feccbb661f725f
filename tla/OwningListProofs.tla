-------------------------- MODULE OwningListProofs --------------------------
(***************************************************************************)
(* owning_list stays linked both ways and free of reference cycles, for    *)
(* any number of nodes, values and iterators.                              *)
(***************************************************************************)
EXTENDS OwningList, ListNodesProofs

Stand(l, i) == at[i] \in Live(l) \cup {Null}

(* The list is sound, and no iterator stands on a node that was deleted.   *)
IInv == Sound(list) /\ at \in [Iters -> Nodes \cup {Null}] /\ \A i \in Iters : Stand(list, i)

LEMMA InitIInv == Init => IInv
  BY NewListSound DEF Init, IInv, Stand

(* The change of an operation, and the deletions that follow it.           *)
LEMMA BecomesIInv ==
  ASSUME IInv, NEW l, Sound(l), Live(list) \subseteq Live(l), Becomes(l)
  PROVE  IInv'
  <1>1. PICK m : m = Collect(l, Holding)
    OBVIOUS
  <1>2. list' = m /\ at' = at
    BY <1>1 DEF Becomes
  <1>3. Sound(m) /\ Holding \cap Live(l) \subseteq Live(m)
    BY <1>1, CollectSound
  <1>4. \A i \in Iters : at[i] \in Live(m) \cup {Null}
    BY <1>3 DEF IInv, Stand, Holding
  <1>5. QED
    BY <1>2, <1>3, <1>4 DEF IInv, Stand

LEMMA MovesIInv ==
  ASSUME IInv, NEW i \in Iters, NEW n \in Live(list) \cup {Null}, Moves(i, n)
  PROVE  IInv'
  <1>1. PICK b : b = [at EXCEPT ![i] = n]
    OBVIOUS
  <1>2. b \in [Iters -> Nodes \cup {Null}] /\ \A j \in Iters : b[j] \in Live(list) \cup {Null}
    BY <1>1 DEF IInv, Stand, Live
  <1>3. PICK m : m = Collect(list, {b[j] : j \in Iters})
    OBVIOUS
  <1>4. at' = b /\ list' = m
    BY <1>1, <1>3 DEF Moves
  <1>5. Sound(m) /\ {b[j] : j \in Iters} \cap Live(list) \subseteq Live(m)
    BY <1>3, CollectSound DEF IInv
  <1>6. \A j \in Iters : b[j] \in Live(m) \cup {Null}
    BY <1>2, <1>5
  <1>7. QED
    BY <1>2, <1>4, <1>5, <1>6 DEF IInv, Stand

LEMMA RoomForOne == ASSUME HasRoom(1) PROVE Unallocated(list) # {}
  <1>1. Cardinality(Unallocated(list)) >= 1
    BY DEF HasRoom
  <1>2. Cardinality(Unallocated(list)) # 0
    BY <1>1
  <1>3. QED
    BY <1>2, FS_EmptySet

LEMMA AssignIInv ==
  ASSUME IInv, NEW w \in Contents, Assign(w)
  PROVE  IInv'
  <1>1. PICK c : c = Collect(Clear(list), Holding)
    OBVIOUS
  <1>2. Sound(Clear(list)) /\ Live(Clear(list)) = Live(list)
    BY ClearSound DEF IInv
  <1>3. Sound(c) /\ Holding \cap Live(list) \subseteq Live(c)
    BY <1>1, <1>2, CollectSound
  <1>4. Cardinality(Unallocated(c)) >= Len(w) /\ list' = PushAll(c, w) /\ at' = at
    BY <1>1 DEF Assign
  <1>5. w \in Seq(Values)
    BY ContentsAssumption
  <1>6. PICK m : m = PushAll(c, w)
    OBVIOUS
  <1>7. Sound(m) /\ Live(c) \subseteq Live(m)
    BY <1>3, <1>4, <1>5, <1>6, PushAllSound
  <1>8. \A i \in Iters : at[i] \in Live(m) \cup {Null}
    BY <1>3, <1>7 DEF IInv, Stand, Holding
  <1>9. QED
    BY <1>4, <1>6, <1>7, <1>8 DEF IInv, Stand

LEMMA NextIInv == IInv /\ [Next]_vars => IInv'
  <1> SUFFICES ASSUME IInv, [Next]_vars PROVE IInv'
    OBVIOUS
  <1>1. Sound(list) /\ \A i \in Iters : at[i] \in Live(list) \cup {Null}
    BY DEF IInv, Stand
  <1>2. ASSUME NEW v \in Values, AddLast(v) PROVE IInv'
    <2>1. Unallocated(list) # {}
      BY <1>2, RoomForOne DEF AddLast
    <2>2. PICK l : l = PushBack(list, v)
      OBVIOUS
    <2>3. Sound(l) /\ Live(list) \subseteq Live(l)
      BY <1>1, <2>1, <2>2, PushBackSound
    <2>4. Becomes(l)
      BY <1>2, <2>2 DEF AddLast
    <2>5. QED
      BY <2>3, <2>4, BecomesIInv
  <1>3. ASSUME NEW v \in Values, AddFirst(v) PROVE IInv'
    <2>1. Unallocated(list) # {}
      BY <1>3, RoomForOne DEF AddFirst
    <2>2. PICK l : l = PushFront(list, v)
      OBVIOUS
    <2>3. Sound(l) /\ Live(list) \subseteq Live(l)
      BY <1>1, <2>1, <2>2, PushFrontSound
    <2>4. Becomes(l)
      BY <1>3, <2>2 DEF AddFirst
    <2>5. QED
      BY <2>3, <2>4, BecomesIInv
  <1>4. ASSUME NEW n \in Nodes, list.node[n].valid, Becomes(RemoveNode(list, n)) PROVE IInv'
    <2>1. PICK l : l = RemoveNode(list, n)
      OBVIOUS
    <2>2. Sound(l) /\ Live(list) \subseteq Live(l)
      BY <1>1, <1>4, <2>1, RemoveNodeSound
    <2>3. QED
      BY <1>4, <2>1, <2>2, BecomesIInv
  <1>5. ASSUME NEW v \in Values, RemoveVal(v) PROVE IInv'
    <2>1. PICK s : s = Listed(list)
      OBVIOUS
    <2>2. PICK k \in 1..Len(s) : Becomes(RemoveNode(list, s[k]))
      BY <1>5, <2>1 DEF RemoveVal
    <2>3. s[k] \in Nodes /\ list.node[s[k]].valid
      BY <1>1, <2>1, FoundIsListed
    <2>4. QED
      BY <1>4, <2>2, <2>3
  <1>6. ASSUME NEW i \in Iters, Erase(i) PROVE IInv'
    <2>1. at[i] \in Nodes
      BY <1>6 DEF Erase, IInv
    <2>2. QED
      BY <1>4, <1>6, <2>1 DEF Erase
  <1>7. ASSUME NEW i \in Iters, Begin(i) PROVE IInv'
    <2>1. list.first \in Live(list) \cup {Null} /\ list.last \in Live(list) \cup {Null}
      BY <1>1, Ends
    <2>2. QED
      BY <1>7, <2>1, MovesIInv DEF Begin
  <1>8. ASSUME NEW i \in Iters, Leave(i) PROVE IInv'
    BY <1>8, MovesIInv DEF Leave
  <1>9. ASSUME NEW i \in Iters, Advance(i) PROVE IInv'
    <2>1. at[i] \in Live(list)
      BY <1>1, <1>9 DEF Advance
    <2>2. Inc(list, at[i]) \in Live(list) \cup {Null}
      BY <1>1, <2>1, IncStays
    <2>3. Dec(list, at[i]) \in Live(list) \cup {Null, Dangling}
      BY <1>1, <2>1, DecStays
    <2>4. CASE Moves(i, Inc(list, at[i]))
      BY <2>2, <2>4, MovesIInv
    <2>5. CASE Dec(list, at[i]) # Dangling /\ Moves(i, Dec(list, at[i]))
      BY <2>3, <2>5, MovesIInv
    <2>6. QED
      BY <1>9, <2>4, <2>5 DEF Advance
  <1>10. CASE Empty
    <2>1. PICK l : l = Clear(list)
      OBVIOUS
    <2>2. Sound(l) /\ Live(list) \subseteq Live(l)
      BY <1>1, <2>1, ClearSound
    <2>3. QED
      BY <1>10, <2>1, <2>2, BecomesIInv DEF Empty
  <1>11. ASSUME NEW w \in Contents, Assign(w) PROVE IInv'
    BY <1>11, AssignIInv
  <1>12. CASE UNCHANGED vars
    BY <1>12 DEF vars, IInv, Stand
  <1>13. QED
    BY <1>2, <1>3, <1>5, <1>6, <1>7, <1>8, <1>9, <1>10, <1>11, <1>12 DEF Next

LEMMA SpecIInv == Spec => []IInv
  BY InitIInv, NextIInv, PTL DEF Spec

(* Both directions of the list meet the same elements, those marked valid,  *)
(* and size() counts them, after any mix of insertions and removals under   *)
(* iterators that stay on removed nodes.                                   *)
THEOREM LinksAgreeAlways == Spec => []LinksAgree
  <1>1. IInv => LinksAgree
    <2>1. IInv => LinkedBothWays(list)
      BY SoundLinked DEF IInv
    <2>2. IInv => TypeOK
      BY DEF IInv, TypeOK, Sound
    <2>3. QED
      BY <2>1, <2>2 DEF LinksAgree
  <1>2. QED
    BY <1>1, SpecIInv, PTL

(* The strong references between nodes never close a cycle, which nothing   *)
(* would delete.                                                           *)
THEOREM NoCycleAlways == Spec => []NoCycle
  <1>1. IInv => NoCycle
    BY SoundAcyclic DEF IInv, NoCycle
  <1>2. QED
    BY <1>1, SpecIInv, PTL

(* Every iterator in use stands on a node that exists: the element that it  *)
(* owns is not deleted under it.                                           *)
THEOREM IteratorsOwn == Spec => [](\A i \in Iters : at[i] # Null => list.node[at[i]].val # Null)
  <1>1. IInv => \A i \in Iters : at[i] # Null => list.node[at[i]].val # Null
    BY DEF IInv, Stand, Live
  <1>2. QED
    BY <1>1, SpecIInv, PTL

-----------------------------------------------------------------------------
(***************************************************************************)
(* The list implements CursorList: the elements are the listed nodes, and   *)
(* an iterator has its way over next or prev ahead of it.                  *)
(***************************************************************************)
Link(i) == IF i \in Fwd THEN "next" ELSE "prev"
AheadIn(l, c, link) == IF c = Null THEN <<>> ELSE IF Strays(l, c, link) THEN Lost ELSE Way(l, c, link)

LEMMA InstanceOperators ==
  /\ \A s, e : Cursors!RemoveFirst(s, e) = RemoveFirst(s, e)
  /\ \A s : Cursors!ToSet(s) = ToSet(s) /\ (Cursors!IsInjective(s) <=> IsInjective(s)) /\ Cursors!Reverse(s) = Reverse(s)
  <1>1. \A s, e : Cursors!RemoveFirst(s, e) = RemoveFirst(s, e)
    BY DEF Cursors!RemoveFirst, Cursors!RemoveAt, Cursors!SelectInSeq, Cursors!Min,
           RemoveFirst, RemoveAt, SelectInSeq, Min
  <1>2. \A s : Cursors!ToSet(s) = ToSet(s) /\ (Cursors!IsInjective(s) <=> IsInjective(s)) /\ Cursors!Reverse(s) = Reverse(s)
    BY DEF Cursors!ToSet, ToSet, Cursors!IsInjective, IsInjective, Cursors!Reverse, Reverse
  <1>3. QED
    BY <1>1, <1>2

LEMMA EmptyNotLost == <<>> # Lost
  <1>1. <<>> \in Seq(Nodes)
    OBVIOUS
  <1>2. QED
    BY <1>1, ItersAssumption

LEMMA LinkIs ==
  ASSUME NEW i \in Iters
  PROVE  Link(i) \in Links /\ (Link(i) = "next" <=> i \in Fwd) /\ (Link(i) = "prev" <=> i \in Rev)
  BY ItersAssumption DEF Link, Links, Iters

Seen(l, c, i) ==
  IF c = Null THEN <<>>
  ELSE LET w == IF i \in Fwd THEN Walk(l, Inc(l, c), Inc) ELSE Walk(l, Dec(l, c), Dec)
       IN  IF Dangling \in ToSet(w) THEN Lost ELSE w

LEMMA SeenIs ==
  ASSUME NEW l, Sound(l), NEW i \in Iters, NEW c \in Nodes \cup {Null}
  PROVE  /\ Seen(l, c, i) = AheadIn(l, c, Link(i))
         /\ AheadIn(l, c, Link(i)) = Lost => c \in Nodes /\ Strays(l, c, Link(i)) /\ i \in Rev /\ ~l.node[c].valid
  <1>1. CASE c = Null
    BY <1>1, EmptyNotLost DEF Seen, AheadIn
  <1>2. CASE c # Null
    <2>1. PICK w : w = Way(l, c, Link(i))
      OBVIOUS
    <2>2. Seen(l, c, i) = IF Dangling \in ToSet(w) THEN Lost ELSE w
      <3>1. w = IF i \in Fwd THEN Walk(l, Inc(l, c), Inc) ELSE Walk(l, Dec(l, c), Dec)
        BY <2>1, LinkIs DEF Way
      <3>2. QED
        BY <1>2, <3>1 DEF Seen
    <2>3. c \in Nodes
      BY <1>2
    <2>4. CASE Strays(l, c, Link(i))
      <3>1. w = <<Dangling>> /\ i \in Rev /\ ~l.node[c].valid
        BY <2>1, <2>3, <2>4, LinkIs, WayTyped
      <3>2. Dangling \in ToSet(w)
        BY <3>1 DEF ToSet
      <3>3. QED
        BY <1>2, <2>2, <2>3, <2>4, <3>1, <3>2 DEF AheadIn
    <2>5. CASE ~Strays(l, c, Link(i))
      <3>1. w \in Seq(Nodes)
        BY <2>1, <2>3, <2>5, LinkIs, WayTyped
      <3>2. Dangling \notin ToSet(w) /\ w # Lost
        BY <3>1, NodesAssumption, ItersAssumption DEF ToSet
      <3>3. QED
        BY <1>2, <2>1, <2>2, <2>5, <3>2 DEF AheadIn
    <2>6. QED
      BY <2>4, <2>5
  <1>3. QED
    BY <1>1, <1>2

(* What the iterators have ahead of them, before a step and after it.      *)
LEMMA WaysAre ==
  ASSUME NEW i \in Iters
  PROVE  /\ IInv => WaysOn(i) = AheadIn(list, at[i], Link(i))
         /\ IInv' => WaysOn(i)' = AheadIn(list', at'[i], Link(i))
  <1>1. ASSUME IInv PROVE WaysOn(i) = AheadIn(list, at[i], Link(i))
    <2>1. WaysOn(i) = Seen(list, at[i], i)
      BY DEF WaysOn, Seen
    <2>2. PICK l, c : l = list /\ c = at[i]
      OBVIOUS
    <2>3. Sound(l) /\ c \in Nodes \cup {Null}
      BY <1>1, <2>2 DEF IInv
    <2>4. Seen(l, c, i) = AheadIn(l, c, Link(i))
      BY <2>3, SeenIs
    <2>5. QED
      BY <2>1, <2>2, <2>4
  <1>2. ASSUME IInv' PROVE WaysOn(i)' = AheadIn(list', at'[i], Link(i))
    <2>1. WaysOn(i)' = Seen(list', at'[i], i)
      BY DEF WaysOn, Seen
    <2>2. PICK l, c : l = list' /\ c = at'[i]
      OBVIOUS
    <2>3. Sound(l) /\ c \in Nodes \cup {Null}
      BY <1>2, <2>2 DEF IInv
    <2>4. Seen(l, c, i) = AheadIn(l, c, Link(i))
      BY <2>3, SeenIs
    <2>5. QED
      BY <2>1, <2>2, <2>4
  <1>3. QED
    BY <1>1, <1>2

(* An iterator that stays has s ahead of it, or is lost.                   *)
LEMMA AheadStep ==
  ASSUME IInv, IInv', NEW i \in Iters, at'[i] = at[i], NEW s, at[i] = Null => s = <<>>,
         at[i] # Null => HasAhead(list, list', at[i], Link(i), s)
  PROVE  Cursors!Ahead(i, s)
  <1>1. PICK l, m, c : l = list /\ m = list' /\ c = at[i]
    OBVIOUS
  <1>2. Sound(l) /\ Sound(m) /\ c \in Nodes \cup {Null}
    BY <1>1 DEF IInv
  <1>3. WaysOn(i) = AheadIn(l, c, Link(i)) /\ WaysOn(i)' = AheadIn(m, c, Link(i))
    BY <1>1, WaysAre
  <1>4. CASE c = Null
    <2>1. WaysOn(i) = <<>> /\ WaysOn(i)' = <<>> /\ <<>> # Lost
      BY <1>3, <1>4, EmptyNotLost DEF AheadIn
    <2>2. s = <<>>
      BY <1>1, <1>4
    <2>3. QED
      BY <2>1, <2>2 DEF Cursors!Ahead
  <1>5. CASE c # Null /\ Strays(m, c, Link(i))
    <2>1. WaysOn(i)' = Lost
      BY <1>3, <1>5 DEF AheadIn
    <2>2. i \in Rev /\ ~m.node[c].valid
      BY <1>2, <1>5, LinkIs, WayTyped
    <2>3. c \notin ToSet(Listed(m))
      BY <1>2, <2>2, ListedElements
    <2>4. at[i] \notin Cursors!ToSet(Listed(list))'
      <3>1. Cursors!ToSet(Listed(m)) = ToSet(Listed(m))
        BY InstanceOperators
      <3>2. QED
        BY <1>1, <2>3, <3>1
    <2>5. QED
      BY <2>1, <2>2, <2>4 DEF Cursors!Ahead
  <1>6. CASE c # Null /\ ~Strays(m, c, Link(i))
    <2>1. ~Strays(l, c, Link(i)) /\ Way(m, c, Link(i)) = s
      BY <1>1, <1>6 DEF HasAhead
    <2>2. WaysOn(i)' = s
      BY <1>3, <1>6, <2>1 DEF AheadIn
    <2>3. WaysOn(i) # Lost
      BY <1>2, <1>3, <2>1, SeenIs
    <2>4. QED
      BY <2>2, <2>3 DEF Cursors!Ahead
  <1>7. QED
    BY <1>4, <1>5, <1>6

(* What the deletions after an operation leave of it.                      *)
LEMMA BecomesWays ==
  ASSUME IInv, NEW m, Sound(m), Live(list) \subseteq Live(m), Becomes(m)
  PROVE  /\ at' = at /\ Listed(list') = Listed(m)
         /\ \A i \in Iters : at[i] # Null =>
              /\ at[i] \in Nodes /\ at[i] \in Live(list) /\ at[i] \in Live(m) /\ at[i] \in Live(list')
              /\ list'.node[at[i]].valid = m.node[at[i]].valid
              /\ \A link \in Links : HasAhead(m, list', at[i], link, Way(m, at[i], link))
  <1>1. PICK d : d = Collect(m, Holding)
    OBVIOUS
  <1>2. list' = d /\ at' = at
    BY <1>1 DEF Becomes
  <1>3. Holding \cap Live(m) \subseteq Live(d)
    BY <1>1, CollectSound
  <1>4. /\ Listed(d) = Listed(m)
        /\ \A c \in Live(d) : d.node[c].valid = m.node[c].valid
        /\ \A c \in Live(d), link \in Links : HasAhead(m, d, c, link, Way(m, c, link))
    BY <1>1, CollectWays
  <1>5. ASSUME NEW i \in Iters, at[i] # Null
        PROVE  at[i] \in Nodes /\ at[i] \in Live(list) /\ at[i] \in Live(m) /\ at[i] \in Live(d)
    BY <1>3, <1>5 DEF IInv, Stand, Holding
  <1>6. QED
    BY <1>2, <1>4, <1>5

LEMMA StepsStay ==
  ASSUME IInv, IInv'
  PROVE  /\ DOMAIN [i \in Iters |-> WaysOn(i)]' = DOMAIN [i \in Iters |-> WaysOn(i)]
         /\ \A i \in Iters : [j \in Iters |-> WaysOn(j)][i] = WaysOn(i)
         /\ \A i \in Iters : [j \in Iters |-> WaysOn(j)]'[i] = WaysOn(i)'
         /\ DOMAIN at = Iters
  <1>1. DOMAIN [i \in Iters |-> WaysOn(i)]' = DOMAIN [i \in Iters |-> WaysOn(i)]
    OBVIOUS
  <1>2. \A i \in Iters : [j \in Iters |-> WaysOn(j)][i] = WaysOn(i)
    OBVIOUS
  <1>3. \A i \in Iters : [j \in Iters |-> WaysOn(j)]'[i] = WaysOn(i)'
    OBVIOUS
  <1>4. DOMAIN at = Iters
    BY DEF IInv
  <1>5. QED
    BY <1>1, <1>2, <1>3, <1>4

LEMMA AddLastImplements ==
  ASSUME IInv, IInv', NEW v \in Values, AddLast(v)
  PROVE  \E e \in Nodes : Cursors!InsertLast(e)
  <1>1. PICK m, n : m = PushBack(list, v) /\ n = Allocate(list)
    OBVIOUS
  <1>2. Sound(list) /\ Unallocated(list) # {} /\ Becomes(m)
    BY <1>1, RoomForOne DEF AddLast, IInv
  <1>3. PICK l : l = list
    OBVIOUS
  <1>4. n \in Nodes \ Live(l) /\ AddsLast(l, m, n, v) /\ Sound(l)
    BY <1>1, <1>2, <1>3, FreshNode, PushBackAdds
  <1>5. Sound(m) /\ Live(l) \subseteq Live(m)
    BY <1>4, AddsLastSound
  <1>6. /\ Listed(m) = Append(Listed(l), n)
        /\ \A c \in Live(l) : MayMeet(l, m, c, "next", n) /\ HasAhead(l, m, c, "prev", Way(l, c, "prev"))
    BY <1>4, AddsLastWays
  <1>7. n \notin ToSet(Listed(l))
    BY <1>4, ListedElements DEF Sound, Intact
  <1>8. /\ at' = at /\ Listed(list') = Listed(m)
        /\ \A i \in Iters : at[i] # Null =>
             /\ at[i] \in Nodes /\ at[i] \in Live(l)
             /\ \A link \in Links : HasAhead(m, list', at[i], link, Way(m, at[i], link))
    BY <1>2, <1>3, <1>5, BecomesWays
  <1>9. ASSUME NEW i \in Iters \ Fwd PROVE Cursors!Ahead(i, WaysOn(i))
    <2>1. PICK s : s = WaysOn(i)
      OBVIOUS
    <2>2. s = AheadIn(l, at[i], "prev") /\ Link(i) = "prev" /\ i \in Rev /\ i \in Iters
      BY <1>3, <2>1, WaysAre, LinkIs DEF Iters
    <2>3. at[i] = Null => s = <<>>
      BY <2>2 DEF AheadIn
    <2>4. ASSUME at[i] # Null PROVE HasAhead(list, list', at[i], Link(i), s)
      <3>1. HasAhead(l, m, at[i], "prev", Way(l, at[i], "prev")) /\ HasAhead(m, list', at[i], "prev", Way(m, at[i], "prev"))
        BY <1>6, <1>8, <2>2, <2>4 DEF Links
      <3>2. QED
        BY <1>3, <2>2, <2>4, <3>1 DEF HasAhead, AheadIn
    <2>5. Cursors!Ahead(i, s)
      BY <1>8, <2>2, <2>3, <2>4, AheadStep
    <2>6. QED
      BY <2>1, <2>5
  <1>10. ASSUME NEW i \in Fwd
         PROVE  \/ at[i] # Null /\ WaysOn(i) # Lost /\ Cursors!Ahead(i, Append(WaysOn(i), n))
                \/ at[i] \notin ToSet(Listed(l)) /\ Cursors!Ahead(i, WaysOn(i))
    <2>1. i \in Iters /\ Link(i) = "next" /\ "next" \in Links
      BY LinkIs DEF Iters, Links
    <2>2. WaysOn(i) = AheadIn(l, at[i], "next")
      BY <1>3, <2>1, WaysAre
    <2>3. CASE at[i] = Null
      <3>1. PICK s : s = <<>>
        OBVIOUS
      <3>2. WaysOn(i) = s
        BY <2>2, <2>3, <3>1 DEF AheadIn
      <3>3. Cursors!Ahead(i, s)
        BY <1>8, <2>1, <2>3, <3>1, AheadStep
      <3>4. at[i] \notin ToSet(Listed(l))
        BY <1>4, <2>3, ListedElements, NodesAssumption
      <3>5. QED
        BY <3>2, <3>3, <3>4
    <2>4. CASE at[i] # Null
      <3>1. PICK d, c : d = list' /\ c = at[i]
        OBVIOUS
      <3>2. Sound(d) /\ c \in Nodes /\ c \in Live(l)
        BY <1>8, <2>1, <2>4, <3>1 DEF IInv
      <3>3. ~Strays(d, c, "next")
        BY <2>1, <3>2, WayTyped
      <3>4. ~Strays(m, c, "next") /\ Way(d, c, "next") = Way(m, c, "next")
        BY <1>8, <2>1, <2>4, <3>1, <3>3 DEF HasAhead
      <3>5. /\ ~Strays(l, c, "next")
            /\ \/ Way(m, c, "next") = Append(Way(l, c, "next"), n)
               \/ ~l.node[c].valid /\ Way(m, c, "next") = Way(l, c, "next")
        BY <1>6, <3>2, <3>4 DEF MayMeet
      <3>6. WaysOn(i) = Way(l, c, "next")
        BY <2>2, <2>4, <3>1, <3>5 DEF AheadIn
      <3>7. WaysOn(i) # Lost
        <4>1. Way(l, c, "next") \in Seq(Nodes)
          BY <1>4, <2>1, <3>2, <3>5, WayTyped
        <4>2. QED
          BY <3>6, <4>1, ItersAssumption
      <3>8. PICK s : s = Way(d, c, "next")
        OBVIOUS
      <3>9. Cursors!Ahead(i, s)
        <4>1. HasAhead(list, list', at[i], Link(i), s)
          BY <1>3, <2>1, <3>1, <3>5, <3>8 DEF HasAhead
        <4>2. QED
          BY <1>8, <2>1, <2>4, <4>1, AheadStep
      <3>10. CASE Way(m, c, "next") = Append(Way(l, c, "next"), n)
        <4>1. s = Append(WaysOn(i), n)
          BY <3>4, <3>6, <3>8, <3>10
        <4>2. QED
          BY <2>4, <3>7, <3>9, <4>1
      <3>11. CASE ~l.node[c].valid /\ Way(m, c, "next") = Way(l, c, "next")
        <4>1. s = WaysOn(i)
          BY <3>4, <3>6, <3>8, <3>11
        <4>2. c \notin ToSet(Listed(l))
          BY <1>4, <3>11, ListedElements
        <4>3. QED
          BY <3>1, <3>9, <4>1, <4>2
      <3>12. QED
        BY <3>5, <3>10, <3>11
    <2>5. QED
      BY <2>3, <2>4
  <1>11. Cursors!InsertLast(n)
    <2>1. Listed(list)' = Append(Listed(list), n)
      BY <1>3, <1>6, <1>8
    <2>2. n \notin Cursors!ToSet(Listed(list))
      BY <1>3, <1>7, InstanceOperators
    <2>3. Cursors!AllAhead((Fwd \cup Rev) \ Fwd)
      BY <1>9, StepsStay DEF Cursors!AllAhead, Iters
    <2>4. \A i \in Fwd : \/ at[i] # Null /\ WaysOn(i) # Lost /\ Cursors!Ahead(i, Append(WaysOn(i), n))
                         \/ at[i] \notin Cursors!ToSet(Listed(list)) /\ Cursors!Ahead(i, WaysOn(i))
      BY <1>3, <1>10, InstanceOperators
    <2>5. QED
      BY <1>8, <2>1, <2>2, <2>3, <2>4, StepsStay DEF Cursors!InsertLast, Cursors!Meets, Iters
  <1>12. QED
    BY <1>4, <1>11

LEMMA AddFirstImplements ==
  ASSUME IInv, IInv', NEW v \in Values, AddFirst(v)
  PROVE  \E e \in Nodes : Cursors!InsertFirst(e)
  <1>1. PICK m, n : m = PushFront(list, v) /\ n = Allocate(list)
    OBVIOUS
  <1>2. Sound(list) /\ Unallocated(list) # {} /\ Becomes(m)
    BY <1>1, RoomForOne DEF AddFirst, IInv
  <1>3. PICK l : l = list
    OBVIOUS
  <1>4. n \in Nodes \ Live(l) /\ AddsFirst(l, m, n, v) /\ Sound(l)
    BY <1>1, <1>2, <1>3, FreshNode, PushFrontAdds
  <1>5. Sound(m) /\ Live(l) \subseteq Live(m)
    BY <1>4, AddsFirstSound
  <1>6. /\ Listed(m) = <<n>> \o Listed(l)
        /\ \A c \in Live(l) : HasAhead(l, m, c, "next", Way(l, c, "next")) /\ MayMeet(l, m, c, "prev", n)
    BY <1>4, AddsFirstWays
  <1>7. n \notin ToSet(Listed(l))
    BY <1>4, ListedElements DEF Sound, Intact
  <1>8. /\ at' = at /\ Listed(list') = Listed(m)
        /\ \A i \in Iters : at[i] # Null =>
             /\ at[i] \in Nodes /\ at[i] \in Live(l)
             /\ \A link \in Links : HasAhead(m, list', at[i], link, Way(m, at[i], link))
    BY <1>2, <1>3, <1>5, BecomesWays
  <1>9. ASSUME NEW i \in Iters \ Rev PROVE Cursors!Ahead(i, WaysOn(i))
    <2>1. PICK s : s = WaysOn(i)
      OBVIOUS
    <2>2. s = AheadIn(l, at[i], "next") /\ Link(i) = "next" /\ i \in Iters
      BY <1>3, <2>1, WaysAre, LinkIs DEF Iters
    <2>3. at[i] = Null => s = <<>>
      BY <2>2 DEF AheadIn
    <2>4. ASSUME at[i] # Null PROVE HasAhead(list, list', at[i], Link(i), s)
      <3>1. HasAhead(l, m, at[i], "next", Way(l, at[i], "next")) /\ HasAhead(m, list', at[i], "next", Way(m, at[i], "next"))
        BY <1>6, <1>8, <2>2, <2>4 DEF Links
      <3>2. QED
        BY <1>3, <2>2, <2>4, <3>1 DEF HasAhead, AheadIn
    <2>5. Cursors!Ahead(i, s)
      BY <1>8, <2>2, <2>3, <2>4, AheadStep
    <2>6. QED
      BY <2>1, <2>5
  <1>10. ASSUME NEW i \in Rev
         PROVE  \/ at[i] # Null /\ WaysOn(i) # Lost /\ Cursors!Ahead(i, Append(WaysOn(i), n))
                \/ at[i] \notin ToSet(Listed(l)) /\ Cursors!Ahead(i, WaysOn(i))
    <2>1. i \in Iters /\ Link(i) = "prev" /\ "prev" \in Links
      BY LinkIs DEF Iters, Links
    <2>2. WaysOn(i) = AheadIn(l, at[i], "prev")
      BY <1>3, <2>1, WaysAre
    <2>3. CASE at[i] = Null
      <3>1. PICK s : s = <<>>
        OBVIOUS
      <3>2. WaysOn(i) = s
        BY <2>2, <2>3, <3>1 DEF AheadIn
      <3>3. Cursors!Ahead(i, s)
        BY <1>8, <2>1, <2>3, <3>1, AheadStep
      <3>4. at[i] \notin ToSet(Listed(l))
        BY <1>4, <2>3, ListedElements, NodesAssumption
      <3>5. QED
        BY <3>2, <3>3, <3>4
    <2>4. CASE at[i] # Null
      <3>1. PICK d, c : d = list' /\ c = at[i]
        OBVIOUS
      <3>2. Sound(d) /\ c \in Nodes /\ c \in Live(l)
        BY <1>8, <2>1, <2>4, <3>1 DEF IInv
      <3>3. /\ ~Strays(d, c, "prev") => ~Strays(m, c, "prev") /\ Way(d, c, "prev") = Way(m, c, "prev")
            /\ MayMeet(l, m, c, "prev", n)
        BY <1>6, <1>8, <2>1, <2>4, <3>1, <3>2 DEF HasAhead
      <3>4. CASE Strays(l, c, "prev")
        <4>1. PICK s : s = WaysOn(i)
          OBVIOUS
        <4>2. ~l.node[c].valid
          BY <1>4, <2>1, <3>2, <3>4, WayTyped
        <4>3. c \notin ToSet(Listed(l))
          BY <1>4, <4>2, ListedElements
        <4>4. Strays(d, c, "prev")
          BY <3>3, <3>4 DEF MayMeet
        <4>5. HasAhead(list, list', at[i], Link(i), s)
          BY <2>1, <3>1, <4>4 DEF HasAhead
        <4>6. Cursors!Ahead(i, s)
          BY <1>8, <2>1, <2>4, <4>5, AheadStep
        <4>7. QED
          BY <3>1, <4>1, <4>3, <4>6
      <3>5. CASE ~Strays(l, c, "prev")
        <4>1. WaysOn(i) = Way(l, c, "prev")
          BY <2>2, <2>4, <3>1, <3>5 DEF AheadIn
        <4>2. WaysOn(i) # Lost
          <5>1. Way(l, c, "prev") \in Seq(Nodes)
            BY <1>4, <2>1, <3>2, <3>5, WayTyped
          <5>2. QED
            BY <4>1, <5>1, ItersAssumption
        <4>3. ASSUME NEW s, ~Strays(d, c, "prev") => Way(m, c, "prev") = s
              PROVE  Cursors!Ahead(i, s)
          <5>1. HasAhead(list, list', at[i], Link(i), s)
            BY <1>3, <2>1, <3>1, <3>3, <3>5, <4>3 DEF HasAhead
          <5>2. QED
            BY <1>8, <2>1, <2>4, <5>1, AheadStep
        <4>4. CASE ~Strays(d, c, "prev") => Way(m, c, "prev") = Append(Way(l, c, "prev"), n)
          <5>1. PICK s : s = Append(WaysOn(i), n)
            OBVIOUS
          <5>2. Cursors!Ahead(i, s)
            BY <4>1, <4>3, <4>4, <5>1
          <5>3. QED
            BY <2>4, <4>2, <5>1, <5>2
        <4>5. CASE ~l.node[c].valid /\ Way(m, c, "prev") = Way(l, c, "prev")
          <5>1. PICK s : s = WaysOn(i)
            OBVIOUS
          <5>2. Cursors!Ahead(i, s)
            BY <4>1, <4>3, <4>5, <5>1
          <5>3. c \notin ToSet(Listed(l))
            BY <1>4, <4>5, ListedElements
          <5>4. QED
            BY <3>1, <5>1, <5>2, <5>3
        <4>6. QED
          BY <3>3, <4>4, <4>5 DEF MayMeet
      <3>6. QED
        BY <3>4, <3>5
    <2>5. QED
      BY <2>3, <2>4
  <1>11. Cursors!InsertFirst(n)
    <2>1. Listed(list)' = <<n>> \o Listed(list)
      BY <1>3, <1>6, <1>8
    <2>2. n \notin Cursors!ToSet(Listed(list))
      BY <1>3, <1>7, InstanceOperators
    <2>3. Cursors!AllAhead((Fwd \cup Rev) \ Rev)
      BY <1>9, StepsStay DEF Cursors!AllAhead, Iters
    <2>4. \A i \in Rev : \/ at[i] # Null /\ WaysOn(i) # Lost /\ Cursors!Ahead(i, Append(WaysOn(i), n))
                         \/ at[i] \notin Cursors!ToSet(Listed(list)) /\ Cursors!Ahead(i, WaysOn(i))
      BY <1>3, <1>10, InstanceOperators
    <2>5. QED
      BY <1>8, <2>1, <2>2, <2>3, <2>4, StepsStay DEF Cursors!InsertFirst, Cursors!Meets, Iters
  <1>12. QED
    BY <1>4, <1>11

(* remove() and erase().                                                   *)
LEMMA RemoveImplements ==
  ASSUME IInv, IInv', NEW n \in Nodes, list.node[n].valid, Becomes(RemoveNode(list, n))
  PROVE  \E e \in Cursors!ToSet(Listed(list)) : Cursors!TakeOut(e)
  <1>1. PICK l, m : l = list /\ m = RemoveNode(list, n)
    OBVIOUS
  <1>2. Sound(l) /\ l.node[n].valid /\ Becomes(m)
    BY <1>1 DEF IInv
  <1>3. TakesOut(l, m, n)
    BY <1>1, <1>2, RemoveNodeTakesOut
  <1>4. Sound(m) /\ Live(m) = Live(l)
    BY <1>2, <1>3, TakesOutSound
  <1>5. /\ Listed(m) = RemoveFirst(Listed(l), n)
        /\ \A c \in Live(l), link \in Links : HasAhead(l, m, c, link, RemoveFirst(Way(l, c, link), n))
    BY <1>2, <1>3, TakesOutWays
  <1>6. /\ at' = at /\ Listed(list') = Listed(m)
        /\ \A i \in Iters : at[i] # Null =>
             /\ at[i] \in Nodes /\ at[i] \in Live(l)
             /\ \A link \in Links : HasAhead(m, list', at[i], link, Way(m, at[i], link))
    BY <1>1, <1>2, <1>4, BecomesWays
  <1>7. ASSUME NEW i \in Iters PROVE Cursors!Ahead(i, RemoveFirst(WaysOn(i), n))
    <2>1. PICK s : s = RemoveFirst(WaysOn(i), n)
      OBVIOUS
    <2>2. WaysOn(i) = AheadIn(l, at[i], Link(i)) /\ Link(i) \in Links
      BY <1>1, WaysAre, LinkIs
    <2>3. at[i] = Null => s = <<>>
      <3>1. RemoveFirst(<<>>, n) = <<>>
        <4>1. PICK e : e = <<>>
          OBVIOUS
        <4>2. e \in Seq(Nodes) /\ \A j \in 1..Len(e) : e[j] # n
          BY <4>1
        <4>3. RemoveFirst(e, n) = e
          BY <4>2, RemoveFirstIs
        <4>4. QED
          BY <4>1, <4>3
      <3>2. QED
        BY <2>1, <2>2, <3>1 DEF AheadIn
    <2>4. ASSUME at[i] # Null PROVE HasAhead(list, list', at[i], Link(i), s)
      <3>1. HasAhead(l, m, at[i], Link(i), RemoveFirst(Way(l, at[i], Link(i)), n))
        BY <1>5, <1>6, <2>2, <2>4
      <3>2. HasAhead(m, list', at[i], Link(i), Way(m, at[i], Link(i)))
        BY <1>6, <2>2, <2>4
      <3>3. QED
        BY <1>1, <2>1, <2>2, <2>4, <3>1, <3>2 DEF HasAhead, AheadIn
    <2>5. Cursors!Ahead(i, s)
      BY <1>6, <2>3, <2>4, AheadStep
    <2>6. QED
      BY <2>1, <2>5
  <1>8. n \in Cursors!ToSet(Listed(list))
    BY <1>1, <1>2, ListedElements, InstanceOperators
  <1>9. Cursors!TakeOut(n)
    <2>1. Listed(list)' = Cursors!RemoveFirst(Listed(list), n)
      BY <1>1, <1>5, <1>6, InstanceOperators
    <2>2. \A i \in Fwd \cup Rev : Cursors!Ahead(i, Cursors!RemoveFirst([j \in Iters |-> WaysOn(j)][i], n))
      <3>1. ASSUME NEW i \in Fwd \cup Rev
            PROVE  Cursors!Ahead(i, Cursors!RemoveFirst([j \in Iters |-> WaysOn(j)][i], n))
        <4>1. PICK s : s = RemoveFirst(WaysOn(i), n)
          OBVIOUS
        <4>2. Cursors!Ahead(i, s)
          BY <1>7, <4>1 DEF Iters
        <4>3. s = Cursors!RemoveFirst([j \in Iters |-> WaysOn(j)][i], n)
          BY <4>1, StepsStay, InstanceOperators DEF Iters
        <4>4. QED
          BY <4>2, <4>3
      <3>2. QED
        BY <3>1
    <2>3. QED
      BY <1>6, <2>1, <2>2, StepsStay DEF Cursors!TakeOut
  <1>10. QED
    BY <1>8, <1>9

(* empty() and operator=.                                                  *)
LEMMA RenewStep ==
  ASSUME IInv, IInv', at' = at,
         \A i \in Iters : at[i] # Null => HasAhead(list, list', at[i], Link(i), <<>>)
  PROVE  Cursors!Renew
  <1>1. ASSUME NEW i \in Fwd \cup Rev PROVE Cursors!Ahead(i, <<>>)
    <2>1. PICK s : s = <<>>
      OBVIOUS
    <2>2. at'[i] = at[i] /\ i \in Iters
      BY DEF Iters
    <2>3. at[i] # Null => HasAhead(list, list', at[i], Link(i), s)
      BY <2>1, <2>2
    <2>4. Cursors!Ahead(i, s)
      BY <2>1, <2>2, <2>3, AheadStep
    <2>5. QED
      BY <2>1, <2>4
  <1>2. Cursors!ToSet(Listed(list)') \subseteq Nodes /\ Cursors!IsInjective(Listed(list)')
    <2>1. PICK m : m = list'
      OBVIOUS
    <2>2. Sound(m)
      BY <2>1 DEF IInv
    <2>3. \A n : n \in ToSet(Listed(m)) => n \in Nodes
      BY <2>2, ListedElements
    <2>4. IsInjective(Listed(m))
      BY <2>2, ListedElements
    <2>5. Listed(list)' = Listed(m)
      BY <2>1
    <2>6. QED
      BY <2>3, <2>4, <2>5, InstanceOperators
  <1>3. QED
    BY <1>1, <1>2, StepsStay DEF Cursors!Renew

LEMMA EmptyImplements ==
  ASSUME IInv, IInv', Empty
  PROVE  Cursors!Renew
  <1>1. PICK l, m : l = list /\ m = Clear(list)
    OBVIOUS
  <1>2. Sound(l) /\ Becomes(m)
    BY <1>1 DEF IInv, Empty
  <1>3. Empties(l, m)
    BY <1>1, <1>2, ClearEmpties
  <1>4. Sound(m) /\ Live(m) = Live(l)
    BY <1>2, <1>3, EmptiesSound
  <1>5. \A c \in Live(l), link \in Links : HasAhead(l, m, c, link, <<>>)
    BY <1>2, <1>3, EmptiesWays
  <1>6. /\ at' = at
        /\ \A i \in Iters : at[i] # Null =>
             /\ at[i] \in Live(l)
             /\ \A link \in Links : HasAhead(m, list', at[i], link, Way(m, at[i], link))
    BY <1>1, <1>2, <1>4, BecomesWays
  <1>7. ASSUME NEW i \in Iters, at[i] # Null PROVE HasAhead(list, list', at[i], Link(i), <<>>)
    <2>1. HasAhead(l, m, at[i], Link(i), <<>>) /\ HasAhead(m, list', at[i], Link(i), Way(m, at[i], Link(i)))
      BY <1>5, <1>6, <1>7, LinkIs
    <2>2. QED
      BY <1>1, <2>1 DEF HasAhead
  <1>8. QED
    BY <1>6, <1>7, RenewStep

LEMMA AssignImplements ==
  ASSUME IInv, IInv', NEW w \in Contents, Assign(w)
  PROVE  Cursors!Renew
  <1>1. PICK l, e, d : l = list /\ e = Clear(list) /\ d = Collect(e, Holding)
    OBVIOUS
  <1>2. PICK m : m = PushAll(d, w)
    OBVIOUS
  <1>3. Sound(l) /\ Cardinality(Unallocated(d)) >= Len(w) /\ list' = m /\ at' = at
    BY <1>1, <1>2 DEF IInv, Assign
  <1>4. Empties(l, e)
    BY <1>1, <1>3, ClearEmpties
  <1>5. /\ Sound(e) /\ Live(e) = Live(l) /\ Listed(e) = <<>>
        /\ \A c \in Live(l), link \in Links : HasAhead(l, e, c, link, <<>>)
    BY <1>3, <1>4, EmptiesSound, EmptiesWays
  <1>6. Holding \cap Live(e) \subseteq Live(d)
    BY <1>1, <1>5, CollectSound
  <1>7. /\ Sound(d) /\ Listed(d) = <<>>
        /\ \A c \in Live(d), link \in Links : HasAhead(e, d, c, link, Way(e, c, link))
    BY <1>1, <1>5, CollectWays
  <1>8. w \in Seq(Values)
    BY ContentsAssumption
  <1>9. \A c \in Live(d), link \in Links : HasAhead(d, m, c, link, <<>>)
    BY <1>2, <1>3, <1>7, <1>8, PushAllWays
  <1>10. ASSUME NEW i \in Iters, at[i] # Null PROVE HasAhead(list, list', at[i], Link(i), <<>>)
    <2>1. at[i] \in Live(l)
      BY <1>1, <1>10 DEF IInv, Stand
    <2>2. at[i] \in Live(d)
      BY <1>5, <1>6, <2>1 DEF Holding
    <2>3. /\ HasAhead(l, e, at[i], Link(i), <<>>)
          /\ HasAhead(e, d, at[i], Link(i), Way(e, at[i], Link(i)))
          /\ HasAhead(d, m, at[i], Link(i), <<>>)
      BY <1>5, <1>7, <1>9, <2>1, <2>2, LinkIs
    <2>4. QED
      BY <1>1, <1>3, <2>3 DEF HasAhead
  <1>11. QED
    BY <1>3, <1>10, RenewStep

(* An iterator moves to the k-th element in the direction it goes.         *)
LEMMA StandStep ==
  ASSUME IInv, IInv', NEW i \in Iters, NEW u, u = Line(Listed(list), Link(i)), NEW k \in 1..(Len(u) + 1),
         Moves(i, At(u, k)), NEW w, w = From(u, k)
  PROVE  Cursors!Stand(i, w)
  <1>1. PICK l, H : l = list /\ H = {at'[j] : j \in Iters}
    OBVIOUS
  <1>2. PICK d : d = Collect(l, H)
    OBVIOUS
  <1>3. list' = d /\ at' = [at EXCEPT ![i] = At(u, k)] /\ Sound(l) /\ Sound(d)
    BY <1>1, <1>2 DEF Moves, IInv
  <1>4. /\ Listed(d) = Listed(l)
        /\ \A c \in Live(d), link \in Links : HasAhead(l, d, c, link, Way(l, c, link))
    BY <1>2, <1>3, CollectWays
  <1>5. at'[i] = At(u, k) /\ \A j \in Iters \ {i} : at'[j] = at[j]
    BY <1>3 DEF IInv
  <1>6. /\ u \in Seq(Nodes) /\ Len(u) \in Nat
        /\ \A n \in 1..Len(u) : /\ u[n] \in Nodes /\ ~Strays(d, u[n], Link(i))
                                /\ Way(d, u[n], Link(i)) = From(u, n + 1)
    <2>1. u = Line(Listed(d), Link(i)) /\ Link(i) \in Links
      BY <1>1, <1>4, LinkIs
    <2>2. QED
      BY <1>3, <2>1, WayOfElement
  <1>7. /\ w = <<>> <=> k = Len(u) + 1
        /\ k # Len(u) + 1 => k \in 1..Len(u) /\ Head(w) = u[k] /\ Tail(w) = From(u, k + 1)
    BY <1>6, FromSplits
  <1>8. Cursors!FirstOf(w) = At(u, k)
    BY <1>6, <1>7 DEF At, Cursors!FirstOf
  <1>9. WaysOn(i)' = Cursors!RestOf(w)
    <2>1. WaysOn(i)' = AheadIn(d, At(u, k), Link(i))
      BY <1>3, <1>5, WaysAre
    <2>2. CASE k = Len(u) + 1
      <3>1. At(u, k) = Null /\ w = <<>>
        BY <1>6, <1>7, <2>2 DEF At
      <3>2. QED
        BY <2>1, <3>1 DEF AheadIn, Cursors!RestOf
    <2>3. CASE k # Len(u) + 1
      <3>1. k \in 1..Len(u) /\ w # <<>> /\ Tail(w) = From(u, k + 1)
        BY <1>7, <2>3
      <3>2. At(u, k) = u[k] /\ u[k] # Null /\ ~Strays(d, u[k], Link(i)) /\ Way(d, u[k], Link(i)) = Tail(w)
        BY <1>6, <3>1, NodesAssumption DEF At
      <3>3. QED
        BY <2>1, <3>1, <3>2 DEF AheadIn, Cursors!RestOf
    <2>4. QED
      BY <2>2, <2>3
  <1>10. ASSUME NEW j \in (Fwd \cup Rev) \ {i} PROVE Cursors!Ahead(j, WaysOn(j))
    <2>1. PICK s : s = WaysOn(j)
      OBVIOUS
    <2>2. j \in Iters /\ at'[j] = at[j] /\ Link(j) \in Links /\ s = AheadIn(l, at[j], Link(j))
      BY <1>1, <1>5, <2>1, WaysAre, LinkIs DEF Iters
    <2>3. at[j] = Null => s = <<>>
      BY <2>2 DEF AheadIn
    <2>4. ASSUME at[j] # Null PROVE HasAhead(list, list', at[j], Link(j), s)
      <3>1. at[j] \in Live(d)
        BY <1>3, <2>2, <2>4 DEF IInv, Stand
      <3>2. HasAhead(l, d, at[j], Link(j), Way(l, at[j], Link(j)))
        BY <1>4, <2>2, <3>1
      <3>3. QED
        BY <1>1, <1>3, <2>2, <2>4, <3>2 DEF HasAhead, AheadIn
    <2>5. Cursors!Ahead(j, s)
      BY <2>2, <2>3, <2>4, AheadStep
    <2>6. QED
      BY <2>1, <2>5
  <1>11. Listed(list)' = Listed(list)
    BY <1>1, <1>3, <1>4
  <1>12. Cursors!AllAhead((Fwd \cup Rev) \ {i})
    BY <1>10, StepsStay DEF Cursors!AllAhead, Iters
  <1>13. at' = [at EXCEPT ![i] = Cursors!FirstOf(w)]
    BY <1>3, <1>8
  <1>14. [j \in Iters |-> WaysOn(j)]'[i] = Cursors!RestOf(w)
    BY <1>9, StepsStay
  <1>15. QED
    BY <1>11, <1>12, <1>13, <1>14 DEF Cursors!Stand

LEMMA BeginImplements ==
  ASSUME IInv, IInv', NEW i \in Iters, Begin(i)
  PROVE  Cursors!Begin(i)
  <1>1. PICK l, u : l = list /\ u = Line(Listed(list), Link(i))
    OBVIOUS
  <1>2. Sound(l) /\ Link(i) \in Links
    BY <1>1, LinkIs DEF IInv
  <1>3. /\ u \in Seq(Nodes) /\ Len(u) \in Nat
        /\ Link(i) = "next" => l.first = At(u, 1)
        /\ Link(i) = "prev" => l.last = At(u, 1)
    BY <1>1, <1>2, WayOfElement
  <1>4. Moves(i, At(u, 1))
    BY <1>1, <1>3, LinkIs DEF Begin, Iters
  <1>5. PICK w : w = From(u, 1)
    OBVIOUS
  <1>6. 1 \in 1..(Len(u) + 1)
    BY <1>3
  <1>7. w = u
    BY <1>3, <1>5, <1>6, FromSplits
  <1>8. Cursors!Stand(i, w)
    BY <1>1, <1>4, <1>5, <1>6, StandStep
  <1>9. w = IF i \in Fwd THEN Listed(list) ELSE Cursors!Reverse(Listed(list))
    BY <1>1, <1>7, LinkIs, InstanceOperators DEF Line
  <1>10. QED
    BY <1>8, <1>9 DEF Cursors!Begin

LEMMA AdvanceImplements ==
  ASSUME IInv, IInv', NEW i \in Iters, Advance(i)
  PROVE  Cursors!Step(i)
  <1>1. PICK l, c, u : l = list /\ c = at[i] /\ u = Line(Listed(list), Link(i))
    OBVIOUS
  <1>2. Sound(l) /\ Link(i) \in Links /\ c \in Nodes /\ c # Null
    BY <1>1, LinkIs, NodesAssumption DEF IInv, Advance
  <1>3. Moves(i, MovesTo(l, c, Link(i)))
    BY <1>1, LinkIs, IncDecMove DEF Advance
  <1>4. ~Strays(l, c, Link(i))
    <2>1. CASE i \in Fwd
      BY <1>2, <2>1, LinkIs, WayTyped
    <2>2. CASE i \notin Fwd
      BY <1>1, <2>2, LinkIs, IncDecMove DEF Advance, Strays
    <2>3. QED
      BY <2>1, <2>2
  <1>5. PICK k \in 1..(Len(u) + 1) : MovesTo(l, c, Link(i)) = At(u, k) /\ Way(l, c, Link(i)) = From(u, k)
    BY <1>1, <1>2, <1>4, WayOfElement
  <1>6. PICK w : w = From(u, k)
    OBVIOUS
  <1>7. Cursors!Stand(i, w)
    BY <1>1, <1>3, <1>5, <1>6, StandStep
  <1>8. WaysOn(i) = w
    BY <1>1, <1>2, <1>4, <1>5, <1>6, WaysAre DEF AheadIn
  <1>9. WaysOn(i) # Lost
    <2>1. Way(l, c, Link(i)) \in Seq(Nodes)
      BY <1>2, <1>4, WayTyped
    <2>2. QED
      BY <1>5, <1>6, <1>8, <2>1, ItersAssumption
  <1>10. [j \in Iters |-> WaysOn(j)][i] = w
    BY <1>8, StepsStay
  <1>11. QED
    BY <1>1, <1>2, <1>7, <1>8, <1>9, <1>10 DEF Cursors!Step

LEMMA LeaveImplements ==
  ASSUME IInv, IInv', NEW i \in Iters, Leave(i)
  PROVE  Cursors!Leave({i})
  <1>1. PICK l, u : l = list /\ u = Line(Listed(list), Link(i))
    OBVIOUS
  <1>2. Sound(l) /\ Link(i) \in Links
    BY <1>1, LinkIs DEF IInv
  <1>3. u \in Seq(Nodes) /\ Len(u) \in Nat
    BY <1>1, <1>2, WayOfElement
  <1>4. PICK k \in 1..(Len(u) + 1) : k = Len(u) + 1
    BY <1>3
  <1>5. At(u, k) = Null
    BY <1>3, <1>4 DEF At
  <1>6. Moves(i, At(u, k))
    BY <1>5 DEF Leave
  <1>7. PICK w : w = From(u, k)
    OBVIOUS
  <1>8. Cursors!Stand(i, w)
    BY <1>1, <1>4, <1>6, <1>7, StandStep
  <1>9. at' = [at EXCEPT ![i] = Null] /\ at'[i] = Null
    BY <1>5, <1>6 DEF Moves, IInv
  <1>10. at' = [j \in DOMAIN at |-> IF j \in {i} THEN Null ELSE at[j]]
    BY <1>9 DEF IInv
  <1>11. [j \in Iters |-> WaysOn(j)]'[i] = <<>>
    BY <1>9, StepsStay, WaysAre DEF AheadIn
  <1>12. UNCHANGED Listed(list) /\ Cursors!AllAhead((Fwd \cup Rev) \ {i})
    BY <1>8 DEF Cursors!Stand
  <1>13. QED
    BY <1>10, <1>11, <1>12 DEF Cursors!Leave

LEMMA InitImplements == Init => Cursors!Init
  <1> SUFFICES ASSUME Init PROVE Cursors!Init
    OBVIOUS
  <1>1. at = [i \in Fwd \cup Rev |-> Null]
    BY DEF Init, Iters
  <1>2. PICK l : l = list
    OBVIOUS
  <1>3. Sound(l) /\ l.first = Null
    BY <1>2, NewListSound DEF Init, NewList
  <1>4. PICK s : s = Listed(l)
    OBVIOUS
  <1>5. Chain(l, s) /\ s \in Seq(Nodes)
    BY <1>3, <1>4, ListedElements
  <1>6. s = <<>>
    <2>1. Len(s) \in Nat /\ (Len(s) # 0 => s[1] \in Nodes)
      BY <1>5
    <2>2. Len(s) = 0
      BY <1>3, <1>5, <2>1, NodesAssumption DEF Chain, At
    <2>3. QED
      BY <1>5, <2>2
  <1>7. \A i \in Iters : WaysOn(i) = <<>>
    BY <1>1 DEF WaysOn, Iters
  <1>8. [i \in Iters |-> WaysOn(i)] = [i \in Fwd \cup Rev |-> <<>>]
    BY <1>7 DEF Iters
  <1>9. QED
    BY <1>1, <1>2, <1>4, <1>6, <1>8 DEF Cursors!Init

(* Every step of the list is a step of the abstract one, or stutters.      *)
LEMMA NextImplements ==
  ASSUME IInv, IInv', [Next]_vars
  PROVE  [Cursors!Next]_(Cursors!vars)
  <1>1. ASSUME NEW v \in Values, AddLast(v) PROVE Cursors!Next
    BY <1>1, AddLastImplements DEF Cursors!Next
  <1>2. ASSUME NEW v \in Values, AddFirst(v) PROVE Cursors!Next
    BY <1>2, AddFirstImplements DEF Cursors!Next
  <1>3. ASSUME NEW n \in Nodes, list.node[n].valid, Becomes(RemoveNode(list, n)) PROVE Cursors!Next
    BY <1>3, RemoveImplements DEF Cursors!Next
  <1>4. ASSUME NEW v \in Values, RemoveVal(v) PROVE Cursors!Next
    <2>1. PICK s : s = Listed(list)
      OBVIOUS
    <2>2. PICK k \in 1..Len(s) : Becomes(RemoveNode(list, s[k]))
      BY <1>4, <2>1 DEF RemoveVal
    <2>3. s[k] \in Nodes /\ list.node[s[k]].valid
      BY <2>1, FoundIsListed DEF IInv
    <2>4. QED
      BY <1>3, <2>2, <2>3
  <1>5. ASSUME NEW i \in Iters, Erase(i) PROVE Cursors!Next
    <2>1. at[i] \in Nodes
      BY <1>5 DEF Erase, IInv
    <2>2. QED
      BY <1>3, <1>5, <2>1 DEF Erase
  <1>6. ASSUME NEW i \in Iters, Begin(i) PROVE Cursors!Next
    BY <1>6, BeginImplements DEF Cursors!Next, Iters
  <1>7. ASSUME NEW i \in Iters, Advance(i) PROVE Cursors!Next
    BY <1>7, AdvanceImplements DEF Cursors!Next, Iters
  <1>8. ASSUME NEW i \in Iters, Leave(i) PROVE Cursors!Next
    <2>1. {i} \in SUBSET (Fwd \cup Rev)
      BY DEF Iters
    <2>2. Cursors!Leave({i})
      BY <1>8, LeaveImplements
    <2>3. QED
      BY <2>1, <2>2 DEF Cursors!Next
  <1>9. CASE Empty
    BY <1>9, EmptyImplements DEF Cursors!Next
  <1>10. ASSUME NEW w \in Contents, Assign(w) PROVE Cursors!Next
    BY <1>10, AssignImplements DEF Cursors!Next
  <1>11. CASE UNCHANGED vars
    <2>1. Listed(list)' = Listed(list) /\ at' = at
      BY <1>11 DEF vars
    <2>2. \A i \in Iters : WaysOn(i)' = WaysOn(i)
      BY <1>11 DEF vars, WaysOn
    <2>3. [i \in Iters |-> WaysOn(i)]' = [i \in Iters |-> WaysOn(i)]
      BY <2>2
    <2>4. QED
      BY <2>1, <2>3 DEF Cursors!vars
  <1>12. QED
    BY <1>1, <1>2, <1>4, <1>5, <1>6, <1>7, <1>8, <1>9, <1>10, <1>11 DEF Next

(* Every iterator keeps its element and visits, in order, the elements     *)
(* ahead of it that are still there, whatever is inserted and removed.     *)
THEOREM IteratorsKeepTheirWay == Spec => ImplementsCursorList
  <1>1. IInv /\ IInv' /\ [Next]_vars => [Cursors!Next]_(Cursors!vars)
    BY NextImplements
  <1>2. QED
    BY <1>1, InitImplements, SpecIInv, PTL DEF Spec, ImplementsCursorList, Cursors!Spec
=============================================================================
