-------------------------- MODULE CowStringProofs --------------------------
(***************************************************************************)
(* The reference counts of the buffers, the isolation of the strings from  *)
(* each other and what they read, for any number of strings, buffers,      *)
(* literals and external blocks.  Each of the three parts takes the helpers *)
(* of the storage layer first, then the operations, then the specification. *)
(***************************************************************************)
EXTENDS CowString, FiniteSetTheorems, TLAPS

(***************************************************************************)
(* Who owns which buffer: every helper of the storage layer leaves the     *)
(* refcnt of every buffer the number of string objects that point to it.   *)
(***************************************************************************)
(* m is a memory whose fields have their types.                            *)
Shape(m) ==
  /\ m = [str |-> m.str, mem |-> m.mem, ctl |-> m.ctl, held |-> m.held]
  /\ m.str \in [Objs -> StrRec]
  /\ m.ctl \in [Buffers -> CtlRec]
  /\ m.held \in [Ext -> BOOLEAN]
  /\ \A s \in Objs : m.str[s].state \in Counted => m.str[s].blk \in Buffers

(* The deallocator s carries is the one its control block needs.           *)
Matched(m, s) ==
  LET p == m.str[s] IN
  /\ p.state = "INTERNAL" => p.dtor = m.ctl[p.blk].alloc /\ m.ctl[p.blk].ext = NoExt
  /\ p.state = "EXTERNAL" => p.dtor = m.ctl[p.blk].ext /\ p.dtor \in Ext

(* User memory that a string holds lies under one control block, that of a  *)
(* buffer in use.                                                          *)
OneBlockEach(m) ==
  /\ \A b \in Buffers : m.ctl[b].ext \in Ext => m.held[m.ctl[b].ext] /\ m.ctl[b].refcnt # 0
  /\ \A b, c \in Buffers : m.ctl[b].ext = m.ctl[c].ext /\ m.ctl[b].ext \in Ext => b = c
  /\ \A e \in Ext : m.held[e] => \E b \in Buffers : m.ctl[b].ext = e

(* p, read from a string earlier, still knows whose memory its block is.    *)
Knows(m, p) == \A e \in Ext : p.dtor = e <=> m.ctl[p.blk].ext = e

(* The refcnt of every buffer counts its holders, whose deallocators match ... *)
Balanced(m) ==
  /\ Shape(m)
  /\ \A b \in Buffers : m.ctl[b].refcnt = Cardinality(Holders(m, b))
  /\ OneBlockEach(m) /\ \A t \in Objs : Matched(m, t)

(* ... all but s, whose reference is given up already ...                  *)
BalancedBut(m, s) ==
  /\ Shape(m)
  /\ \A b \in Buffers : m.ctl[b].refcnt = Cardinality(Holders(m, b) \ {s})
  /\ OneBlockEach(m) /\ \A t \in Objs \ {s} : Matched(m, t)

(* ... or all and one more, p, the old storage a helper has yet to release. *)
BalancedPlus(m, p) ==
  /\ Shape(m)
  /\ \A b \in Buffers : m.ctl[b].refcnt = Cardinality(Holders(m, b)) + (IF b = p.blk THEN 1 ELSE 0)
  /\ OneBlockEach(m) /\ \A t \in Objs : Matched(m, t)
  /\ Knows(m, p)

(* The others have their buffers still.                                    *)
OthersStay(m, n, s) ==
  \A t \in Objs \ {s} : /\ n.str[t].state = m.str[t].state /\ n.str[t].blk = m.str[t].blk
                        /\ n.str[t].dtor = m.str[t].dtor

(* s has left its buffer for storage of its own: the SSO bytes, or a buffer  *)
(* that was free in m.  What it held in m is still counted.                *)
Rehomed(m, n, s) ==
  /\ Shape(n)
  /\ OthersStay(m, n, s) /\ n.held = m.held
  /\ \/ n.str[s].state \notin Counted /\ n.ctl = m.ctl
     \/ \E x \in FreeBuffers(m) :
          /\ n.str[s].state = "INTERNAL" /\ n.str[s].blk = x
          /\ n.ctl[x] = [refcnt |-> 1, alloc |-> n.str[s].dtor, ext |-> NoExt]
          /\ \A b \in Buffers \ {x} : n.ctl[b] = m.ctl[b]

(* The outcome of a call on s: balanced, the other objects still there.    *)
Outcome(m, n, s) ==
  /\ Balanced(n)
  /\ \A t \in Objs \ {s} : n.str[t].state = m.str[t].state

(* Two memories with the same objects on the same buffers.                 *)
SameOwners(m, n) ==
  /\ n.ctl = m.ctl /\ n.held = m.held
  /\ \A s \in Objs : /\ n.str[s].state = m.str[s].state /\ n.str[s].blk = m.str[s].blk
                     /\ n.str[s].dtor = m.str[s].dtor

(* No user memory is adopted on the way from m to n.                       *)
NoneTaken(m, n) == \A e \in Ext : n.held[e] => m.held[e]

LEMMA ObjsFinite == Assumptions => IsFiniteSet(Objs)
  BY FS_AddElement DEF Assumptions, Objs

LEMMA HoldersFinite ==
  ASSUME NEW m, NEW b, Assumptions
  PROVE  IsFiniteSet(Holders(m, b)) /\ Cardinality(Holders(m, b)) \in Nat
  <1>1. Holders(m, b) \in SUBSET Objs
    BY DEF Holders
  <1>2. QED
    BY <1>1, ObjsFinite, FS_Subset, FS_CardinalityType

LEMMA SameOwnersBalanced ==
  ASSUME NEW m, NEW n, Balanced(m), Shape(n), SameOwners(m, n)
  PROVE  Balanced(n)
  <1>1. \A b \in Buffers : Holders(n, b) = Holders(m, b)
    BY DEF Holders, SameOwners
  <1>2. OneBlockEach(n)
    BY DEF Balanced, SameOwners, OneBlockEach
  <1>3. \A s \in Objs : Matched(n, s)
    BY DEF Balanced, SameOwners, Matched
  <1>4. QED
    BY <1>1, <1>2, <1>3 DEF Balanced, SameOwners

(***************************************************************************)
(* What writes characters, lengths and offsets leaves the owners alone.    *)
(***************************************************************************)
LEMMA PutAtShape ==
  ASSUME NEW m, Shape(m), NEW k, NEW at, NEW w
  PROVE  Shape(PutAt(m, k, at, w)) /\ SameOwners(m, PutAt(m, k, at, w))
  BY DEF Shape, PutAt, SameOwners

LEMMA SetLenShape ==
  ASSUME NEW m, Shape(m), NEW s \in Objs, NEW n \in Nat
  PROVE  Shape(SetLen(m, s, n)) /\ SameOwners(m, SetLen(m, s, n))
  BY DEF Shape, SetLen, SameOwners, StrRec

LEMMA PointToShape ==
  ASSUME NEW m, Shape(m), NEW s \in Objs, NEW n \in Nat
  PROVE  Shape(PointTo(m, s, n)) /\ SameOwners(m, PointTo(m, s, n))
  BY DEF Shape, PointTo, SameOwners, StrRec

(***************************************************************************)
(* New storage.                                                            *)
(***************************************************************************)
LEMMA AnyFreeIsFree ==
  ASSUME NEW m, FreeBuffers(m) # {}
  PROVE  AnyFree(m) \in FreeBuffers(m)
  BY DEF FreeBuffers, AnyFree

LEMMA SetStrShape ==
  ASSUME NEW m, Shape(m), NEW s \in Objs, NEW r \in StrRec,
         r.state \in Counted => r.blk \in Buffers,
         NEW n, n = [str |-> n.str, mem |-> n.mem, ctl |-> n.ctl, held |-> n.held],
         n.str = [m.str EXCEPT ![s] = r], n.ctl = m.ctl, n.held = m.held
  PROVE  Shape(n)
  <1>1. n.str \in [Objs -> StrRec]
    BY DEF Shape
  <1>2. \A t \in Objs : n.str[t].state \in Counted => n.str[t].blk \in Buffers
    BY DEF Shape
  <1>3. QED
    BY <1>1, <1>2 DEF Shape

(* The fields of an object that has moved into block k.                    *)
LEMMA HomeRec ==
  ASSUME NEW p \in StrRec, NEW st \in States, NEW k \in Objs \cup Literals \cup Buffers,
         NEW d \in Dtors, NEW r,
         r = [state |-> st, blk |-> k, off |-> 0, len |-> p.len, dtor |-> d]
  PROVE  r \in StrRec /\ r.state = st /\ r.blk = k /\ r.dtor = d
  BY DEF StrRec

LEMMA NewBufferRehomes ==
  ASSUME NEW m, Shape(m), FreeBuffers(m) # {}, NEW s \in Objs, NEW cap
  PROVE  Rehomed(m, NewBuffer(m, s, cap), s)
  <1> DEFINE x == AnyFree(m)
             c == [refcnt |-> 1, alloc |-> AllocOf[s], ext |-> NoExt]
             w == Junks(cap)
  <1>1. x \in FreeBuffers(m) /\ x \in Buffers
    BY AnyFreeIsFree DEF FreeBuffers
  <1>2. c \in CtlRec /\ c.refcnt = 1
    BY DEF CtlRec, Allocs
  <1>3. PICK r : r = [m.str[s] EXCEPT !.state = "INTERNAL", !.blk = x, !.off = 0, !.dtor = AllocOf[s]]
    OBVIOUS
  <1>4. r \in StrRec /\ r.state = "INTERNAL" /\ r.blk = x /\ r.state \in Counted
        /\ c = [refcnt |-> 1, alloc |-> r.dtor, ext |-> NoExt]
    <2>1. "INTERNAL" \in States /\ "INTERNAL" \in Counted
      BY DEF States, Counted
    <2>2. AllocOf[s] \in Dtors /\ x \in Objs \cup Literals \cup Buffers
      BY <1>1 DEF Dtors, Allocs
    <2> HIDE DEF x
    <2>3. r \in StrRec /\ r.state = "INTERNAL" /\ r.blk = x /\ r.dtor = AllocOf[s]
      <3>1. PICK p \in StrRec : p = m.str[s]
        BY DEF Shape
      <3>2. r = [state |-> "INTERNAL", blk |-> x, off |-> 0, len |-> p.len, dtor |-> AllocOf[s]]
        BY <1>3, <3>1 DEF StrRec
      <3>3. QED
        BY <2>1, <2>2, <3>2, HomeRec
    <2>4. QED
      BY <2>1, <2>3
  <1>5. PICK n : n = NewBuffer(m, s, cap)
    OBVIOUS
  <1>6. n = [m EXCEPT !.str[s] = r, !.ctl[x] = c, !.mem[x] = w, !.mem[s] = <<>>]
    BY <1>3, <1>5 DEF NewBuffer
  <1> HIDE DEF x, c, w
  <1>7. n = [str |-> [m.str EXCEPT ![s] = r], mem |-> n.mem, ctl |-> [m.ctl EXCEPT ![x] = c],
             held |-> m.held]
    BY <1>6 DEF Shape
  <1>8. n.str = [m.str EXCEPT ![s] = r] /\ n.ctl = [m.ctl EXCEPT ![x] = c] /\ n.held = m.held
        /\ n = [str |-> n.str, mem |-> n.mem, ctl |-> n.ctl, held |-> n.held]
    BY <1>7
  <1>9. /\ Shape(n)
        /\ n.str[s] = r /\ \A t \in Objs \ {s} : n.str[t] = m.str[t]
        /\ n.ctl[x] = c /\ \A b \in Buffers \ {x} : n.ctl[b] = m.ctl[b]
    <2>1. n.str[s] = r /\ \A t \in Objs \ {s} : n.str[t] = m.str[t]
      BY <1>8 DEF Shape
    <2>2. n.ctl[x] = c /\ \A b \in Buffers \ {x} : n.ctl[b] = m.ctl[b]
      BY <1>1, <1>8 DEF Shape
    <2>3. n.str \in [Objs -> StrRec] /\ n.ctl \in [Buffers -> CtlRec]
      BY <1>1, <1>2, <1>4, <1>8 DEF Shape
    <2>4. \A t \in Objs : n.str[t].state \in Counted => n.str[t].blk \in Buffers
      BY <1>1, <1>4, <2>1 DEF Shape
    <2>5. Shape(n)
      BY <1>8, <2>3, <2>4 DEF Shape
    <2>6. QED
      BY <2>1, <2>2, <2>5
  <1>10. Rehomed(m, n, s)
    BY <1>1, <1>4, <1>8, <1>9 DEF Rehomed, OthersStay
  <1>11. QED
    BY <1>5, <1>10

LEMMA NewAutoRehomes ==
  ASSUME NEW m, Shape(m), FreeBuffers(m) # {}, NEW s \in Objs, NEW cap
  PROVE  Rehomed(m, NewAuto(m, s, cap), s)
  <1>1. CASE cap <= MaxSso
    <2> DEFINE w == Junks(MaxSso)
    <2>1. PICK r : r = [m.str[s] EXCEPT !.state = "SSO", !.blk = s, !.off = 0, !.dtor = NoDtor]
      OBVIOUS
    <2>2. r \in StrRec /\ r.state = "SSO" /\ r.state \notin Counted
      <3>1. "SSO" \in States /\ "SSO" \notin Counted /\ NoDtor \in Dtors
            /\ s \in Objs \cup Literals \cup Buffers
        BY DEF States, Counted, Dtors
      <3>2. r \in StrRec /\ r.state = "SSO"
        <4>1. PICK p \in StrRec : p = m.str[s]
          BY DEF Shape
        <4>2. r = [state |-> "SSO", blk |-> s, off |-> 0, len |-> p.len, dtor |-> NoDtor]
          BY <2>1, <4>1 DEF StrRec
        <4>3. QED
          BY <3>1, <4>2, HomeRec
      <3>3. QED
        BY <3>1, <3>2
    <2>3. PICK n : n = NewAuto(m, s, cap)
      OBVIOUS
    <2>4. n = [m EXCEPT !.str[s] = r, !.mem[s] = w]
      BY <1>1, <2>1, <2>3 DEF NewAuto
    <2> HIDE DEF w
    <2>5. n = [str |-> [m.str EXCEPT ![s] = r], mem |-> n.mem, ctl |-> m.ctl, held |-> m.held]
      BY <2>4 DEF Shape
    <2>6. n.str = [m.str EXCEPT ![s] = r] /\ n.ctl = m.ctl /\ n.held = m.held
          /\ n = [str |-> n.str, mem |-> n.mem, ctl |-> n.ctl, held |-> n.held]
      BY <2>5
    <2>7. n.str[s] = r /\ \A t \in Objs \ {s} : n.str[t] = m.str[t]
      BY <2>6 DEF Shape
    <2>8. Shape(n)
      BY <2>2, <2>6, SetStrShape
    <2>9. Rehomed(m, n, s)
      BY <2>2, <2>6, <2>7, <2>8 DEF Rehomed, OthersStay
    <2>10. QED
      BY <2>3, <2>9
  <1>2. CASE ~(cap <= MaxSso)
    BY <1>2, NewBufferRehomes DEF NewAuto
  <1>3. QED
    BY <1>1, <1>2

LEMMA RehomedThenPut ==
  ASSUME NEW m, NEW n, NEW s \in Objs, Rehomed(m, n, s), NEW k, NEW at, NEW w
  PROVE  Rehomed(m, PutAt(n, k, at, w), s)
  BY PutAtShape DEF Rehomed, OthersStay, SameOwners

LEMMA DetachStrRehomes ==
  ASSUME NEW m, Shape(m), FreeBuffers(m) # {}, NEW s \in Objs, NEW cap
  PROVE  Rehomed(m, DetachStr(m, s, cap), s)
  BY NewAutoRehomes, RehomedThenPut DEF DetachStr, Put

LEMMA NewInternalFromSsoRehomes ==
  ASSUME NEW m, Shape(m), FreeBuffers(m) # {}, NEW s \in Objs, NEW cap
  PROVE  Rehomed(m, NewInternalFromSso(m, s, cap), s)
  BY NewBufferRehomes, RehomedThenPut DEF NewInternalFromSso, Put

LEMMA ReserveMiddleNewRehomes ==
  ASSUME NEW m, Shape(m), FreeBuffers(m) # {}, NEW s \in Objs, NEW pos, NEW rem, NEW ins
  PROVE  /\ Rehomed(m, ReserveMiddleNew(m, s, pos, rem, ins), s)
         /\ Rehomed(m, NewInternalFromSsoMiddle(m, s, pos, rem, ins), s)
  BY NewAutoRehomes, NewBufferRehomes, RehomedThenPut
     DEF ReserveMiddleNew, NewInternalFromSsoMiddle, Put

(***************************************************************************)
(* What becomes of the reference s had: given up before the new storage    *)
(* (DecRef), or released after it (a local old_buf).                       *)
(***************************************************************************)
LEMMA HolderCounts ==
  ASSUME NEW m, Balanced(m), Assumptions, NEW s \in Objs, m.str[s].state \in Counted
  PROVE  LET b == m.str[s].blk IN
         /\ b \in Buffers
         /\ m.ctl[b].refcnt \in Nat /\ m.ctl[b].refcnt >= 1
         /\ m.ctl[b].refcnt = Cardinality(Holders(m, b) \ {s}) + 1
  <1> DEFINE b == m.str[s].blk
  <1>1. b \in Buffers /\ s \in Holders(m, b)
    BY DEF Balanced, Shape, Holders
  <1>2. IsFiniteSet(Holders(m, b)) /\ IsFiniteSet(Holders(m, b) \ {s})
    BY HoldersFinite, FS_RemoveElement
  <1>3. Cardinality(Holders(m, b) \ {s}) = Cardinality(Holders(m, b)) - 1
    BY <1>1, <1>2, FS_RemoveElement
  <1>4. Cardinality(Holders(m, b) \ {s}) \in Nat /\ Cardinality(Holders(m, b)) \in Nat
    BY <1>2, FS_CardinalityType
  <1>5. QED
    BY <1>1, <1>3, <1>4 DEF Balanced

LEMMA UncountedBut ==
  ASSUME NEW m, Balanced(m), NEW s \in Objs, m.str[s].state \notin Counted
  PROVE  BalancedBut(m, s)
  <1>1. \A b \in Buffers : Holders(m, b) \ {s} = Holders(m, b)
    BY DEF Holders
  <1>2. QED
    BY <1>1 DEF Balanced, BalancedBut

LEMMA DecRefShape ==
  ASSUME NEW m, Shape(m), NEW b \in Buffers, m.ctl[b].refcnt \in Nat, m.ctl[b].refcnt # 0
  PROVE  LET d == DecRef(m, b) IN
         /\ Shape(d)
         /\ d.str = m.str /\ d.held = m.held
         /\ d.ctl[b].refcnt = m.ctl[b].refcnt - 1
         /\ \A a \in Buffers \ {b} : d.ctl[a] = m.ctl[a]
         /\ \A a \in Buffers : d.ctl[a].ext = m.ctl[a].ext /\ d.ctl[a].alloc = m.ctl[a].alloc
  <1>1. PICK d : d = DecRef(m, b)
    OBVIOUS
  <1>2. PICK c : c = [m.ctl[b] EXCEPT !.refcnt = @ - 1]
    OBVIOUS
  <1>3. /\ d.str = m.str /\ d.held = m.held /\ d.ctl = [m.ctl EXCEPT ![b] = c]
        /\ d = [str |-> d.str, mem |-> d.mem, ctl |-> d.ctl, held |-> d.held]
    BY <1>1, <1>2 DEF DecRef, Shape
  <1>4. c \in CtlRec /\ c.refcnt = m.ctl[b].refcnt - 1
        /\ c.ext = m.ctl[b].ext /\ c.alloc = m.ctl[b].alloc
    <2>1. m.ctl[b] \in CtlRec /\ m.ctl[b].refcnt - 1 \in Nat
      BY DEF Shape
    <2>2. QED
      BY <1>2, <2>1 DEF CtlRec
  <1>5. d.ctl[b] = c /\ \A a \in Buffers \ {b} : d.ctl[a] = m.ctl[a]
    BY <1>3 DEF Shape
  <1>6. Shape(d)
    BY <1>3, <1>4 DEF Shape
  <1>7. \A a \in Buffers : d.ctl[a].ext = m.ctl[a].ext /\ d.ctl[a].alloc = m.ctl[a].alloc
    BY <1>4, <1>5
  <1>8. QED
    BY <1>1, <1>3, <1>4, <1>5, <1>6, <1>7

LEMMA DecRefBut ==
  ASSUME NEW m, Balanced(m), Assumptions, NEW s \in Objs, m.str[s].state \in Counted,
         ~Unique(m, s)
  PROVE  LET n == DecRef(m, m.str[s].blk) IN
         /\ BalancedBut(n, s)
         /\ FreeBuffers(m) \subseteq FreeBuffers(n)
         /\ n.str = m.str /\ NoneTaken(m, n)
  <1> DEFINE b == m.str[s].blk
             n == DecRef(m, b)
  <1>1. b \in Buffers /\ m.ctl[b].refcnt \in Nat /\ m.ctl[b].refcnt >= 1
        /\ m.ctl[b].refcnt - 1 = Cardinality(Holders(m, b) \ {s})
    <2>1. Cardinality(Holders(m, b) \ {s}) \in Nat
      BY HoldersFinite, FS_RemoveElement, FS_CardinalityType
    <2>2. QED
      BY <2>1, HolderCounts
  <1>0. /\ Shape(n) /\ n.str = m.str /\ n.held = m.held
        /\ n.ctl[b].refcnt = m.ctl[b].refcnt - 1
        /\ \A a \in Buffers \ {b} : n.ctl[a] = m.ctl[a]
        /\ \A a \in Buffers : n.ctl[a].ext = m.ctl[a].ext /\ n.ctl[a].alloc = m.ctl[a].alloc
    BY <1>1, DecRefShape DEF Balanced
  <1>8. NoneTaken(m, n)
    BY DEF NoneTaken, DecRef, Balanced, Shape
  <1> HIDE DEF n
  <1>2. Shape(n) /\ n.str = m.str
    BY <1>0
  <1>3. n.ctl[b].refcnt = m.ctl[b].refcnt - 1
        /\ \A a \in Buffers \ {b} : n.ctl[a] = m.ctl[a]
    BY <1>0
  <1>4. \A a \in Buffers : Holders(n, a) = Holders(m, a)
    BY <1>2 DEF Holders
  <1>5. \A a \in Buffers \ {b} : Holders(m, a) \ {s} = Holders(m, a)
    BY DEF Holders
  <1>6. BalancedBut(n, s)
    <2>1. n.held = m.held /\ n.ctl[b].refcnt # 0
          /\ \A a \in Buffers : n.ctl[a].ext = m.ctl[a].ext /\ n.ctl[a].alloc = m.ctl[a].alloc
      <3>1. m.ctl[b].refcnt # 1
        BY DEF Unique
      <3>2. n.ctl[b].refcnt # 0
        BY <1>0, <1>1, <3>1
      <3>3. QED
        BY <1>0, <3>2
    <2>2. OneBlockEach(n)
      <3>1. \A a \in Buffers : n.ctl[a].refcnt = 0 => m.ctl[a].refcnt = 0
        BY <1>3, <2>1
      <3>2. QED
        BY <2>1, <3>1 DEF Balanced, OneBlockEach
    <2>3. \A t \in Objs : Matched(n, t)
      BY <1>2, <2>1 DEF Balanced, Shape, Matched, Counted
    <2>4. QED
      BY <1>1, <1>2, <1>3, <1>4, <1>5, <2>2, <2>3 DEF BalancedBut, Balanced
  <1>7. FreeBuffers(m) \subseteq FreeBuffers(n)
    BY <1>1, <1>3 DEF FreeBuffers
  <1>9. QED
    BY <1>2, <1>6, <1>7, <1>8 DEF n

(* The blocks of the other objects are in use, so none of them is taken.    *)
OthersInUse(m, s) ==
  \A t \in Objs \ {s} : m.str[t].state \in Counted => m.str[t].blk \notin FreeBuffers(m)

LEMMA ButOthersInUse ==
  ASSUME NEW m, NEW s \in Objs, Assumptions, BalancedBut(m, s)
  PROVE  OthersInUse(m, s)
  <1> SUFFICES ASSUME NEW t \in Objs \ {s}, m.str[t].state \in Counted
               PROVE  m.str[t].blk \notin FreeBuffers(m)
    BY DEF OthersInUse
  <1>1. PICK b : b = m.str[t].blk
    OBVIOUS
  <1>2. b \in Buffers /\ t \in Holders(m, b) \ {s}
    BY <1>1 DEF BalancedBut, Shape, Holders
  <1>3. IsFiniteSet(Holders(m, b) \ {s})
    BY HoldersFinite, FS_RemoveElement
  <1>4. Cardinality(Holders(m, b) \ {s}) # 0
    BY <1>2, <1>3, FS_EmptySet
  <1>5. QED
    BY <1>1, <1>2, <1>4 DEF FreeBuffers, BalancedBut

LEMMA AllInUse ==
  ASSUME NEW m, NEW s \in Objs, Assumptions, Balanced(m)
  PROVE  OthersInUse(m, s)
  <1> SUFFICES ASSUME NEW t \in Objs \ {s}, m.str[t].state \in Counted
               PROVE  m.str[t].blk \notin FreeBuffers(m)
    BY DEF OthersInUse
  <1>1. m.ctl[m.str[t].blk].refcnt \in Nat /\ m.ctl[m.str[t].blk].refcnt >= 1
    BY HolderCounts
  <1>2. QED
    BY <1>1 DEF FreeBuffers

(* New storage takes no user memory and gives none back.                   *)
LEMMA RehomedKeeps ==
  ASSUME NEW m, NEW n, NEW s \in Objs, Assumptions, Shape(m), OneBlockEach(m),
         \A t \in Objs \ {s} : Matched(m, t), OthersInUse(m, s), Rehomed(m, n, s)
  PROVE  OneBlockEach(n) /\ \A t \in Objs : Matched(n, t)
  <1>1. \A t \in Objs \ {s} : m.str[t].state \in Counted => m.str[t].blk \in Buffers
    BY DEF Shape
  <1>2. CASE n.str[s].state \notin Counted /\ n.ctl = m.ctl
    <2>1. OneBlockEach(n)
      BY <1>2 DEF Rehomed, OneBlockEach
    <2>2. Matched(n, s)
      BY <1>2 DEF Matched, Counted
    <2>3. \A t \in Objs \ {s} : Matched(n, t)
      BY <1>2 DEF Matched, Rehomed, OthersStay
    <2>4. QED
      BY <2>1, <2>2, <2>3
  <1>3. ASSUME NEW x \in FreeBuffers(m), n.str[s].state = "INTERNAL", n.str[s].blk = x,
               n.ctl[x] = [refcnt |-> 1, alloc |-> n.str[s].dtor, ext |-> NoExt],
               \A b \in Buffers \ {x} : n.ctl[b] = m.ctl[b]
        PROVE  OneBlockEach(n) /\ \A t \in Objs : Matched(n, t)
    <2>1. x \in Buffers /\ m.ctl[x].refcnt = 0
      BY DEF FreeBuffers
    <2>2. m.ctl[x].ext \notin Ext /\ NoExt \notin Ext
      BY <2>1 DEF OneBlockEach, Assumptions
    <2>3. n.ctl[x].ext = NoExt /\ n.ctl[x].alloc = n.str[s].dtor
      BY <1>3
    <2>4. OneBlockEach(n)
      <3>1. \A b \in Buffers : n.ctl[b].ext \in Ext =>
              b # x /\ n.ctl[b].ext = m.ctl[b].ext /\ n.ctl[b].refcnt = m.ctl[b].refcnt
        BY <1>3, <2>2, <2>3
      <3>2. \A b \in Buffers : m.ctl[b].ext \in Ext => n.ctl[b].ext = m.ctl[b].ext
        BY <1>3, <2>2
      <3>3. n.held = m.held
        BY DEF Rehomed
      <3>4. QED
        BY <3>1, <3>2, <3>3 DEF OneBlockEach
    <2>5. Matched(n, s)
      BY <1>3, <2>3 DEF Matched
    <2>6. ASSUME NEW t \in Objs \ {s}
          PROVE  Matched(n, t)
      <3>1. n.str[t].state = m.str[t].state /\ n.str[t].blk = m.str[t].blk
            /\ n.str[t].dtor = m.str[t].dtor /\ Matched(m, t)
        BY DEF Rehomed, OthersStay
      <3>2. CASE m.str[t].state \in Counted
        <4>1. m.str[t].blk \in Buffers \ {x}
          BY <1>1, <2>1, <3>2 DEF OthersInUse
        <4>2. n.ctl[m.str[t].blk] = m.ctl[m.str[t].blk]
          BY <1>3, <4>1
        <4>3. QED
          BY <3>1, <4>2 DEF Matched
      <3>3. CASE m.str[t].state \notin Counted
        BY <3>1, <3>3 DEF Matched, Counted
      <3>4. QED
        BY <3>2, <3>3
    <2>7. QED
      BY <2>4, <2>5, <2>6
  <1>4. QED
    BY <1>2, <1>3 DEF Rehomed

LEMMA RehomedBut ==
  ASSUME NEW m, NEW n, NEW s \in Objs, Assumptions, BalancedBut(m, s), Rehomed(m, n, s)
  PROVE  Outcome(m, n, s)
  <1>1. \A b \in Buffers : Holders(n, b) \ {s} = Holders(m, b) \ {s}
    BY DEF Holders, Rehomed, OthersStay
  <1>0. OneBlockEach(n) /\ \A u \in Objs : Matched(n, u)
    BY ButOthersInUse, RehomedKeeps DEF BalancedBut
  <1>2. CASE n.str[s].state \notin Counted /\ n.ctl = m.ctl
    <2>1. \A b \in Buffers : Holders(n, b) = Holders(n, b) \ {s}
      BY <1>2 DEF Holders
    <2>2. QED
      BY <1>0, <1>1, <1>2, <2>1 DEF Outcome, Balanced, BalancedBut, Rehomed, OthersStay
  <1>3. ASSUME NEW x \in FreeBuffers(m),
               n.str[s].state = "INTERNAL", n.str[s].blk = x,
               n.ctl[x] = [refcnt |-> 1, alloc |-> n.str[s].dtor, ext |-> NoExt],
               \A b \in Buffers \ {x} : n.ctl[b] = m.ctl[b]
        PROVE  Outcome(m, n, s)
    <2>1. x \in Buffers /\ Cardinality(Holders(m, x) \ {s}) = 0
      BY DEF FreeBuffers, BalancedBut
    <2>2. Holders(m, x) \ {s} = {}
      <3>1. IsFiniteSet(Holders(m, x) \ {s})
        BY HoldersFinite, FS_RemoveElement
      <3>2. QED
        BY <2>1, <3>1, FS_EmptySet
    <2>3. Holders(n, x) = {s}
      BY <1>1, <1>3, <2>1, <2>2 DEF Holders, Counted
    <2>4. Cardinality(Holders(n, x)) = 1
      BY <2>3, FS_Singleton
    <2>5. \A b \in Buffers \ {x} : Holders(n, b) = Holders(n, b) \ {s}
      BY <1>3 DEF Holders
    <2>6. QED
      <3>1. n.ctl[x].refcnt = 1 /\ \A u \in Objs \ {s} : n.str[u].state = m.str[u].state
        BY <1>3 DEF Rehomed, OthersStay
      <3>2. QED
        BY <1>0, <1>1, <1>3, <2>4, <2>5, <3>1 DEF Outcome, Balanced, BalancedBut, Rehomed
  <1>4. QED
    BY <1>2, <1>3 DEF Rehomed

LEMMA MatchedKnows ==
  ASSUME NEW m, Balanced(m), Assumptions, NEW s \in Objs, m.str[s].state \in Counted
  PROVE  Knows(m, m.str[s])
  <1>1. m.str[s].blk \in Buffers /\ Matched(m, s)
    BY DEF Balanced, Shape
  <1>2. CASE m.str[s].state = "INTERNAL"
    <2>1. m.ctl[m.str[s].blk].alloc \in Allocs \cup {NoDtor} /\ m.str[s].dtor = m.ctl[m.str[s].blk].alloc
          /\ m.ctl[m.str[s].blk].ext = NoExt
      BY <1>1, <1>2 DEF Balanced, Shape, CtlRec, Matched
    <2>2. m.str[s].dtor \notin Ext /\ NoExt \notin Ext
      BY <2>1 DEF Assumptions, Allocs
    <2>3. QED
      BY <2>1, <2>2 DEF Knows
  <1>3. CASE m.str[s].state = "EXTERNAL"
    BY <1>1, <1>3 DEF Knows, Matched
  <1>4. QED
    BY <1>2, <1>3 DEF Counted

LEMMA RehomedPlus ==
  ASSUME NEW m, NEW n, NEW s \in Objs, Assumptions, Balanced(m), Rehomed(m, n, s),
         m.str[s].state \in Counted
  PROVE  LET b == m.str[s].blk IN
         /\ BalancedPlus(n, m.str[s])
         /\ n.ctl[b] = m.ctl[b]
  <1> DEFINE b == m.str[s].blk
  <1>1. b \in Buffers /\ b \notin FreeBuffers(m)
        /\ m.ctl[b].refcnt = Cardinality(Holders(m, b) \ {s}) + 1
    BY HolderCounts DEF FreeBuffers
  <1>2. \A a \in Buffers : Holders(n, a) \ {s} = Holders(m, a) \ {s}
    BY DEF Holders, Rehomed, OthersStay
  <1>3. \A a \in Buffers \ {b} : Holders(m, a) \ {s} = Holders(m, a)
    BY DEF Holders
  <1>4. n.ctl[b] = m.ctl[b]
    BY <1>1 DEF Rehomed
  <1>0. /\ OneBlockEach(n) /\ \A u \in Objs : Matched(n, u)
        /\ Knows(n, m.str[s])
    <2>1. OneBlockEach(n) /\ \A u \in Objs : Matched(n, u)
      BY AllInUse, RehomedKeeps DEF Balanced
    <2>2. QED
      BY <1>4, <2>1, MatchedKnows DEF Knows
  <1>5. CASE n.str[s].state \notin Counted /\ n.ctl = m.ctl
    <2>1. \A a \in Buffers : Holders(n, a) = Holders(n, a) \ {s}
      BY <1>5 DEF Holders
    <2>2. \A a \in Buffers : Cardinality(Holders(n, a)) \in Nat
      BY HoldersFinite
    <2>3. \A a \in Buffers : m.ctl[a].refcnt = Cardinality(Holders(n, a)) + (IF a = b THEN 1 ELSE 0)
      <3>1. \A a \in Buffers \ {b} : Holders(n, a) = Holders(m, a)
        BY <1>2, <1>3, <2>1
      <3>2. Holders(n, b) = Holders(m, b) \ {s}
        BY <1>1, <1>2, <2>1
      <3>3. m.ctl[b].refcnt = Cardinality(Holders(n, b)) + 1
        BY <1>1, <3>2
      <3>4. \A a \in Buffers \ {b} : m.ctl[a].refcnt = Cardinality(Holders(n, a))
        BY <3>1 DEF Balanced
      <3>5. QED
        BY <2>2, <3>3, <3>4
    <2>4. QED
      BY <1>0, <1>5, <2>3 DEF BalancedPlus, Rehomed
  <1>6. ASSUME NEW x \in FreeBuffers(m),
               n.str[s].state = "INTERNAL", n.str[s].blk = x,
               n.ctl[x] = [refcnt |-> 1, alloc |-> n.str[s].dtor, ext |-> NoExt],
               \A a \in Buffers \ {x} : n.ctl[a] = m.ctl[a]
        PROVE  BalancedPlus(n, m.str[s])
    <2>1. x \in Buffers /\ x # b /\ Cardinality(Holders(m, x)) = 0
      BY <1>1 DEF FreeBuffers, Balanced
    <2>2. Holders(m, x) = {}
      BY <2>1, HoldersFinite, FS_EmptySet
    <2>3. Holders(n, x) = {s}
      BY <1>2, <1>6, <2>1, <2>2 DEF Holders, Counted
    <2>4. Cardinality(Holders(n, x)) = 1
      BY <2>3, FS_Singleton
    <2>5. \A a \in Buffers \ {x} : Holders(n, a) = Holders(n, a) \ {s}
      BY <1>6 DEF Holders
    <2>6. \A a \in Buffers : Cardinality(Holders(n, a)) \in Nat
      BY HoldersFinite
    <2>7. \A a \in Buffers : n.ctl[a].refcnt = Cardinality(Holders(n, a)) + (IF a = b THEN 1 ELSE 0)
      <3>1. \A a \in Buffers \ {b, x} : Holders(n, a) = Holders(m, a) /\ n.ctl[a] = m.ctl[a]
        BY <1>2, <1>3, <1>6, <2>5
      <3>2. Holders(n, b) = Holders(m, b) \ {s}
        BY <1>1, <1>2, <2>1, <2>5
      <3>3. CASE TRUE
        <4> TAKE a \in Buffers
        <4>1. CASE a = x
          BY <1>6, <2>1, <2>4, <4>1
        <4>2. CASE a = b
          BY <1>1, <1>4, <2>6, <3>2, <4>2
        <4>3. CASE a \notin {b, x}
          BY <2>6, <3>1, <4>3 DEF Balanced
        <4>4. QED
          BY <4>1, <4>2, <4>3
      <3>4. QED
        BY <3>3
    <2>8. QED
      BY <1>0, <2>7 DEF BalancedPlus, Rehomed
  <1>7. QED
    BY <1>4, <1>5, <1>6 DEF Rehomed

(***************************************************************************)
(* Freeing: a buffer nobody holds any more.                                *)
(***************************************************************************)
LEMMA FreeBufferShape ==
  ASSUME NEW m, Shape(m), NEW p, p.blk \in Buffers
  PROVE  LET n == FreeBuffer(m, p) IN
         /\ Shape(n) /\ n.str = m.str
         /\ n.ctl[p.blk] = FreeCtl
         /\ \A b \in Buffers \ {p.blk} : n.ctl[b] = m.ctl[b]
         /\ \A e \in Ext : n.held[e] <=> m.held[e] /\ e # p.dtor
  <1>1. FreeCtl \in CtlRec
    BY DEF FreeCtl, CtlRec
  <1>2. Shape(CallDtor(m, p.dtor)) /\ CallDtor(m, p.dtor).str = m.str
        /\ CallDtor(m, p.dtor).ctl = m.ctl
    BY DEF CallDtor, Shape
  <1>3. PICK d : d = CallDtor(m, p.dtor)
    OBVIOUS
  <1>4. PICK n : n = FreeBuffer(m, p)
    OBVIOUS
  <1>5. n = [d EXCEPT !.ctl[p.blk] = FreeCtl, !.mem[p.blk] = <<>>]
    BY <1>3, <1>4 DEF FreeBuffer
  <1>6. n = [str |-> d.str, mem |-> n.mem, ctl |-> [d.ctl EXCEPT ![p.blk] = FreeCtl],
             held |-> d.held]
    BY <1>2, <1>3, <1>5 DEF Shape
  <1>7. n.str = d.str /\ n.ctl = [d.ctl EXCEPT ![p.blk] = FreeCtl] /\ n.held = d.held
        /\ n = [str |-> n.str, mem |-> n.mem, ctl |-> n.ctl, held |-> n.held]
    BY <1>6
  <1>8. n.ctl \in [Buffers -> CtlRec] /\ n.ctl[p.blk] = FreeCtl
        /\ \A b \in Buffers \ {p.blk} : n.ctl[b] = m.ctl[b]
    BY <1>1, <1>2, <1>3, <1>7 DEF Shape
  <1>9. Shape(n)
    BY <1>2, <1>3, <1>7, <1>8 DEF Shape
  <1>10. \A e \in Ext : n.held[e] <=> m.held[e] /\ e # p.dtor
    <2>1. CASE p.dtor \in Ext
      <3>1. d.held = [m.held EXCEPT ![p.dtor] = FALSE]
        BY <1>3, <2>1 DEF CallDtor, Shape
      <3>2. \A e \in Ext : d.held[e] = IF e = p.dtor THEN FALSE ELSE m.held[e]
        BY <3>1 DEF Shape
      <3>3. QED
        BY <1>7, <3>2
    <2>2. CASE p.dtor \notin Ext
      BY <1>3, <1>7, <2>2 DEF CallDtor
    <2>3. QED
      BY <2>1, <2>2
  <1>11. QED
    BY <1>2, <1>3, <1>4, <1>7, <1>8, <1>9, <1>10

(* The user memory under a freed block is given back, no other.            *)
LEMMA FreeKeeps ==
  ASSUME NEW m, Shape(m), OneBlockEach(m), NEW p, p.blk \in Buffers, Knows(m, p), Assumptions
  PROVE  OneBlockEach(FreeBuffer(m, p))
  <1>1. PICK n : n = FreeBuffer(m, p)
    OBVIOUS
  <1>2. /\ n.ctl[p.blk] = FreeCtl
        /\ \A b \in Buffers \ {p.blk} : n.ctl[b] = m.ctl[b]
        /\ \A e \in Ext : n.held[e] <=> m.held[e] /\ e # p.dtor
    BY <1>1, FreeBufferShape
  <1>3. n.ctl[p.blk].ext \notin Ext
    BY <1>2 DEF FreeCtl, Assumptions
  <1>4. \A b \in Buffers : n.ctl[b].ext \in Ext =>
          b # p.blk /\ n.ctl[b] = m.ctl[b] /\ n.ctl[b].ext # p.dtor
    <2> SUFFICES ASSUME NEW b \in Buffers, n.ctl[b].ext \in Ext
                 PROVE  b # p.blk /\ n.ctl[b] = m.ctl[b] /\ n.ctl[b].ext # p.dtor
      OBVIOUS
    <2>1. b # p.blk /\ n.ctl[b] = m.ctl[b]
      BY <1>2, <1>3
    <2>2. m.ctl[b].ext # m.ctl[p.blk].ext
      BY <2>1 DEF OneBlockEach
    <2>3. QED
      BY <2>1, <2>2 DEF Knows
  <1>5. /\ \A b \in Buffers : n.ctl[b].ext \in Ext => n.held[n.ctl[b].ext] /\ n.ctl[b].refcnt # 0
        /\ \A b, c \in Buffers : n.ctl[b].ext = n.ctl[c].ext /\ n.ctl[b].ext \in Ext => b = c
    BY <1>2, <1>4 DEF OneBlockEach
  <1>6. \A e \in Ext : n.held[e] => \E b \in Buffers : n.ctl[b].ext = e
    <2> SUFFICES ASSUME NEW e \in Ext, n.held[e]
                 PROVE  \E b \in Buffers : n.ctl[b].ext = e
      OBVIOUS
    <2>1. m.held[e] /\ e # p.dtor
      BY <1>2
    <2>2. PICK b \in Buffers : m.ctl[b].ext = e
      BY <2>1 DEF OneBlockEach
    <2>3. b # p.blk
      BY <2>1, <2>2 DEF Knows
    <2>4. QED
      BY <1>2, <2>2, <2>3
  <1>7. QED
    BY <1>1, <1>5, <1>6 DEF OneBlockEach

(* Whoever does not point to the freed block still matches.                *)
LEMMA FreeMatched ==
  ASSUME NEW m, Shape(m), NEW p, p.blk \in Buffers, NEW t \in Objs, Matched(m, t),
         t \notin Holders(m, p.blk)
  PROVE  Matched(FreeBuffer(m, p), t)
  <1>1. PICK n : n = FreeBuffer(m, p)
    OBVIOUS
  <1>2. n.str = m.str /\ \A b \in Buffers \ {p.blk} : n.ctl[b] = m.ctl[b]
    BY <1>1, FreeBufferShape
  <1>3. CASE m.str[t].state \in Counted
    <2>1. m.str[t].blk \in Buffers \ {p.blk}
      BY <1>3 DEF Shape, Holders
    <2>2. QED
      BY <1>1, <1>2, <2>1 DEF Matched
  <1>4. CASE m.str[t].state \notin Counted
    BY <1>1, <1>2, <1>4 DEF Matched, Counted
  <1>5. QED
    BY <1>3, <1>4

LEMMA FreeBut ==
  ASSUME NEW m, Balanced(m), Assumptions, NEW s \in Objs, m.str[s].state \in Counted,
         Unique(m, s)
  PROVE  LET n == FreeBuffer(m, m.str[s]) IN
         /\ BalancedBut(n, s) /\ n.str = m.str
         /\ FreeBuffers(m) \subseteq FreeBuffers(n) /\ FreeBuffers(n) # {}
         /\ NoneTaken(m, n)
  <1> DEFINE p == m.str[s]
  <1>1. p.blk \in Buffers /\ m.ctl[p.blk].refcnt = 1 /\ Shape(m) /\ OneBlockEach(m)
        /\ \A t \in Objs : Matched(m, t)
    BY DEF Balanced, Shape, Unique
  <1>2. Holders(m, p.blk) \ {s} = {}
    <2>1. IsFiniteSet(Holders(m, p.blk) \ {s})
      BY HoldersFinite, FS_RemoveElement
    <2>2. Cardinality(Holders(m, p.blk) \ {s}) = 0
      BY <1>1, <2>1, HolderCounts, FS_CardinalityType
    <2>3. QED
      BY <2>1, <2>2, FS_EmptySet
  <1>3. PICK n : n = FreeBuffer(m, p)
    OBVIOUS
  <1>4. Shape(n) /\ n.str = m.str /\ n.ctl[p.blk].refcnt = 0
        /\ \A b \in Buffers \ {p.blk} : n.ctl[b] = m.ctl[b]
    BY <1>1, <1>3, FreeBufferShape DEF FreeCtl
  <1>5. OneBlockEach(n)
    BY <1>1, <1>3, MatchedKnows, FreeKeeps
  <1>6. \A t \in Objs \ {s} : Matched(n, t)
    <2> TAKE t \in Objs \ {s}
    <2>1. Matched(m, t) /\ t \notin Holders(m, p.blk)
      BY <1>1, <1>2
    <2>2. QED
      BY <1>1, <1>3, <2>1, FreeMatched
  <1>7. \A b \in Buffers : Holders(n, b) = Holders(m, b)
    BY <1>4 DEF Holders
  <1>8. \A b \in Buffers \ {p.blk} : Holders(m, b) \ {s} = Holders(m, b)
    BY DEF Holders
  <1>9. \A b \in Buffers : n.ctl[b].refcnt = Cardinality(Holders(n, b) \ {s})
    <2> TAKE b \in Buffers
    <2>1. CASE b = p.blk
      BY <1>2, <1>4, <1>7, <2>1, FS_EmptySet
    <2>2. CASE b # p.blk
      BY <1>4, <1>7, <1>8, <2>2 DEF Balanced
    <2>3. QED
      BY <2>1, <2>2
  <1>10. BalancedBut(n, s)
    BY <1>4, <1>5, <1>6, <1>9 DEF BalancedBut
  <1>11. FreeBuffers(m) \subseteq FreeBuffers(n) /\ p.blk \in FreeBuffers(n)
    BY <1>1, <1>4 DEF FreeBuffers
  <1>12. NoneTaken(m, n)
    BY <1>1, <1>3, FreeBufferShape DEF NoneTaken
  <1>13. QED
    BY <1>3, <1>4, <1>10, <1>11, <1>12

LEMMA FreePlus ==
  ASSUME NEW m, NEW p, Assumptions, p.blk \in Buffers, BalancedPlus(m, p),
         m.ctl[p.blk].refcnt = 1
  PROVE  Balanced(FreeBuffer(m, p)) /\ FreeBuffer(m, p).str = m.str
  <1>1. PICK n : n = FreeBuffer(m, p)
    OBVIOUS
  <1>2. Shape(n) /\ n.str = m.str /\ n.ctl[p.blk].refcnt = 0
        /\ \A b \in Buffers \ {p.blk} : n.ctl[b] = m.ctl[b]
    BY <1>1, FreeBufferShape DEF BalancedPlus, FreeCtl
  <1>3. \A b \in Buffers : Holders(n, b) = Holders(m, b)
    BY <1>2 DEF Holders
  <1>4. Cardinality(Holders(m, p.blk)) = 0
    BY HoldersFinite DEF BalancedPlus
  <1>5. Holders(m, p.blk) = {}
    BY <1>4, HoldersFinite, FS_EmptySet
  <1>6. OneBlockEach(n)
    BY <1>1, FreeKeeps DEF BalancedPlus
  <1>7. \A t \in Objs : Matched(n, t)
    BY <1>1, <1>5, FreeMatched DEF BalancedPlus
  <1>8. \A b \in Buffers : n.ctl[b].refcnt = Cardinality(Holders(n, b))
    <2> TAKE b \in Buffers
    <2>1. CASE b = p.blk
      BY <1>2, <1>3, <1>4, <2>1
    <2>2. CASE b # p.blk
      BY <1>2, <1>3, <2>2, HoldersFinite DEF BalancedPlus
    <2>3. QED
      BY <2>1, <2>2
  <1>9. QED
    BY <1>1, <1>2, <1>6, <1>7, <1>8 DEF Balanced

(* The last reference: its count does not matter to the free that follows. *)
LEMMA LastReference ==
  ASSUME NEW m, Shape(m), NEW p, p.blk \in Buffers, m.ctl[p.blk].refcnt \in Nat
  PROVE  ReleaseBuffer(m, p) = IF m.ctl[p.blk].refcnt = 1 THEN FreeBuffer(m, p) ELSE DecRef(m, p.blk)
  <1> DEFINE b == p.blk
  <1>1. PICK d : d = DecRef(m, b)
    OBVIOUS
  <1>2. d = [str |-> m.str, mem |-> m.mem, held |-> m.held,
             ctl |-> [m.ctl EXCEPT ![b].refcnt = @ - 1]]
    BY <1>1 DEF DecRef, Shape
  <1>3. d.ctl[b].refcnt = m.ctl[b].refcnt - 1
    BY <1>2 DEF Shape, CtlRec
  <1>4. [d.ctl EXCEPT ![b] = FreeCtl] = [m.ctl EXCEPT ![b] = FreeCtl]
    BY <1>2 DEF Shape
  <1>5. FreeBuffer(d, p) = FreeBuffer(m, p)
    <2>1. PICK g, h : g = CallDtor(d, p.dtor) /\ h = CallDtor(m, p.dtor)
      OBVIOUS
    <2>2. g.mem = h.mem /\ g.str = h.str /\ g.held = h.held /\ g.ctl = d.ctl /\ h.ctl = m.ctl
          /\ g = [str |-> g.str, mem |-> g.mem, ctl |-> g.ctl, held |-> g.held]
          /\ h = [str |-> h.str, mem |-> h.mem, ctl |-> h.ctl, held |-> h.held]
      BY <1>2, <2>1 DEF CallDtor, Shape
    <2>3. [g EXCEPT !.ctl[b] = FreeCtl, !.mem[b] = <<>>] = [h EXCEPT !.ctl[b] = FreeCtl, !.mem[b] = <<>>]
      BY <1>4, <2>2
    <2>4. QED
      BY <2>1, <2>3 DEF FreeBuffer
  <1>6. QED
    BY <1>1, <1>3, <1>5 DEF ReleaseBuffer

LEMMA ReleasePlus ==
  ASSUME NEW m, NEW p, Assumptions, p.blk \in Buffers, BalancedPlus(m, p)
  PROVE  Balanced(ReleaseBuffer(m, p)) /\ ReleaseBuffer(m, p).str = m.str
  <1> DEFINE b == p.blk
  <1>1. m.ctl[b].refcnt = Cardinality(Holders(m, b)) + 1 /\ Cardinality(Holders(m, b)) \in Nat
        /\ Shape(m)
    BY HoldersFinite DEF BalancedPlus
  <1>2. CASE m.ctl[b].refcnt = 1
    BY <1>1, <1>2, FreePlus, LastReference
  <1>3. CASE m.ctl[b].refcnt # 1
    <2>1. PICK d : d = DecRef(m, b)
      OBVIOUS
    <2>0. m.ctl[b].refcnt \in Nat /\ m.ctl[b].refcnt # 0
      BY <1>1
    <2>2. Shape(d) /\ d.str = m.str /\ d.held = m.held
      BY <1>1, <2>0, <2>1, DecRefShape
    <2>3. d.ctl[b].refcnt = Cardinality(Holders(m, b)) /\ d.ctl[b].refcnt # 0
          /\ \A a \in Buffers \ {b} : d.ctl[a] = m.ctl[a]
      <3>1. d.ctl[b].refcnt = m.ctl[b].refcnt - 1 /\ \A a \in Buffers \ {b} : d.ctl[a] = m.ctl[a]
        BY <1>1, <2>0, <2>1, DecRefShape
      <3>2. QED
        BY <1>1, <1>3, <3>1
    <2>4. \A a \in Buffers : d.ctl[a].ext = m.ctl[a].ext /\ d.ctl[a].alloc = m.ctl[a].alloc
      BY <1>1, <2>0, <2>1, DecRefShape
    <2>5. \A a \in Buffers : Holders(d, a) = Holders(m, a)
      BY <2>2 DEF Holders
    <2>6. \A a \in Buffers : d.ctl[a].refcnt = Cardinality(Holders(d, a))
      BY <2>3, <2>5, HoldersFinite DEF BalancedPlus
    <2>7. OneBlockEach(d)
      <3>1. \A a \in Buffers : d.ctl[a].refcnt = 0 => m.ctl[a].refcnt = 0
        BY <2>3
      <3>2. QED
        BY <2>2, <2>4, <3>1 DEF BalancedPlus, OneBlockEach
    <2>8. \A t \in Objs : Matched(d, t)
      BY <2>2, <2>4 DEF BalancedPlus, Shape, Matched, Counted
    <2>9. QED
      BY <1>1, <1>3, <2>1, <2>2, <2>6, <2>7, <2>8, LastReference DEF Balanced
  <1>4. QED
    BY <1>2, <1>3

(***************************************************************************)
(* s gives up its buffer before it takes another storage.                  *)
(***************************************************************************)
LEMMA ReleaseBufferBut ==
  ASSUME NEW m, Balanced(m), Assumptions, NEW s \in Objs, m.str[s].state \in Counted
  PROVE  LET n == ReleaseBuffer(m, m.str[s]) IN
         /\ BalancedBut(n, s) /\ n.str = m.str /\ FreeBuffers(m) \subseteq FreeBuffers(n)
         /\ NoneTaken(m, n)
  <1>1. ReleaseBuffer(m, m.str[s]) = IF Unique(m, s) THEN FreeBuffer(m, m.str[s])
                                                     ELSE DecRef(m, m.str[s].blk)
    BY HolderCounts, LastReference DEF Balanced, Unique
  <1>2. CASE Unique(m, s)
    BY <1>1, <1>2, FreeBut
  <1>3. CASE ~Unique(m, s)
    BY <1>1, <1>3, DecRefBut
  <1>4. QED
    BY <1>2, <1>3

LEMMA VoidRec == Assumptions => Void \in StrRec /\ Void.state \notin Counted
  BY DEF Assumptions, Void, Dtors, StrRec, States, Counted

LEMMA LiteralRecTyped ==
  ASSUME Assumptions, NEW l \in Literals
  PROVE  /\ LiteralRec(l) \in StrRec /\ LiteralRec(l).state \notin Counted
         /\ Len(LitText[l]) \in Nat
  <1>1. Len(LitText[l]) \in Nat
    BY DEF Assumptions
  <1>2. QED
    BY <1>1 DEF LiteralRec, Dtors, StrRec, States, Counted

(* Release leaves s without storage, ready to take a new one.              *)
LEMMA ReleaseGood ==
  ASSUME NEW m, Balanced(m), Assumptions, NEW s \in Objs
  PROVE  LET n == Release(m, s) IN
         /\ Balanced(n) /\ n.str = [m.str EXCEPT ![s] = Void]
         /\ FreeBuffers(m) \subseteq FreeBuffers(n) /\ NoneTaken(m, n)
  <1> DEFINE n == Release(m, s)
  <1>1. \E d : /\ BalancedBut(d, s) /\ d.str = m.str /\ FreeBuffers(m) \subseteq FreeBuffers(d)
               /\ NoneTaken(m, d)
               /\ n = [d EXCEPT !.str[s] = Void, !.mem[s] = <<>>]
    BY ReleaseBufferBut, UncountedBut DEF Release, NoneTaken
  <1>2. PICK d : /\ BalancedBut(d, s) /\ d.str = m.str
                 /\ FreeBuffers(m) \subseteq FreeBuffers(d) /\ NoneTaken(m, d)
                 /\ n = [d EXCEPT !.str[s] = Void, !.mem[s] = <<>>]
    BY <1>1
  <1>3. Shape(n) /\ n.ctl = d.ctl /\ n.held = d.held /\ n.str = [d.str EXCEPT ![s] = Void]
    <2>1. Shape(d) /\ Void \in StrRec /\ (Void.state \in Counted => Void.blk \in Buffers)
      BY <1>2, VoidRec DEF BalancedBut
    <2>2. n = [str |-> [d.str EXCEPT ![s] = Void], mem |-> [d.mem EXCEPT ![s] = <<>>],
               ctl |-> d.ctl, held |-> d.held]
      BY <1>2, <2>1 DEF Shape
    <2> HIDE DEF n
    <2>3. n.str = [d.str EXCEPT ![s] = Void] /\ n.ctl = d.ctl /\ n.held = d.held
          /\ n = [str |-> n.str, mem |-> n.mem, ctl |-> n.ctl, held |-> n.held]
      BY <2>2
    <2>4. QED
      BY <2>1, <2>3, SetStrShape
  <1>4. Rehomed(d, n, s)
    BY <1>2, <1>3, VoidRec DEF Rehomed, OthersStay, BalancedBut, Shape
  <1>5. QED
    BY <1>2, <1>3, <1>4, RehomedBut DEF Outcome, FreeBuffers, NoneTaken

(* User memory is adopted only while no string holds it.                   *)
LEMMA UnheldUnder ==
  ASSUME NEW m, OneBlockEach(m), NEW e \in Ext, ~m.held[e]
  PROVE  \A b \in Buffers : m.ctl[b].ext # e
  BY DEF OneBlockEach

LEMMA NewExternalGood ==
  ASSUME NEW m, Balanced(m), Assumptions, FreeBuffers(m) # {}, NEW s \in Objs,
         m.str[s].state \notin Counted, NEW e \in Ext, ~m.held[e], NEW l \in Literals
  PROVE  Outcome(m, NewExternal(m, s, e, l), s)
  <1>1. PICK x : x = AnyFree(m)
    OBVIOUS
  <1>2. x \in Buffers /\ m.ctl[x].refcnt = 0
    BY <1>1, AnyFreeIsFree DEF FreeBuffers
  <1>3. PICK r : r = ExternalRec(x, e, l)
    OBVIOUS
  <1>4. r \in StrRec /\ r.state = "EXTERNAL" /\ r.state \in Counted /\ r.blk = x /\ r.dtor = e
    BY <1>2, <1>3, LiteralRecTyped DEF ExternalRec, Dtors, StrRec, States, Counted
  <1>5. PICK c : c = [refcnt |-> 1, alloc |-> AllocOf[s], ext |-> e]
    OBVIOUS
  <1>6. c \in CtlRec /\ c.refcnt = 1 /\ c.ext = e
    BY <1>5 DEF CtlRec, Allocs
  <1>7. PICK n : n = NewExternal(m, s, e, l)
    OBVIOUS
  <1>8. /\ n = [str |-> n.str, mem |-> n.mem, ctl |-> n.ctl, held |-> n.held]
        /\ n.str = [m.str EXCEPT ![s] = r] /\ n.ctl = [m.ctl EXCEPT ![x] = c]
        /\ n.held = [m.held EXCEPT ![e] = TRUE]
    <2> DEFINE w == Overlay(Junks(ExtSize), 0, LitText[l])
    <2>1. n = [m EXCEPT !.str[s] = r, !.ctl[x] = c, !.mem[x] = w, !.mem[s] = <<>>,
                        !.held[e] = TRUE]
      BY <1>1, <1>3, <1>5, <1>7 DEF NewExternal
    <2> HIDE DEF w
    <2>2. n = [str |-> [m.str EXCEPT ![s] = r], mem |-> n.mem, ctl |-> [m.ctl EXCEPT ![x] = c],
               held |-> [m.held EXCEPT ![e] = TRUE]]
      BY <2>1 DEF Balanced, Shape
    <2>3. QED
      BY <2>2
  <1>9. /\ n.str[s] = r /\ \A t \in Objs \ {s} : n.str[t] = m.str[t]
        /\ n.ctl[x] = c /\ \A b \in Buffers \ {x} : n.ctl[b] = m.ctl[b]
        /\ n.held[e] /\ \A g \in Ext \ {e} : n.held[g] = m.held[g]
    BY <1>2, <1>8 DEF Balanced, Shape
  <1>10. Shape(n)
    <2>1. \A t \in Objs : n.str[t].state \in Counted => n.str[t].blk \in Buffers
      BY <1>2, <1>4, <1>9 DEF Balanced, Shape
    <2>2. n.str \in [Objs -> StrRec] /\ n.ctl \in [Buffers -> CtlRec]
          /\ n.held \in [Ext -> BOOLEAN]
      BY <1>2, <1>4, <1>6, <1>8 DEF Balanced, Shape
    <2>3. QED
      BY <1>8, <2>1, <2>2 DEF Shape
  <1>11. Holders(m, x) = {}
    BY <1>2, HoldersFinite, FS_EmptySet DEF Balanced
  <1>12. Holders(n, x) = {s} /\ \A b \in Buffers \ {x} : Holders(n, b) = Holders(m, b)
    BY <1>4, <1>9, <1>11 DEF Holders
  <1>13. \A b \in Buffers : n.ctl[b].refcnt = Cardinality(Holders(n, b))
    <2>1. Cardinality(Holders(n, x)) = 1
      BY <1>12, FS_Singleton
    <2>2. n.ctl[x].refcnt = 1
      BY <1>6, <1>9
    <2>3. \A b \in Buffers \ {x} : n.ctl[b].refcnt = Cardinality(Holders(n, b))
      <3>1. \A b \in Buffers : m.ctl[b].refcnt = Cardinality(Holders(m, b))
        BY DEF Balanced
      <3>2. \A b \in Buffers \ {x} : n.ctl[b].refcnt = m.ctl[b].refcnt
        BY <1>9
      <3>3. \A b \in Buffers \ {x} : Holders(n, b) = Holders(m, b)
        BY <1>12
      <3>4. QED
        BY <3>1, <3>2, <3>3
    <2>4. QED
      BY <2>1, <2>2, <2>3
  <1>14. OneBlockEach(n)
    <2>1. m.ctl[x].ext \notin Ext
      BY <1>2 DEF Balanced, OneBlockEach
    <2>2. \A b \in Buffers : m.ctl[b].ext # e
      BY UnheldUnder DEF Balanced
    <2>3. QED
      BY <1>2, <1>6, <1>9, <2>1, <2>2 DEF Balanced, OneBlockEach
  <1>15. \A t \in Objs : Matched(n, t)
    <2>1. Matched(n, s)
      BY <1>4, <1>6, <1>9 DEF Matched
    <2>2. ASSUME NEW t \in Objs \ {s}
          PROVE  Matched(n, t)
      <3>1. n.str[t] = m.str[t] /\ Matched(m, t)
        BY <1>9 DEF Balanced
      <3>2. m.str[t].state \in Counted => n.ctl[m.str[t].blk] = m.ctl[m.str[t].blk]
        BY <1>9, <1>11 DEF Holders, Balanced, Shape
      <3>3. QED
        BY <3>1, <3>2 DEF Matched, Counted
    <2>3. QED
      BY <2>1, <2>2
  <1>16. Outcome(m, n, s)
    BY <1>9, <1>10, <1>13, <1>14, <1>15 DEF Outcome, Balanced
  <1>17. QED
    BY <1>7, <1>16

LEMMA ReplaceExternalGood ==
  ASSUME NEW m, Balanced(m), Assumptions, NEW s \in Objs,
         m.str[s].state = "EXTERNAL", Unique(m, s), NEW e \in Ext, ~m.held[e], NEW l \in Literals
  PROVE  Outcome(m, ReplaceExternal(m, s, e, l), s)
  <1>1. PICK b : b = m.str[s].blk
    OBVIOUS
  <1>2. b \in Buffers /\ "EXTERNAL" \in Counted /\ m.ctl[b].refcnt = 1
    BY <1>1 DEF Balanced, Shape, Counted, Unique
  <1>3. PICK o : o = m.str[s].dtor
    OBVIOUS
  <1>4. o \in Ext /\ m.ctl[b].ext = o /\ m.held[o] /\ o # e
    BY <1>1, <1>2, <1>3 DEF Balanced, Matched, OneBlockEach
  <1>5. PICK r : r = ExternalRec(b, e, l)
    OBVIOUS
  <1>6. r \in StrRec /\ r.state = "EXTERNAL" /\ r.blk = b /\ r.dtor = e
    BY <1>2, <1>5, LiteralRecTyped DEF ExternalRec, Dtors, StrRec, States, Counted
  <1>7. PICK n : n = ReplaceExternal(m, s, e, l)
    OBVIOUS
  <1>8. /\ n = [str |-> n.str, mem |-> n.mem, ctl |-> n.ctl, held |-> n.held]
        /\ n.str = [m.str EXCEPT ![s] = r] /\ n.ctl = [m.ctl EXCEPT ![b].ext = e]
        /\ n.held = [[m.held EXCEPT ![o] = FALSE] EXCEPT ![e] = TRUE]
    <2> DEFINE w == Overlay(Junks(ExtSize), 0, LitText[l])
    <2>1. PICK d : d = CallDtor(m, o)
      OBVIOUS
    <2>2. d = [str |-> m.str, mem |-> m.mem, ctl |-> m.ctl, held |-> [m.held EXCEPT ![o] = FALSE]]
      BY <1>4, <2>1 DEF CallDtor, Balanced, Shape
    <2>3. n = [d EXCEPT !.str[s] = r, !.ctl[b].ext = e, !.mem[b] = w, !.held[e] = TRUE]
      BY <1>1, <1>3, <1>5, <1>7, <2>1 DEF ReplaceExternal
    <2> HIDE DEF w
    <2>4. n = [str |-> [m.str EXCEPT ![s] = r], mem |-> n.mem, ctl |-> [m.ctl EXCEPT ![b].ext = e],
               held |-> [[m.held EXCEPT ![o] = FALSE] EXCEPT ![e] = TRUE]]
      BY <2>2, <2>3
    <2>5. QED
      BY <2>4
  <1>9. /\ n.str[s] = r /\ \A t \in Objs \ {s} : n.str[t] = m.str[t]
        /\ n.ctl[b] = [m.ctl[b] EXCEPT !.ext = e] /\ \A a \in Buffers \ {b} : n.ctl[a] = m.ctl[a]
        /\ n.held[e] /\ \A g \in Ext \ {e} : n.held[g] <=> m.held[g] /\ g # o
    BY <1>2, <1>8 DEF Balanced, Shape
  <1>10. n.ctl[b] \in CtlRec /\ n.ctl[b].refcnt = m.ctl[b].refcnt /\ n.ctl[b].ext = e
    BY <1>2, <1>9 DEF Balanced, Shape, CtlRec
  <1>11. Shape(n)
    <2>1. n.str \in [Objs -> StrRec]
      BY <1>6, <1>8 DEF Balanced, Shape
    <2>2. n.ctl \in [Buffers -> CtlRec]
      BY <1>2, <1>8, <1>9, <1>10 DEF Balanced, Shape
    <2>3. n.held \in [Ext -> BOOLEAN]
      BY <1>8 DEF Balanced, Shape
    <2>4. \A t \in Objs : n.str[t].state \in Counted => n.str[t].blk \in Buffers
      BY <1>2, <1>6, <1>9 DEF Balanced, Shape
    <2>5. QED
      BY <1>8, <2>1, <2>2, <2>3, <2>4 DEF Shape
  <1>12. \A t \in Objs : n.str[t].state = m.str[t].state /\ n.str[t].blk = m.str[t].blk
    BY <1>1, <1>6, <1>9
  <1>13. \A a \in Buffers : n.ctl[a].refcnt = Cardinality(Holders(n, a))
    <2>1. \A a \in Buffers : Holders(n, a) = Holders(m, a)
      BY <1>12 DEF Holders
    <2>2. \A a \in Buffers : n.ctl[a].refcnt = m.ctl[a].refcnt
      BY <1>9, <1>10
    <2>3. QED
      BY <2>1, <2>2 DEF Balanced
  <1>14. OneBlockEach(n)
    <2>1. \A a \in Buffers : m.ctl[a].ext # e
      BY UnheldUnder DEF Balanced
    <2>2. \A a \in Buffers \ {b} : m.ctl[a].ext # o
      BY <1>2, <1>4 DEF Balanced, OneBlockEach
    <2>3. /\ \A a \in Buffers : n.ctl[a].ext \in Ext => n.held[n.ctl[a].ext] /\ n.ctl[a].refcnt # 0
          /\ \A a, c \in Buffers : n.ctl[a].ext = n.ctl[c].ext /\ n.ctl[a].ext \in Ext => a = c
      <3>1. \A a \in Buffers \ {b} : n.ctl[a] = m.ctl[a] /\ n.ctl[a].ext # e /\ n.ctl[a].ext # o
        BY <1>9, <2>1, <2>2
      <3>2. n.ctl[b].ext = e /\ n.ctl[b].refcnt # 0 /\ n.held[e]
        BY <1>2, <1>9, <1>10
      <3>3. \A a \in Buffers \ {b} : n.ctl[a].ext \in Ext => n.held[n.ctl[a].ext] /\ n.ctl[a].refcnt # 0
        BY <1>9, <3>1 DEF Balanced, OneBlockEach
      <3>4. \A a, c \in Buffers \ {b} : n.ctl[a].ext = n.ctl[c].ext /\ n.ctl[a].ext \in Ext => a = c
        BY <3>1 DEF Balanced, OneBlockEach
      <3>5. QED
        BY <3>1, <3>2, <3>3, <3>4
    <2>4. \A g \in Ext : n.held[g] => \E a \in Buffers : n.ctl[a].ext = g
      <3> SUFFICES ASSUME NEW g \in Ext, n.held[g], g # e
                   PROVE  \E a \in Buffers : n.ctl[a].ext = g
        BY <1>2, <1>10
      <3>1. m.held[g] /\ g # o
        BY <1>9
      <3>2. PICK a \in Buffers : m.ctl[a].ext = g
        BY <3>1 DEF Balanced, OneBlockEach
      <3>3. a # b
        BY <1>4, <3>1, <3>2
      <3>4. QED
        BY <1>9, <3>2, <3>3
    <2>5. QED
      BY <2>3, <2>4 DEF OneBlockEach
  <1>15. \A t \in Objs : Matched(n, t)
    <2>1. Matched(n, s)
      BY <1>6, <1>9, <1>10 DEF Matched
    <2>2. ASSUME NEW t \in Objs \ {s}
          PROVE  Matched(n, t)
      <3>1. n.str[t] = m.str[t] /\ Matched(m, t)
        BY <1>9 DEF Balanced
      <3>2. m.str[t].state \in Counted => m.str[t].blk \in Buffers \ {b}
        <4>1. IsFiniteSet(Holders(m, b) \ {s}) /\ Cardinality(Holders(m, b) \ {s}) = 0
          <5>1. Cardinality(Holders(m, b) \ {s}) \in Nat /\ IsFiniteSet(Holders(m, b) \ {s})
            BY HoldersFinite, FS_RemoveElement, FS_CardinalityType
          <5>2. QED
            BY <1>1, <1>2, <5>1, HolderCounts
        <4>2. Holders(m, b) \ {s} = {}
          BY <4>1, FS_EmptySet
        <4>3. QED
          BY <4>2 DEF Holders, Balanced, Shape
      <3>3. m.str[t].state \in Counted => n.ctl[m.str[t].blk] = m.ctl[m.str[t].blk]
        BY <1>9, <3>2
      <3>4. QED
        BY <3>1, <3>3 DEF Matched, Counted
    <2>3. QED
      BY <2>1, <2>2
  <1>16. Outcome(m, n, s)
    BY <1>11, <1>12, <1>13, <1>14, <1>15 DEF Outcome, Balanced
  <1>17. QED
    BY <1>7, <1>16

(***************************************************************************)
(* Sharing and moving.                                                     *)
(***************************************************************************)
LEMMA RebasedTyped ==
  ASSUME NEW m, Shape(m), NEW s \in Objs, NEW t \in Objs
  PROVE  /\ Rebased(m, s, t) \in StrRec
         /\ Rebased(m, s, t).state = m.str[t].state
         /\ Rebased(m, s, t).dtor = m.str[t].dtor
         /\ m.str[t].state \in Counted => Rebased(m, s, t).blk = m.str[t].blk
  BY DEF Rebased, Shape, StrRec, Counted

LEMMA CowGood ==
  ASSUME NEW m, Balanced(m), Assumptions, NEW s \in Objs, NEW t \in Objs, s # t,
         m.str[s].state \notin Counted, NEW off \in Nat, NEW len \in Nat
  PROVE  LET n == Cow(m, s, t, off, len) IN
         /\ Outcome(m, n, s)
         /\ n.str[s].state = m.str[t].state /\ n.str[s].len = len
         /\ n.str[t] = m.str[t]
         /\ FreeBuffers(m) \subseteq FreeBuffers(n)
  <1> DEFINE r == [Rebased(m, s, t) EXCEPT !.off = @ + off, !.len = len]
             n == Cow(m, s, t, off, len)
             b == m.str[t].blk
  <1>1. r \in StrRec /\ r.state = m.str[t].state /\ (m.str[t].state \in Counted => r.blk = b)
        /\ r.dtor = m.str[t].dtor /\ r.len = len
    <2>1. PICK p \in StrRec : /\ p = Rebased(m, s, t) /\ p.state = m.str[t].state
                              /\ p.dtor = m.str[t].dtor
                              /\ m.str[t].state \in Counted => p.blk = b
      BY RebasedTyped DEF Balanced
    <2>2. PICK q : q = r
      OBVIOUS
    <2>3. q = [p EXCEPT !.off = @ + off, !.len = len]
      BY <2>1, <2>2
    <2>4. q = [state |-> p.state, blk |-> p.blk, off |-> p.off + off, len |-> len, dtor |-> p.dtor]
      BY <2>3 DEF StrRec
    <2>5. QED
      BY <2>1, <2>2, <2>4 DEF StrRec
  <1> HIDE DEF r
  <1>2. PICK c : /\ Shape(c) /\ c.ctl = m.ctl /\ c.held = m.held /\ c.str = [m.str EXCEPT ![s] = r]
                 /\ n = IF m.str[t].state \in Counted THEN [c EXCEPT !.ctl[b].refcnt = @ + 1] ELSE c
    <2>0. PICK c : c = [m EXCEPT !.str[s] = r, !.mem[s] = m.mem[t]]
      OBVIOUS
    <2>1. Shape(c) /\ c.ctl = m.ctl /\ c.held = m.held /\ c.str = [m.str EXCEPT ![s] = r]
      <3>1. c = [str |-> [m.str EXCEPT ![s] = r], mem |-> [m.mem EXCEPT ![s] = m.mem[t]],
                 ctl |-> m.ctl, held |-> m.held]
        BY <2>0 DEF Balanced, Shape
      <3>2. c.str = [m.str EXCEPT ![s] = r] /\ c.ctl = m.ctl /\ c.held = m.held
            /\ c = [str |-> c.str, mem |-> c.mem, ctl |-> c.ctl, held |-> c.held]
        BY <3>1
      <3>3. r.state \in Counted => r.blk \in Buffers
        BY <1>1 DEF Balanced, Shape
      <3>4. QED
        BY <1>1, <3>2, <3>3, SetStrShape DEF Balanced
    <2>2. n = IF m.str[t].state \in Counted THEN [c EXCEPT !.ctl[b].refcnt = @ + 1] ELSE c
      BY <2>0 DEF Cow, r
    <2>3. QED
      BY <2>1, <2>2
  <1>3. n = IF m.str[t].state \in Counted THEN [c EXCEPT !.ctl[b].refcnt = @ + 1] ELSE c
    BY <1>2
  <1> HIDE DEF n
  <1>4. CASE m.str[t].state \notin Counted
    <2>1. Rehomed(m, n, s)
      BY <1>1, <1>2, <1>3, <1>4 DEF Rehomed, OthersStay, Balanced, Shape
    <2>2. Outcome(m, n, s)
      BY <2>1, UncountedBut, RehomedBut
    <2>3. n = c
      BY <1>3, <1>4
    <2>4. n.str[t] = m.str[t] /\ n.str[s] = r /\ FreeBuffers(n) = FreeBuffers(m)
      BY <1>2, <2>3 DEF FreeBuffers, Balanced, Shape
    <2>5. QED
      BY <1>1, <2>2, <2>4 DEF n
  <1>5. CASE m.str[t].state \in Counted
    <2>1. b \in Buffers /\ m.ctl[b].refcnt \in Nat /\ m.ctl[b].refcnt >= 1
      BY <1>5, HolderCounts
    <2>2. n = [str |-> c.str, mem |-> c.mem, ctl |-> [m.ctl EXCEPT ![b].refcnt = @ + 1],
               held |-> c.held]
      BY <1>2, <1>3, <1>5 DEF Shape
    <2>3. Shape(n) /\ n.ctl[b].refcnt = m.ctl[b].refcnt + 1
          /\ n.ctl[b].ext = m.ctl[b].ext /\ n.ctl[b].alloc = m.ctl[b].alloc
          /\ \A a \in Buffers \ {b} : n.ctl[a] = m.ctl[a]
      <3>1. [m.ctl[b] EXCEPT !.refcnt = @ + 1] \in CtlRec
            /\ [m.ctl[b] EXCEPT !.refcnt = @ + 1].refcnt = m.ctl[b].refcnt + 1
            /\ [m.ctl[b] EXCEPT !.refcnt = @ + 1].ext = m.ctl[b].ext
            /\ [m.ctl[b] EXCEPT !.refcnt = @ + 1].alloc = m.ctl[b].alloc
        BY <2>1 DEF Balanced, Shape, CtlRec
      <3>2. /\ n.str = c.str /\ n.held = c.held
            /\ n.ctl = [m.ctl EXCEPT ![b] = [m.ctl[b] EXCEPT !.refcnt = @ + 1]]
            /\ n = [str |-> n.str, mem |-> n.mem, ctl |-> n.ctl, held |-> n.held]
        BY <2>2
      <3>3. n.ctl \in [Buffers -> CtlRec]
        BY <2>1, <3>1, <3>2 DEF Balanced, Shape
      <3>4. Shape(n)
        BY <1>2, <3>2, <3>3 DEF Shape
      <3>5. QED
        BY <2>1, <3>1, <3>2, <3>4 DEF Balanced, Shape
    <2>4. n.str = [m.str EXCEPT ![s] = r]
      BY <1>2, <2>2
    <2>5. Holders(n, b) = Holders(m, b) \cup {s} /\ s \notin Holders(m, b)
      BY <1>1, <1>5, <2>4 DEF Holders, Balanced, Shape
    <2>6. \A a \in Buffers \ {b} : Holders(n, a) = Holders(m, a)
      BY <1>1, <1>5, <2>4 DEF Holders, Balanced, Shape
    <2>7. Cardinality(Holders(n, b)) = Cardinality(Holders(m, b)) + 1
      BY <2>5, HoldersFinite, FS_AddElement
    <2>8. Balanced(n)
      <3>1. n.held = m.held /\ \A a \in Buffers : n.ctl[a].ext = m.ctl[a].ext
                                             /\ n.ctl[a].alloc = m.ctl[a].alloc
                                             /\ (n.ctl[a].refcnt = 0 => m.ctl[a].refcnt = 0)
        <4>1. n.held = m.held
          BY <1>2, <2>2
        <4>2. n.ctl[b].refcnt # 0
          BY <2>1, <2>3
        <4>3. QED
          BY <2>3, <4>1, <4>2
      <3>2. OneBlockEach(n)
        BY <3>1 DEF Balanced, OneBlockEach
      <3>3. n.str[s] = r /\ \A u \in Objs \ {s} : n.str[u] = m.str[u]
        BY <2>4 DEF Balanced, Shape
      <3>4. \A u \in Objs \ {s} : Matched(n, u)
        BY <3>1, <3>3 DEF Balanced, Shape, Matched, Counted
      <3>5. Matched(n, s)
        BY <1>1, <1>5, <2>1, <3>1, <3>3 DEF Balanced, Matched
      <3>6. QED
        BY <2>1, <2>3, <2>6, <2>7, <3>2, <3>4, <3>5 DEF Balanced
    <2>9. n.str[t] = m.str[t] /\ n.str[s] = r /\ \A u \in Objs \ {s} : n.str[u] = m.str[u]
      BY <2>4 DEF Balanced, Shape
    <2>10. FreeBuffers(m) \subseteq FreeBuffers(n)
      BY <2>1, <2>3 DEF FreeBuffers
    <2>11. QED
      BY <1>1, <2>8, <2>9, <2>10 DEF Outcome, n
  <1>6. QED
    BY <1>4, <1>5

LEMMA SliceTyped ==
  ASSUME NEW p, p.len \in Nat, NEW pos \in Nat, pos <= p.len, NEW n \in Nat
  PROVE  Slice(p, pos, n).len \in Nat
  BY DEF Slice

LEMMA FieldsTyped ==
  ASSUME NEW m, Shape(m), NEW s \in Objs
  PROVE  m.str[s].len \in Nat /\ m.str[s].off \in Nat
  BY DEF Shape, StrRec

(* A set without two of its elements.                                      *)
LEMMA TwoOut ==
  ASSUME NEW S, IsFiniteSet(S), NEW s, NEW t, s # t
  PROVE  Cardinality(S) = Cardinality(S \ {s, t}) + (IF s \in S THEN 1 ELSE 0)
                                                  + (IF t \in S THEN 1 ELSE 0)
  <1> DEFINE U == S \ {s}
  <1>1. IsFiniteSet(U) /\ Cardinality(U) = (IF s \in S THEN Cardinality(S) - 1 ELSE Cardinality(S))
    BY FS_RemoveElement
  <1>2. U \ {t} = S \ {s, t} /\ (t \in U <=> t \in S)
    OBVIOUS
  <1>3. Cardinality(S \ {s, t}) = (IF t \in S THEN Cardinality(U) - 1 ELSE Cardinality(U))
    <2>1. Cardinality(U \ {t}) = (IF t \in U THEN Cardinality(U) - 1 ELSE Cardinality(U))
      BY <1>1, FS_RemoveElement
    <2> HIDE DEF U
    <2>2. QED
      BY <1>2, <2>1
  <1>4. Cardinality(S) \in Nat /\ Cardinality(U) \in Nat
    BY <1>1, FS_CardinalityType
  <1> HIDE DEF U
  <1>5. CASE s \in S
    BY <1>1, <1>3, <1>4, <1>5
  <1>6. CASE s \notin S
    BY <1>1, <1>3, <1>4, <1>6
  <1>7. QED
    BY <1>5, <1>6

(* Two objects exchange storage, or one takes the other's.                 *)
LEMMA TwoRehomed ==
  ASSUME NEW m, NEW n, Balanced(m), Assumptions, Shape(n),
         NEW s \in Objs, NEW t \in Objs, s # t, n.ctl = m.ctl, n.held = m.held,
         Matched(n, s), Matched(n, t),
         \A u \in Objs \ {s, t} : n.str[u] = m.str[u],
         \A b \in Buffers : (IF s \in Holders(n, b) THEN 1 ELSE 0) + (IF t \in Holders(n, b) THEN 1 ELSE 0)
                          = (IF s \in Holders(m, b) THEN 1 ELSE 0) + (IF t \in Holders(m, b) THEN 1 ELSE 0)
  PROVE  Balanced(n)
  <1> SUFFICES ASSUME NEW b \in Buffers
               PROVE  n.ctl[b].refcnt = Cardinality(Holders(n, b))
    <2>1. OneBlockEach(n) /\ \A u \in Objs \ {s, t} : Matched(n, u)
      BY DEF Balanced, OneBlockEach, Matched
    <2>2. QED
      BY <2>1 DEF Balanced
  <1>1. Holders(n, b) \ {s, t} = Holders(m, b) \ {s, t}
    BY DEF Holders
  <1>2. /\ IsFiniteSet(Holders(n, b)) /\ IsFiniteSet(Holders(m, b))
        /\ IsFiniteSet(Holders(m, b) \ {s, t})
    BY HoldersFinite, FS_Subset
  <1>3. Cardinality(Holders(m, b) \ {s, t}) \in Nat
    BY <1>2, FS_CardinalityType
  <1> DEFINE c == Cardinality(Holders(m, b) \ {s, t})
  <1>4. /\ Cardinality(Holders(m, b)) = c + (IF s \in Holders(m, b) THEN 1 ELSE 0)
                                          + (IF t \in Holders(m, b) THEN 1 ELSE 0)
        /\ Cardinality(Holders(n, b)) = c + (IF s \in Holders(n, b) THEN 1 ELSE 0)
                                          + (IF t \in Holders(n, b) THEN 1 ELSE 0)
    BY <1>1, <1>2, TwoOut
  <1>5. (IF s \in Holders(n, b) THEN 1 ELSE 0) + (IF t \in Holders(n, b) THEN 1 ELSE 0)
        = (IF s \in Holders(m, b) THEN 1 ELSE 0) + (IF t \in Holders(m, b) THEN 1 ELSE 0)
    OBVIOUS
  <1> HIDE DEF c
  <1>6. Cardinality(Holders(n, b)) = Cardinality(Holders(m, b))
    BY <1>3, <1>4, <1>5 DEF c
  <1>7. QED
    BY <1>6 DEF Balanced

LEMMA MoveFromGood ==
  ASSUME NEW m, Balanced(m), Assumptions, NEW s \in Objs, NEW t \in Objs, s # t,
         m.str[s].state \notin Counted
  PROVE  LET n == MoveFrom(m, s, t) IN
         Balanced(n) /\ \A u \in Objs \ {s, t} : n.str[u] = m.str[u]
  <1> DEFINE r == Rebased(m, s, t)
             l == LiteralRec(Terminal)
  <1>1. PICK n : n = MoveFrom(m, s, t)
    OBVIOUS
  <1>2. n = [m EXCEPT !.str[s] = r, !.mem[s] = m.mem[t], !.str[t] = l, !.mem[t] = <<>>]
    BY <1>1 DEF MoveFrom
  <1>3. r \in StrRec /\ r.state = m.str[t].state /\ r.dtor = m.str[t].dtor
        /\ (m.str[t].state \in Counted => r.blk = m.str[t].blk)
    BY RebasedTyped DEF Balanced
  <1>4. l \in StrRec /\ l.state \notin Counted
    BY LiteralRecTyped DEF Assumptions
  <1> HIDE DEF r, l
  <1>5. n = [str |-> [[m.str EXCEPT ![s] = r] EXCEPT ![t] = l], mem |-> n.mem, ctl |-> m.ctl,
             held |-> m.held]
    BY <1>2 DEF Balanced, Shape
  <1>6. n.str = [[m.str EXCEPT ![s] = r] EXCEPT ![t] = l] /\ n.ctl = m.ctl /\ n.held = m.held
        /\ n = [str |-> n.str, mem |-> n.mem, ctl |-> n.ctl, held |-> n.held]
    BY <1>5
  <1>7. n.str[s] = r /\ n.str[t] = l /\ \A u \in Objs \ {s, t} : n.str[u] = m.str[u]
    BY <1>6 DEF Balanced, Shape
  <1>8. n.str \in [Objs -> StrRec]
    BY <1>3, <1>4, <1>6 DEF Balanced, Shape
  <1>9. \A u \in Objs : n.str[u].state \in Counted => n.str[u].blk \in Buffers
    BY <1>3, <1>4, <1>7 DEF Balanced, Shape
  <1>10. Shape(n)
    BY <1>6, <1>8, <1>9 DEF Balanced, Shape
  <1>11. \A b \in Buffers : /\ s \in Holders(n, b) <=> t \in Holders(m, b)
                            /\ t \notin Holders(n, b) /\ s \notin Holders(m, b)
    BY <1>3, <1>4, <1>7 DEF Holders
  <1>12. Balanced(n)
    <2>1. \A b \in Buffers :
            (IF s \in Holders(n, b) THEN 1 ELSE 0) + (IF t \in Holders(n, b) THEN 1 ELSE 0)
            = (IF s \in Holders(m, b) THEN 1 ELSE 0) + (IF t \in Holders(m, b) THEN 1 ELSE 0)
      BY <1>11
    <2>2. n.ctl = m.ctl /\ n.held = m.held /\ Shape(n)
          /\ \A u \in Objs \ {s, t} : n.str[u] = m.str[u]
      BY <1>6, <1>7, <1>10
    <2>3. Matched(n, s) /\ Matched(n, t)
      BY <1>3, <1>4, <1>6, <1>7 DEF Balanced, Matched, Counted
    <2>4. QED
      BY <2>1, <2>2, <2>3, TwoRehomed
  <1>13. QED
    BY <1>1, <1>7, <1>12

LEMMA SwapStorageGood ==
  ASSUME NEW m, Balanced(m), Assumptions, NEW s \in Objs, NEW t \in Objs, s # t
  PROVE  LET n == SwapStorage(m, s, t) IN
         Balanced(n) /\ \A u \in Objs \ {s, t} : n.str[u] = m.str[u]
  <1> DEFINE r == Rebased(m, s, t)
             q == Rebased(m, t, s)
  <1>1. PICK n : n = SwapStorage(m, s, t)
    OBVIOUS
  <1>2. n = [m EXCEPT !.str[s] = r, !.mem[s] = m.mem[t], !.str[t] = q, !.mem[t] = m.mem[s]]
    BY <1>1 DEF SwapStorage
  <1>3. /\ r \in StrRec /\ r.state = m.str[t].state /\ r.dtor = m.str[t].dtor
        /\ (m.str[t].state \in Counted => r.blk = m.str[t].blk)
        /\ q \in StrRec /\ q.state = m.str[s].state /\ q.dtor = m.str[s].dtor
        /\ (m.str[s].state \in Counted => q.blk = m.str[s].blk)
    BY RebasedTyped DEF Balanced
  <1> HIDE DEF r, q
  <1>5. n = [str |-> [[m.str EXCEPT ![s] = r] EXCEPT ![t] = q], mem |-> n.mem, ctl |-> m.ctl,
             held |-> m.held]
    BY <1>2 DEF Balanced, Shape
  <1>6. n.str = [[m.str EXCEPT ![s] = r] EXCEPT ![t] = q] /\ n.ctl = m.ctl /\ n.held = m.held
        /\ n = [str |-> n.str, mem |-> n.mem, ctl |-> n.ctl, held |-> n.held]
    BY <1>5
  <1>7. n.str[s] = r /\ n.str[t] = q /\ \A u \in Objs \ {s, t} : n.str[u] = m.str[u]
    BY <1>6 DEF Balanced, Shape
  <1>8. n.str \in [Objs -> StrRec]
    BY <1>3, <1>6 DEF Balanced, Shape
  <1>9. \A u \in Objs : n.str[u].state \in Counted => n.str[u].blk \in Buffers
    BY <1>3, <1>7 DEF Balanced, Shape
  <1>10. Shape(n)
    BY <1>6, <1>8, <1>9 DEF Balanced, Shape
  <1>11. \A b \in Buffers : /\ s \in Holders(n, b) <=> t \in Holders(m, b)
                            /\ t \in Holders(n, b) <=> s \in Holders(m, b)
    BY <1>3, <1>7 DEF Holders, Balanced, Shape
  <1>12. Balanced(n)
    <2>1. \A b \in Buffers :
            (IF s \in Holders(n, b) THEN 1 ELSE 0) + (IF t \in Holders(n, b) THEN 1 ELSE 0)
            = (IF s \in Holders(m, b) THEN 1 ELSE 0) + (IF t \in Holders(m, b) THEN 1 ELSE 0)
      BY <1>11
    <2>2. n.ctl = m.ctl /\ n.held = m.held /\ Shape(n)
          /\ \A u \in Objs \ {s, t} : n.str[u] = m.str[u]
      BY <1>6, <1>7, <1>10
    <2>3. Matched(n, s) /\ Matched(n, t)
      BY <1>3, <1>6, <1>7 DEF Balanced, Matched, Counted
    <2>4. QED
      BY <2>1, <2>2, <2>3, TwoRehomed
  <1>13. QED
    BY <1>1, <1>7, <1>12

(***************************************************************************)
(* Outcomes compose with what leaves the owners alone.                     *)
(***************************************************************************)
LEMMA OutcomeSelf ==
  ASSUME NEW m, Balanced(m), NEW s
  PROVE  Outcome(m, m, s)
  BY DEF Outcome

LEMMA OutcomeSame ==
  ASSUME NEW m, NEW n, NEW r, NEW s \in Objs, Outcome(m, n, s), Shape(r), SameOwners(n, r)
  PROVE  Outcome(m, r, s)
  BY SameOwnersBalanced DEF Outcome, SameOwners

LEMMA OutcomePut ==
  ASSUME NEW m, NEW n, NEW s \in Objs, Outcome(m, n, s), NEW k, NEW at, NEW w
  PROVE  Outcome(m, PutAt(n, k, at, w), s)
  BY PutAtShape, OutcomeSame DEF Outcome, Balanced

LEMMA OutcomeSetLen ==
  ASSUME NEW m, NEW n, NEW s \in Objs, Outcome(m, n, s), NEW len \in Nat
  PROVE  Outcome(m, SetLen(n, s, len), s)
  <1>1. Shape(SetLen(n, s, len)) /\ SameOwners(n, SetLen(n, s, len))
    BY SetLenShape DEF Outcome, Balanced
  <1>2. QED
    BY <1>1, OutcomeSame

LEMMA OutcomePointTo ==
  ASSUME NEW m, NEW n, NEW s \in Objs, Outcome(m, n, s), NEW off \in Nat
  PROVE  Outcome(m, PointTo(n, s, off), s)
  <1>1. Shape(PointTo(n, s, off)) /\ SameOwners(n, PointTo(n, s, off))
    BY PointToShape DEF Outcome, Balanced
  <1>2. QED
    BY <1>1, OutcomeSame

(* The length is what a helper was called for, never the owners.           *)
LEMMA LengthFirst ==
  ASSUME NEW m, Balanced(m), NEW s \in Objs, NEW len \in Nat
  PROVE  LET n == SetLen(m, s, len) IN
         /\ Balanced(n)
         /\ FreeBuffers(n) = FreeBuffers(m)
         /\ \A t \in Objs : n.str[t].state = m.str[t].state
  <1>1. Shape(SetLen(m, s, len)) /\ SameOwners(m, SetLen(m, s, len))
    BY SetLenShape DEF Balanced
  <1>2. QED
    BY <1>1, SameOwnersBalanced DEF SameOwners, FreeBuffers

(***************************************************************************)
(* Detaching and reserving.                                                *)
(***************************************************************************)
Ready(m, s) == Assumptions /\ Balanced(m) /\ FreeBuffers(m) # {} /\ s \in Objs

LEMMA NewAutoGood ==
  ASSUME NEW m, NEW s, Ready(m, s), m.str[s].state \notin Counted, NEW cap
  PROVE  /\ Outcome(m, NewAuto(m, s, cap), s)
         /\ Outcome(m, DetachStr(m, s, cap), s)
         /\ Outcome(m, NewInternalFromSso(m, s, cap), s)
  BY NewAutoRehomes, DetachStrRehomes, NewInternalFromSsoRehomes, UncountedBut, RehomedBut
     DEF Ready, Balanced

(* A shared s takes new storage after its reference is given up.           *)
LEMMA DecRefReady ==
  ASSUME NEW m, NEW s, Ready(m, s), m.str[s].state \in Counted, ~Unique(m, s)
  PROVE  LET d == DecRef(m, m.str[s].blk) IN
         /\ BalancedBut(d, s) /\ Shape(d) /\ FreeBuffers(d) # {} /\ d.str = m.str
  BY DecRefBut DEF Ready, BalancedBut

LEMMA SharedGood ==
  ASSUME NEW m, NEW s, Ready(m, s), m.str[s].state \in Counted, ~Unique(m, s), NEW cap
  PROVE  /\ Outcome(m, NewAuto(DecRef(m, m.str[s].blk), s, cap), s)
         /\ Outcome(m, DetachCow(m, s, cap), s)
  <1> DEFINE d == DecRef(m, m.str[s].blk)
  <1>1. BalancedBut(d, s) /\ Shape(d) /\ FreeBuffers(d) # {} /\ d.str = m.str /\ s \in Objs
        /\ Assumptions
    BY DecRefReady DEF Ready
  <1> HIDE DEF d
  <1>2. Outcome(d, NewAuto(d, s, cap), s) /\ Outcome(d, DetachStr(d, s, cap), s)
    BY <1>1, NewAutoRehomes, DetachStrRehomes, RehomedBut
  <1>3. QED
    BY <1>1, <1>2 DEF Outcome, DetachCow, d

LEMMA DetachGood ==
  ASSUME NEW m, NEW s, Ready(m, s)
  PROVE  Outcome(m, Detach(m, s), s) /\ Outcome(m, SharedDetach(m, s), s)
  <1>1. m.str[s].state = "LITERAL" => m.str[s].state \notin Counted
    BY DEF Counted
  <1>2. Outcome(m, SharedDetach(m, s), s)
    BY <1>1, NewAutoGood, OutcomeSelf DEF SharedDetach, Ready
  <1>3. Outcome(m, Detach(m, s), s)
    BY <1>1, SharedGood, NewAutoGood, OutcomeSelf DEF Detach, Ready
  <1>4. QED
    BY <1>2, <1>3

LEMMA ReallocElsewhereGood ==
  ASSUME NEW m, NEW s, Ready(m, s), m.str[s].state \in Counted, Unique(m, s), NEW cap
  PROVE  Outcome(m, ReallocElsewhere(m, s, cap), s)
  <1> DEFINE n == DetachStr(m, s, cap)
             p == m.str[s]
  <1>1. Rehomed(m, n, s)
    BY DetachStrRehomes DEF Ready, Balanced
  <1>2. BalancedPlus(n, p) /\ n.ctl[p.blk] = m.ctl[p.blk]
    BY <1>1, RehomedPlus DEF Ready
  <1>3. p.blk \in Buffers /\ n.ctl[p.blk].refcnt = 1
    BY <1>2 DEF Ready, Balanced, Shape, Unique
  <1> HIDE DEF n
  <1>4. Balanced(FreeBuffer(n, p)) /\ FreeBuffer(n, p).str = n.str
    BY <1>2, <1>3, FreePlus DEF Ready
  <1>5. QED
    BY <1>1, <1>4 DEF ReallocElsewhere, Outcome, Rehomed, OthersStay, n

LEMMA ReallocGood ==
  ASSUME NEW m, NEW s, Ready(m, s), m.str[s].state \in Counted, Unique(m, s), NEW cap
  PROVE  Outcome(m, Realloc(m, s, cap), s)
  <1>1. Shape(ReallocInPlace(m, s, cap)) /\ SameOwners(m, ReallocInPlace(m, s, cap))
    BY DEF ReallocInPlace, Ready, Balanced, Shape, SameOwners
  <1>2. Outcome(m, ReallocInPlace(m, s, cap), s)
    BY <1>1, OutcomeSelf, OutcomeSame DEF Ready
  <1>3. QED
    BY <1>2, ReallocElsewhereGood DEF Realloc

LEMMA MoveToStartGood ==
  ASSUME NEW m, NEW s, Ready(m, s)
  PROVE  Outcome(m, MoveToStart(m, s), s)
  BY OutcomeSelf, OutcomePut, OutcomePointTo DEF Ready, MoveToStart

LEMMA ReserveSaveGood ==
  ASSUME NEW m, NEW s, Ready(m, s), m.str[s].state # "NONE", NEW want, NEW extra
  PROVE  Outcome(m, ReserveSave(m, s, want, extra), s)
  <1> DEFINE cap == IF want < m.str[s].len THEN m.str[s].len ELSE want
  <1> HIDE DEF cap
  <1>1. CASE m.str[s].state \in Counted
    <2>1. Outcome(m, ReserveSaveCounted(m, s, cap, extra), s)
      BY <1>1, SharedGood, ReallocGood, MoveToStartGood, OutcomeSelf
         DEF ReserveSaveCounted, Ready
    <2>2. m.str[s].state \notin {"LITERAL", "SSO"}
      BY <1>1 DEF Counted
    <2>3. QED
      BY <1>1, <2>1, <2>2 DEF ReserveSave, cap
  <1>2. CASE m.str[s].state = "LITERAL"
    <2>1. m.str[s].state \notin Counted
      BY <1>2 DEF Counted
    <2>2. QED
      BY <1>2, <2>1, NewAutoGood DEF ReserveSave, cap
  <1>3. CASE m.str[s].state = "SSO"
    <2>1. m.str[s].state \notin Counted
      BY <1>3 DEF Counted
    <2>2. Outcome(m, ReserveSaveSso(m, s, cap, extra), s)
      BY <2>1, NewAutoGood, MoveToStartGood, OutcomeSelf DEF ReserveSaveSso, Ready
    <2>3. QED
      BY <1>3, <2>1, <2>2 DEF ReserveSave, cap
  <1>4. m.str[s].state \in States
    BY DEF Ready, Balanced, Shape, StrRec
  <1>5. QED
    BY <1>1, <1>2, <1>3, <1>4 DEF States

LEMMA ReserveDropGood ==
  ASSUME NEW m, NEW s, Ready(m, s), NEW cap
  PROVE  Outcome(m, ReserveDrop(m, s, cap), s)
  <1>1. CASE m.str[s].state \notin Counted
    BY <1>1, NewAutoGood DEF ReserveDrop
  <1>2. Outcome(m, PointTo(m, s, 0), s)
    BY OutcomeSelf, OutcomePointTo DEF Ready
  <1>3. ASSUME m.str[s].state \in Counted, Unique(m, s)
        PROVE  Outcome(m, NewAuto(FreeBuffer(m, m.str[s]), s, cap), s)
    <2> DEFINE p == m.str[s]
               d == FreeBuffer(m, p)
    <2>1. BalancedBut(d, s) /\ d.str = m.str /\ FreeBuffers(d) # {}
      BY <1>3, FreeBut DEF Ready
    <2> HIDE DEF d
    <2>2. Outcome(d, NewAuto(d, s, cap), s)
      BY <2>1, NewAutoRehomes, RehomedBut DEF Ready, BalancedBut
    <2>3. QED
      BY <2>1, <2>2 DEF Outcome, d
  <1>4. CASE m.str[s].state \in Counted
    BY <1>2, <1>3, <1>4, SharedGood DEF ReserveDrop
  <1>5. QED
    BY <1>1, <1>4

(***************************************************************************)
(* Splitting in the middle, editing.                                       *)
(***************************************************************************)
LEMMA ReserveMiddleMoveGood ==
  ASSUME NEW m, NEW s, Ready(m, s), NEW pos \in Nat, NEW rem \in Nat, NEW ins \in Nat
  PROVE  Outcome(m, ReserveMiddleMove(m, s, pos, rem, ins), s)
  <1>1. m.str[s].off \in Nat
    BY FieldsTyped DEF Ready, Balanced
  <1>2. Outcome(m, m, s) /\ s \in Objs
    BY OutcomeSelf DEF Ready
  <1>3. Outcome(m, ShiftTail(m, s, pos, rem, ins), s)
    BY <1>2, OutcomePut DEF ShiftTail, Put
  <1>4. m.str[s].off >= ins - rem => Outcome(m, ShiftHead(m, s, pos, ins - rem), s)
    <2> HAVE m.str[s].off >= ins - rem
    <2>1. m.str[s].off - (ins - rem) \in Nat
      BY <1>1
    <2>2. QED
      BY <1>2, <2>1, OutcomePut, OutcomePointTo DEF ShiftHead, Put
  <1>5. \A k, w, at, v :
          Outcome(m, PointTo(PutAt(PutAt(m, k, 0, v), k, at, w), s, 0), s)
    BY <1>2, OutcomePut, OutcomePointTo
  <1>6. QED
    BY <1>3, <1>4, <1>5 DEF ReserveMiddleMove

LEMMA ReserveMiddleGood ==
  ASSUME NEW m, NEW s, Ready(m, s), NEW pos \in Nat, NEW rem \in Nat, NEW ins \in Nat,
         rem <= m.str[s].len - pos
  PROVE  Outcome(m, ReserveMiddle(m, s, pos, rem, ins), s)
  <1> DEFINE p == m.str[s]
  <1>1. p.len + ins - rem \in Nat
    BY FieldsTyped DEF Ready, Balanced
  <1>2. CASE p.state \notin Counted
    <2>1. /\ Outcome(m, ReserveMiddleNew(m, s, pos, rem, ins), s)
          /\ Outcome(m, NewInternalFromSsoMiddle(m, s, pos, rem, ins), s)
      BY <1>2, ReserveMiddleNewRehomes, UncountedBut, RehomedBut DEF Ready, Balanced
    <2>2. QED
      BY <1>1, <1>2, <2>1, ReserveMiddleMoveGood, OutcomeSetLen DEF ReserveMiddle, Ready
  <1>3. CASE p.state \in Counted
    <2> DEFINE d == DecRef(m, p.blk)
               n == ReserveMiddleNew(m, s, pos, rem, ins)
    <2>1. ~Unique(m, s) => Outcome(m, ReserveMiddleNew(d, s, pos, rem, ins), s)
      <3> HAVE ~Unique(m, s)
      <3>1. BalancedBut(d, s) /\ Shape(d) /\ FreeBuffers(d) # {} /\ d.str = m.str
            /\ s \in Objs /\ Assumptions
        BY <1>3, DecRefReady DEF Ready
      <3> HIDE DEF d
      <3>2. Outcome(d, ReserveMiddleNew(d, s, pos, rem, ins), s)
        BY <3>1, ReserveMiddleNewRehomes, RehomedBut
      <3>3. QED
        BY <3>1, <3>2 DEF Outcome
    <2>2. Outcome(m, ReleaseBuffer(n, p), s)
      <3>1. Rehomed(m, n, s)
        BY ReserveMiddleNewRehomes DEF Ready, Balanced
      <3>2. BalancedPlus(n, p) /\ p.blk \in Buffers /\ Assumptions
        BY <1>3, <3>1, RehomedPlus DEF Ready, Balanced, Shape
      <3> HIDE DEF n
      <3>3. Balanced(ReleaseBuffer(n, p)) /\ ReleaseBuffer(n, p).str = n.str
        BY <3>2, ReleasePlus
      <3>4. QED
        BY <3>1, <3>3 DEF Outcome, Rehomed, OthersStay
    <2>3. QED
      BY <1>1, <1>3, <2>1, <2>2, ReserveMiddleMoveGood, OutcomeSetLen
         DEF ReserveMiddle, Ready, Counted
  <1>4. QED
    BY <1>2, <1>3

LEMMA ShrinkToFitGood ==
  ASSUME NEW m, NEW s, Ready(m, s)
  PROVE  Outcome(m, ShrinkToFit(m, s), s)
  <1> DEFINE p == m.str[s]
             n == DetachStr(m, s, p.len)
  <1>1. CASE p.state \in Counted
    <2>1. Rehomed(m, n, s)
      BY DetachStrRehomes DEF Ready, Balanced
    <2>2. BalancedPlus(n, p) /\ p.blk \in Buffers /\ Assumptions
      BY <1>1, <2>1, RehomedPlus DEF Ready, Balanced, Shape
    <2> HIDE DEF n
    <2>3. Balanced(ReleaseBuffer(n, p)) /\ ReleaseBuffer(n, p).str = n.str
      BY <2>2, ReleasePlus
    <2>4. Outcome(m, ReleaseBuffer(n, p), s)
      BY <2>1, <2>3 DEF Outcome, Rehomed, OthersStay
    <2>5. QED
      BY <1>1, <2>4, ReallocGood, OutcomeSelf DEF ShrinkToFit, Ready, n
  <1>2. CASE p.state \notin Counted
    BY <1>2, OutcomeSelf DEF ShrinkToFit, Ready
  <1>3. QED
    BY <1>1, <1>2

LEMMA CStrGood ==
  ASSUME NEW m, NEW s, Ready(m, s), m.str[s].state # "NONE"
  PROVE  Outcome(m, CStr(m, s), s)
  BY ReserveSaveGood, OutcomeSelf, OutcomePut DEF CStr, Put, Ready

LEMMA AppendCharsGood ==
  ASSUME NEW m, NEW s, Ready(m, s), m.str[s].state # "NONE", NEW src, src.len \in Nat
  PROVE  Outcome(m, AppendChars(m, s, src), s)
  <1>1. m.str[s].len + src.len \in Nat /\ s \in Objs
    BY FieldsTyped DEF Ready, Balanced
  <1>2. Outcome(m, ReserveSave(m, s, m.str[s].len + src.len, "grow"), s)
    BY ReserveSaveGood
  <1>3. QED
    BY <1>1, <1>2, OutcomeSelf, OutcomePut, OutcomeSetLen DEF AppendChars, Put, Ready

LEMMA AppendStringGood ==
  ASSUME NEW m, NEW s, Ready(m, s), m.str[s].state # "NONE", NEW t \in Objs,
         NEW pos \in Nat, pos <= m.str[t].len, NEW n \in Nat
  PROVE  Outcome(m, AppendString(m, s, t, pos, n), s)
  <1> DEFINE cnt == Slice(m.str[t], pos, n).len
  <1>1. m.str[s].len + cnt \in Nat /\ s \in Objs
    BY FieldsTyped, SliceTyped DEF Ready, Balanced
  <1>2. Outcome(m, ReserveSave(m, s, m.str[s].len + cnt, "grow"), s)
    BY ReserveSaveGood
  <1>3. QED
    BY <1>1, <1>2, OutcomeSelf, OutcomePut, OutcomeSetLen DEF AppendString, Put, Ready

LEMMA EraseGood ==
  ASSUME NEW m, NEW s, Ready(m, s), NEW pos \in Nat, NEW n \in Nat, pos <= m.str[s].len
  PROVE  Outcome(m, Erase(m, s, pos, n), s)
  <1> DEFINE p == m.str[s]
  <1>1. p.len \in Nat /\ p.off \in Nat /\ p.off + n \in Nat /\ s \in Objs
        /\ (n <= p.len - pos => p.len - n \in Nat /\ n <= p.len)
    BY FieldsTyped DEF Ready, Balanced
  <1>2. Outcome(m, m, s)
    BY OutcomeSelf DEF Ready
  <1>3. Outcome(m, EraseInPlace(m, s, pos, n), s)
    BY <1>1, <1>2, OutcomePut, OutcomePointTo DEF EraseInPlace, Put
  <1>4. (p.state \in Counted => ~Unique(m, s)) => Outcome(m, EraseElsewhere(m, s, pos, n), s)
    <2> DEFINE d == IF p.state \in Counted THEN DecRef(m, p.blk) ELSE m
               g == NewAuto(d, s, p.len - n)
    <2>1. CASE p.state \in Counted /\ ~Unique(m, s)
      <3>1. Outcome(m, g, s)
        BY <2>1, SharedGood
      <3>2. QED
        BY <1>1, <3>1, OutcomePut DEF EraseElsewhere, Put
    <2>2. CASE p.state \notin Counted
      <3>1. Outcome(m, g, s)
        BY <2>2, NewAutoGood
      <3>2. QED
        BY <1>1, <3>1, OutcomePut DEF EraseElsewhere, Put
    <2>3. QED
      BY <2>1, <2>2
  <1>5. Outcome(m, SetLen(m, s, pos), s)
    BY <1>1, <1>2, OutcomeSetLen
  <1>6. n <= p.len - pos => Outcome(m, SetLen(PointTo(m, s, p.off + n), s, p.len - n), s)
    BY <1>1, <1>2, OutcomePointTo, OutcomeSetLen
  <1>7. QED
    BY <1>1, <1>3, <1>4, <1>5, <1>6, OutcomeSetLen DEF Erase

LEMMA ReplaceGood ==
  ASSUME NEW m, NEW s, Ready(m, s), m.str[s].state # "NONE", NEW pos \in Nat, NEW rem \in Nat,
         pos <= m.str[s].len, NEW src, src.len \in Nat
  PROVE  Outcome(m, Replace(m, s, pos, rem, src), s)
  <1> DEFINE cut == SetLen(m, s, pos)
  <1>1. s \in Objs /\ Outcome(m, m, s)
    BY OutcomeSelf DEF Ready
  <1>2. Outcome(m, AppendChars(cut, s, src), s)
    <2>1. /\ Balanced(cut) /\ FreeBuffers(cut) = FreeBuffers(m)
          /\ \A t \in Objs : cut.str[t].state = m.str[t].state
      BY <1>1, LengthFirst DEF Ready
    <2> HIDE DEF cut
    <2>2. Ready(cut, s) /\ cut.str[s].state # "NONE"
      BY <1>1, <2>1 DEF Ready
    <2>3. Outcome(cut, AppendChars(cut, s, src), s)
      BY <2>2, AppendCharsGood
    <2>4. QED
      BY <2>1, <2>3 DEF Outcome
  <1>3. rem <= m.str[s].len - pos =>
          \A w : Outcome(m, Put(ReserveMiddle(m, s, pos, rem, src.len), s, pos, w), s)
    BY <1>1, ReserveMiddleGood, OutcomePut DEF Put
  <1>4. QED
    <2>1. m.str[s].len \in Nat
      BY <1>1, FieldsTyped DEF Ready, Balanced
    <2>2. Outcome(m, AppendChars(m, s, src), s) /\ Outcome(m, Erase(m, s, pos, rem), s)
      BY AppendCharsGood, EraseGood
    <2>3. CASE pos = m.str[s].len \/ rem >= m.str[s].len - pos
      BY <1>2, <2>1, <2>2, <2>3 DEF Replace
    <2>4. CASE pos # m.str[s].len /\ rem < m.str[s].len - pos
      BY <1>1, <1>3, <2>1, <2>2, <2>4 DEF Replace
    <2>5. QED
      BY <2>1, <2>3, <2>4

LEMMA ReplaceStringGood ==
  ASSUME NEW m, NEW s \in Strings, Ready(m, s), m.str[s].state # "NONE",
         m.str[Tmp].state = "NONE", NEW t \in Strings,
         NEW pos \in Nat, NEW rem \in Nat, NEW pos2 \in Nat, NEW n2 \in Nat,
         pos <= m.str[s].len, pos2 <= m.str[t].len
  PROVE  LET n == ReplaceString(m, s, pos, rem, t, pos2, n2) IN
         Balanced(n) /\ n.str[Tmp].state = "NONE"
  <1>1. Tmp \in Objs /\ s \in Objs /\ t \in Objs /\ s # Tmp
    BY DEF Objs, Ready, Assumptions
  <1>2. CASE s # t
    <2>1. Slice(m.str[t], pos2, n2).len \in Nat
      BY <1>1, FieldsTyped, SliceTyped DEF Ready, Balanced
    <2>2. Outcome(m, Replace(m, s, pos, rem, Slice(m.str[t], pos2, n2)), s)
      BY <2>1, ReplaceGood
    <2>3. QED
      BY <1>1, <1>2, <2>2 DEF ReplaceString, Outcome
  <1>3. CASE s = t
    <2> DEFINE c == Cow(m, Tmp, s, 0, m.str[s].len)
               src == Slice(c.str[Tmp], pos2, n2)
               r == Replace(c, s, pos, rem, src)
    <2>1. m.str[Tmp].state \notin Counted /\ m.str[s].len \in Nat
      BY <1>1, FieldsTyped DEF Ready, Balanced, Counted
    <2>2. /\ Balanced(c)
          /\ c.str[s] = m.str[s] /\ c.str[Tmp].len = m.str[s].len
          /\ FreeBuffers(m) \subseteq FreeBuffers(c)
      BY <1>1, <2>1, CowGood DEF Ready, Outcome
    <2> HIDE DEF c
    <2>3. Ready(c, s) /\ c.str[s].state # "NONE"
      BY <2>2 DEF Ready
    <2>4. src.len \in Nat
      BY <1>1, <1>3, <2>2, FieldsTyped, SliceTyped DEF Balanced
    <2> HIDE DEF src
    <2>5. Balanced(r)
      BY <2>2, <2>3, <2>4, ReplaceGood DEF Outcome
    <2> HIDE DEF r
    <2>6. Balanced(Release(r, Tmp)) /\ Release(r, Tmp).str = [r.str EXCEPT ![Tmp] = Void]
      BY <1>1, <2>5, ReleaseGood DEF Ready
    <2>7. Release(r, Tmp).str[Tmp].state = "NONE"
      BY <1>1, <2>5, <2>6 DEF Balanced, Shape, Void
    <2>8. ReplaceString(m, s, pos, rem, t, pos2, n2) = Release(r, Tmp)
      BY <1>3 DEF ReplaceString, r, c, src
    <2>9. QED
      BY <2>6, <2>7, <2>8
  <1>4. QED
    BY <1>2, <1>3

-----------------------------------------------------------------------------
(***************************************************************************)
(* The operations keep that, and the state well typed.  The inductive      *)
(* invariant adds what they need: a counted object points to a heap        *)
(* buffer, and the local copy Tmp is dead between calls.                   *)
(***************************************************************************)
Owned(m) == Balanced(m) /\ m.str[Tmp].state = "NONE"

IInv ==
  /\ Owned(Memory)
  /\ DOMAIN mem = Objs \cup Literals \cup Buffers
  /\ DOMAIN val = Strings

LEMMA InitIInv == ASSUME Assumptions, Init PROVE IInv
  <1>1. Tmp \in Objs /\ Void \in StrRec /\ Void.state = "NONE" /\ Void.state \notin Counted
    BY VoidRec DEF Objs, Void
  <1>2. FreeCtl \in CtlRec /\ FreeCtl.refcnt = 0
    BY DEF FreeCtl, CtlRec
  <1>3. Shape(Memory)
    BY <1>1, <1>2 DEF Init, Shape, Memory
  <1>4. \A b \in Buffers : Holders(Memory, b) = {}
    BY <1>1 DEF Holders, Init, Memory
  <1>5. \A b \in Buffers : Memory.ctl[b].refcnt = 0
    BY <1>2 DEF Init, Memory
  <1>6. Balanced(Memory)
    <2>1. OneBlockEach(Memory)
      BY DEF Init, Memory, OneBlockEach, FreeCtl, Assumptions
    <2>2. \A t \in Objs : Matched(Memory, t)
      BY DEF Init, Memory, Matched, Void
    <2>3. QED
      BY <1>3, <1>4, <1>5, <2>1, <2>2, FS_EmptySet DEF Balanced
  <1>7. Memory.str[Tmp].state = "NONE"
    BY <1>1 DEF Init, Memory
  <1>8. DOMAIN mem = Objs \cup Literals \cup Buffers /\ DOMAIN val = Strings
    BY DEF Init, Std!Init
  <1>9. QED
    BY <1>6, <1>7, <1>8 DEF IInv, Owned

(* The last step of every action: the memory it computed becomes the state. *)
LEMMA BecomesIInv ==
  ASSUME NEW n, Owned(n), Becomes(n), DOMAIN val' = Strings
  PROVE  IInv'
  <1>1. str' = n.str /\ ctl' = n.ctl /\ held' = n.held
        /\ DOMAIN mem' = Objs \cup Literals \cup Buffers
    BY DEF Becomes, Settled
  <1>2. Memory' = [str |-> n.str, mem |-> mem', ctl |-> n.ctl, held |-> n.held]
    BY <1>1 DEF Memory
  <1>3. PICK p : p = Memory'
    OBVIOUS
  <1>4. p.str = n.str /\ p.ctl = n.ctl /\ p.held = n.held
        /\ p = [str |-> p.str, mem |-> p.mem, ctl |-> p.ctl, held |-> p.held]
    BY <1>2, <1>3
  <1>5. Shape(p)
    BY <1>4 DEF Owned, Balanced, Shape
  <1>6. \A b \in Buffers : Holders(p, b) = Holders(n, b)
    BY <1>4 DEF Holders
  <1>7. Owned(p)
    <2>1. OneBlockEach(p) /\ \A t \in Objs : Matched(p, t)
      BY <1>4 DEF Owned, Balanced, OneBlockEach, Matched
    <2>2. QED
      BY <1>4, <1>5, <1>6, <2>1 DEF Owned, Balanced
  <1>8. Owned(Memory)'
    BY <1>3, <1>7 DEF Owned, Balanced, Shape, Holders, OneBlockEach, Matched
  <1>9. QED
    BY <1>1, <1>8 DEF IInv

(* The step on StringValue keeps one value for every string object.        *)
LEMMA ValuesStay ==
  ASSUME DOMAIN val = Strings, NEW s, NEW t, NEW v, NEW pos, NEW n,
         \/ Std!Construct(s, v) \/ Std!Destroy(s) \/ Std!Assign(s, v)
         \/ Std!Edit(s, pos, n, v) \/ Std!MoveTo(s, t) \/ Std!Swap(s, t) \/ Std!Keep(s)
  PROVE  DOMAIN val' = Strings
  BY DEF Std!Construct, Std!Destroy, Std!Assign, Std!Edit, Std!MoveTo, Std!Swap, Std!Keep

LEMMA OutcomeOwned ==
  ASSUME Assumptions, IInv, NEW s \in Strings, NEW n, Outcome(Memory, n, s)
  PROVE  Owned(n)
  <1>1. Tmp \in Objs \ {s}
    BY DEF Assumptions, Objs
  <1>2. QED
    BY <1>1 DEF Outcome, IInv, Owned

LEMMA Here ==
  ASSUME Assumptions, IInv, NEW s \in Strings
  PROVE  /\ s \in Objs
         /\ Balanced(Memory) /\ Memory.str = str /\ Memory.held = held
         /\ str[s].len \in Nat /\ str[s].off \in Nat
         /\ HeapHasRoom => Ready(Memory, s)
  <1>1. s \in Objs /\ Memory.str = str /\ Memory.held = held /\ Balanced(Memory)
    BY DEF Objs, Memory, IInv, Owned
  <1>2. str[s].len \in Nat /\ str[s].off \in Nat
    BY <1>1, FieldsTyped DEF Balanced
  <1>3. QED
    BY <1>1, <1>2 DEF HeapHasRoom, Ready

LEMMA GoneUncounted ==
  ASSUME NEW s, ~Alive(s)
  PROVE  str[s].state \notin Counted
  BY DEF Alive, Counted

(***************************************************************************)
(* Construction, assignment, destruction.                                  *)
(***************************************************************************)
LEMMA FromLiteralGood ==
  ASSUME Assumptions, NEW m, Balanced(m), NEW s \in Objs, m.str[s].state \notin Counted,
         NEW l \in Literals
  PROVE  Outcome(m, FromLiteral(m, s, l), s)
  <1> DEFINE r == LiteralRec(l)
  <1>1. r \in StrRec /\ r.state \notin Counted
    BY LiteralRecTyped
  <1>2. PICK n : n = FromLiteral(m, s, l)
    OBVIOUS
  <1>3. n = [m EXCEPT !.str[s] = r]
    BY <1>2 DEF FromLiteral
  <1> HIDE DEF r
  <1>4. n = [str |-> [m.str EXCEPT ![s] = r], mem |-> m.mem, ctl |-> m.ctl, held |-> m.held]
    BY <1>3 DEF Balanced, Shape
  <1>5. n.str = [m.str EXCEPT ![s] = r] /\ n.ctl = m.ctl /\ n.held = m.held
        /\ n = [str |-> n.str, mem |-> n.mem, ctl |-> n.ctl, held |-> n.held]
    BY <1>4
  <1>6. Shape(n)
    BY <1>1, <1>5, SetStrShape DEF Balanced
  <1>7. n.str[s] = r /\ \A t \in Objs \ {s} : n.str[t] = m.str[t]
    BY <1>5 DEF Balanced, Shape
  <1>8. Rehomed(m, n, s)
    BY <1>1, <1>5, <1>6, <1>7 DEF Rehomed, OthersStay
  <1>9. QED
    BY <1>2, <1>8, UncountedBut, RehomedBut

LEMMA ConstructsStep ==
  ASSUME Assumptions, IInv, HeapHasRoom, NEW s \in Strings, Constructs(s)
  PROVE  IInv'
  <1>1. s \in Objs /\ Ready(Memory, s) /\ Balanced(Memory) /\ Memory.str = str
        /\ FreeBuffers(Memory) # {} /\ DOMAIN val = Strings
    BY Here DEF HeapHasRoom, IInv
  <1>2. ASSUME NEW l \in Literals, NewLiteral(s, l)
        PROVE  IInv'
    <2>1. Outcome(Memory, FromLiteral(Memory, s, l), s)
      BY <1>1, <1>2, GoneUncounted, FromLiteralGood DEF NewLiteral
    <2>2. DOMAIN val' = Strings
      BY <1>1, <1>2, ValuesStay DEF NewLiteral
    <2>3. QED
      BY <1>2, <2>1, <2>2, OutcomeOwned, BecomesIInv DEF NewLiteral
  <1>3. ASSUME NEW l \in Literals, NewChars(s, l)
        PROVE  IInv'
    <2> DEFINE n == Len(LitText[l])
               m1 == NewAuto(Memory, s, n)
               m2 == Put(SetLen(m1, s, n), s, 0, LitText[l])
    <2>1. Outcome(Memory, m1, s)
      BY <1>1, <1>3, GoneUncounted, NewAutoGood DEF NewChars
    <2>2. n \in Nat
      BY LiteralRecTyped
    <2> HIDE DEF m1, n
    <2>3. Outcome(Memory, m2, s)
      BY <1>1, <2>1, <2>2, OutcomeSetLen, OutcomePut DEF Put
    <2>4. DOMAIN val' = Strings
      BY <1>1, <1>3, ValuesStay DEF NewChars
    <2>5. Becomes(m2)
      BY <1>3 DEF NewChars, m1, n
    <2> HIDE DEF m2
    <2>6. QED
      BY <2>3, <2>4, <2>5, OutcomeOwned, BecomesIInv
  <1>4. ASSUME NEW e \in Ext, NEW l \in Literals, AdoptNew(s, e, l)
        PROVE  IInv'
    <2>1. Outcome(Memory, NewExternal(Memory, s, e, l), s)
      BY <1>1, <1>4, Here, GoneUncounted, NewExternalGood DEF AdoptNew
    <2>2. DOMAIN val' = Strings
      BY <1>1, <1>4, ValuesStay DEF AdoptNew
    <2>3. QED
      BY <1>4, <2>1, <2>2, OutcomeOwned, BecomesIInv DEF AdoptNew
  <1>5. ASSUME NEW t \in Strings, NewMoved(s, t)
        PROVE  IInv'
    <2>1. t \in Objs /\ Tmp \in Objs \ {s, t}
      BY DEF Objs, Assumptions
    <2>2. /\ Balanced(MoveFrom(Memory, s, t))
          /\ \A u \in Objs \ {s, t} : MoveFrom(Memory, s, t).str[u] = str[u]
      BY <1>1, <1>5, <2>1, GoneUncounted, MoveFromGood DEF NewMoved
    <2>3. Owned(MoveFrom(Memory, s, t))
      BY <1>1, <2>1, <2>2 DEF IInv, Owned
    <2>4. DOMAIN val' = Strings
      BY <1>1, <1>5, ValuesStay DEF NewMoved
    <2>5. QED
      BY <1>5, <2>3, <2>4, BecomesIInv DEF NewMoved
  <1>6. ASSUME NEW t \in Strings, NEW pos \in Nat, NEW n \in Nat, NewCopy(s, t, pos, n)
        PROVE  IInv'
    <2>1. t \in Objs /\ s # t /\ Slice(str[t], pos, n).len \in Nat
      BY <1>6, Here, SliceTyped DEF NewCopy
    <2>2. Outcome(Memory, CowOffset(Memory, s, t, pos, n), s)
      BY <1>1, <1>6, <2>1, GoneUncounted, CowGood DEF NewCopy, CowOffset
    <2>3. DOMAIN val' = Strings
      BY <1>1, <1>6, ValuesStay DEF NewCopy
    <2>4. QED
      BY <1>6, <2>2, <2>3, OutcomeOwned, BecomesIInv DEF NewCopy
  <1>7. \A c \in Spans : c[1] \in Nat /\ c[2] \in Nat
    BY DEF Assumptions
  <1>8. QED
    BY <1>2, <1>3, <1>4, <1>5, <1>6, <1>7 DEF Constructs

LEMMA DestructStep ==
  ASSUME Assumptions, IInv, NEW s \in Strings, Destruct(s)
  PROVE  IInv'
  <1>1. Balanced(Release(Memory, s)) /\ Release(Memory, s).str = [str EXCEPT ![s] = Void]
    BY Here, ReleaseGood
  <1>2. Owned(Release(Memory, s))
    <2>1. Tmp \in Objs /\ Tmp # s
      BY DEF Objs, Assumptions
    <2>2. str[Tmp].state = "NONE" /\ str \in [Objs -> StrRec]
      BY Here DEF IInv, Owned, Balanced, Shape
    <2>3. QED
      BY <1>1, <2>1, <2>2 DEF Owned
  <1>3. DOMAIN val' = Strings
    BY ValuesStay DEF Destruct, IInv
  <1>4. QED
    BY <1>2, <1>3, BecomesIInv DEF Destruct

(* After _release() s is as good as not constructed, and the heap has room. *)
LEMMA Released ==
  ASSUME Assumptions, IInv, HeapHasRoom, NEW s \in Strings, NEW m, m = Release(Memory, s)
  PROVE  /\ Balanced(m) /\ FreeBuffers(m) # {} /\ s \in Objs
         /\ m.str[s].state \notin Counted
         /\ \A t \in Objs \ {s} : m.str[t] = str[t]
         /\ \A n : Outcome(m, n, s) => Outcome(Memory, n, s)
         /\ NoneTaken(Memory, m)
  <1>1. /\ Balanced(m) /\ m.str = [str EXCEPT ![s] = Void] /\ s \in Objs
        /\ FreeBuffers(Memory) \subseteq FreeBuffers(m) /\ NoneTaken(Memory, m)
    BY Here, ReleaseGood
  <1>2. str \in [Objs -> StrRec] /\ Memory.str = str
    BY Here DEF Balanced, Shape
  <1>3. m.str[s].state \notin Counted /\ \A t \in Objs \ {s} : m.str[t] = str[t]
    BY <1>1, <1>2, VoidRec
  <1>4. QED
    BY <1>1, <1>2, <1>3 DEF Outcome, HeapHasRoom

LEMMA AssignsStep ==
  ASSUME Assumptions, IInv, HeapHasRoom, NEW s \in Strings, Assigns(s)
  PROVE  IInv'
  <1>1. s \in Objs /\ Ready(Memory, s) /\ Balanced(Memory) /\ Memory.str = str
        /\ DOMAIN val = Strings
    BY Here DEF IInv
  <1>2. PICK m : m = Release(Memory, s)
    OBVIOUS
  <1>3. /\ Balanced(m) /\ FreeBuffers(m) # {}
        /\ m.str[s].state \notin Counted
        /\ \A t \in Objs \ {s} : m.str[t] = str[t]
        /\ \A n : Outcome(m, n, s) => Outcome(Memory, n, s)
        /\ NoneTaken(Memory, m)
    BY <1>2, Released
  <1>4. ASSUME NEW l \in Literals, SetLiteral(s, l)
        PROVE  IInv'
    <2>1. Outcome(Memory, FromLiteral(m, s, l), s)
      BY <1>1, <1>3, FromLiteralGood
    <2>2. DOMAIN val' = Strings
      BY <1>1, <1>4, ValuesStay DEF SetLiteral
    <2>3. QED
      BY <1>2, <1>4, <2>1, <2>2, OutcomeOwned, BecomesIInv DEF SetLiteral
  <1>5. ASSUME NEW l \in Literals, SetChars(s, l)
        PROVE  IInv'
    <2>1. Outcome(Memory, ReserveDrop(Memory, s, Len(LitText[l])), s) /\ Len(LitText[l]) \in Nat
      BY <1>1, ReserveDropGood, LiteralRecTyped
    <2>2. Outcome(Memory, AssignChars(Memory, s, l), s)
      BY <1>1, <2>1, OutcomePut, OutcomeSetLen DEF AssignChars, Put
    <2>3. DOMAIN val' = Strings
      BY <1>1, <1>5, ValuesStay DEF SetChars
    <2>4. QED
      BY <1>5, <2>2, <2>3, OutcomeOwned, BecomesIInv DEF SetChars
  <1>6. ASSUME NEW e \in Ext, NEW l \in Literals, Adopt(s, e, l)
        PROVE  IInv'
    <2>0. ~Memory.held[e]
      BY <1>6, Here DEF Adopt
    <2>1. Outcome(Memory, NewExternal(m, s, e, l), s)
      BY <1>1, <1>3, <2>0, NewExternalGood DEF NoneTaken
    <2>2. str[s].state = "EXTERNAL" /\ Unique(Memory, s) =>
            Outcome(Memory, ReplaceExternal(Memory, s, e, l), s)
      BY <1>1, <2>0, ReplaceExternalGood
    <2>3. Outcome(Memory, AssignExternal(Memory, s, e, l), s)
      BY <1>1, <1>2, <2>1, <2>2 DEF AssignExternal
    <2>4. DOMAIN val' = Strings
      BY <1>1, <1>6, ValuesStay DEF Adopt
    <2>5. QED
      BY <1>6, <2>3, <2>4, OutcomeOwned, BecomesIInv DEF Adopt
  <1>7. ASSUME NEW t \in Strings, Move(s, t)
        PROVE  IInv'
    <2>1. t \in Objs /\ Tmp \in Objs \ {s, t} /\ s # t
      BY <1>7 DEF Objs, Assumptions, Move
    <2>2. /\ Balanced(MoveFrom(m, s, t))
          /\ \A u \in Objs \ {s, t} : MoveFrom(m, s, t).str[u] = m.str[u]
      BY <1>1, <1>3, <2>1, MoveFromGood
    <2>3. Owned(MoveFrom(m, s, t))
      BY <1>1, <1>3, <2>1, <2>2 DEF IInv, Owned
    <2>4. DOMAIN val' = Strings
      BY <1>1, <1>7, ValuesStay DEF Move
    <2>5. QED
      BY <1>2, <1>7, <2>3, <2>4, BecomesIInv DEF Move
  <1>8. ASSUME NEW t \in Strings, Exchange(s, t)
        PROVE  IInv'
    <2>1. t \in Objs /\ Tmp \in Objs \ {s, t} /\ s # t
      BY <1>8 DEF Objs, Assumptions, Exchange
    <2>2. /\ Balanced(SwapStorage(Memory, s, t))
          /\ \A u \in Objs \ {s, t} : SwapStorage(Memory, s, t).str[u] = str[u]
      BY <1>1, <2>1, SwapStorageGood
    <2>3. Owned(SwapStorage(Memory, s, t))
      BY <1>1, <2>1, <2>2 DEF IInv, Owned
    <2>4. DOMAIN val' = Strings
      BY <1>1, <1>8, ValuesStay DEF Exchange
    <2>5. QED
      BY <1>8, <2>3, <2>4, BecomesIInv DEF Exchange
  <1>9. ASSUME NEW t \in Strings, NEW pos \in Nat, NEW n \in Nat, Copy(s, t, pos, n)
        PROVE  IInv'
    <2>1. t \in Objs /\ Slice(str[t], pos, n).len \in Nat
      BY <1>9, Here, SliceTyped DEF Copy
    <2>2. Outcome(Memory, AssignSub(Memory, s, t, pos, n), s)
      <3>1. CASE s = t
        <4>1. str[s].off + pos \in Nat
          BY Here
        <4>2. Outcome(Memory, SetLen(PointTo(Memory, s, str[s].off + pos), s, Slice(str[s], pos, n).len), s)
          BY <1>1, <2>1, <3>1, <4>1, OutcomeSelf, OutcomePointTo, OutcomeSetLen
        <4>3. QED
          BY <1>1, <3>1, <4>2 DEF AssignSub
      <3>2. CASE s # t
        <4>1. m.str[t] = str[t]
          BY <1>3, <2>1, <3>2
        <4>2. Outcome(m, CowOffset(m, s, t, pos, n), s)
          BY <1>1, <1>3, <2>1, <3>2, <4>1, CowGood DEF CowOffset
        <4>3. QED
          BY <1>2, <1>3, <3>2, <4>2 DEF AssignSub
      <3>3. QED
        BY <3>1, <3>2
    <2>3. DOMAIN val' = Strings
      BY <1>1, <1>9, ValuesStay DEF Copy
    <2>4. QED
      BY <1>9, <2>2, <2>3, OutcomeOwned, BecomesIInv DEF Copy
  <1>10. \A c \in Spans : c[1] \in Nat /\ c[2] \in Nat
    BY DEF Assumptions
  <1>11. QED
    BY <1>4, <1>5, <1>6, <1>7, <1>8, <1>9, <1>10 DEF Assigns

(***************************************************************************)
(* Operations that change the value in place, or the storage only.         *)
(***************************************************************************)
LEMMA EditsStep ==
  ASSUME Assumptions, IInv, HeapHasRoom, NEW s \in Strings, Edits(s)
  PROVE  IInv'
  <1>1. s \in Objs /\ Ready(Memory, s) /\ Balanced(Memory) /\ Memory.str = str
        /\ str[s].len \in Nat /\ DOMAIN val = Strings /\ Outcome(Memory, Memory, s)
    BY Here, OutcomeSelf DEF IInv
  <1>2. ASSUME NEW l \in Literals, AppendText(s, l)
        PROVE  IInv'
    <2>1. Text(l).len \in Nat
      BY LiteralRecTyped DEF Text
    <2>2. Outcome(Memory, AppendChars(Memory, s, Text(l)), s)
      BY <1>1, <1>2, <2>1, AppendCharsGood DEF AppendText, Alive
    <2>3. DOMAIN val' = Strings
      BY <1>1, <1>2, ValuesStay DEF AppendText
    <2>4. QED
      BY <1>2, <2>2, <2>3, OutcomeOwned, BecomesIInv DEF AppendText
  <1>3. ASSUME NEW l \in Literals, Resize(s, l)
        PROVE  IInv'
    <2> DEFINE at == str[s].len
               n == at + Len(LitText[l])
               m1 == ReserveSave(Memory, s, n, "exact")
    <2>1. n \in Nat
      BY <1>1, LiteralRecTyped
    <2>2. Outcome(Memory, m1, s)
      BY <1>1, <1>3, ReserveSaveGood DEF Resize, Alive
    <2> HIDE DEF m1, n
    <2>3. Outcome(Memory, SetLen(Put(m1, s, at, LitText[l]), s, n), s)
      BY <1>1, <2>1, <2>2, OutcomePut, OutcomeSetLen DEF Put
    <2>4. Outcome(Memory, ResizeUp(Memory, s, l), s)
      BY <1>1, <2>3 DEF ResizeUp, m1, n
    <2>5. DOMAIN val' = Strings
      BY <1>1, <1>3, ValuesStay DEF Resize
    <2>6. QED
      BY <1>3, <2>4, <2>5, OutcomeOwned, BecomesIInv DEF Resize
  <1>4. ASSUME NEW t \in Strings, NEW pos \in Nat, NEW n \in Nat, AppendOther(s, t, pos, n)
        PROVE  IInv'
    <2>1. Outcome(Memory, AppendString(Memory, s, t, pos, n), s)
      BY <1>1, <1>4, Here, AppendStringGood DEF AppendOther, Alive
    <2>2. DOMAIN val' = Strings
      BY <1>1, <1>4, ValuesStay DEF AppendOther
    <2>3. QED
      BY <1>4, <2>1, <2>2, OutcomeOwned, BecomesIInv DEF AppendOther
  <1>5. ASSUME NEW pos \in Nat, NEW n \in Nat, EraseAt(s, pos, n)
        PROVE  IInv'
    <2>1. Outcome(Memory, Erase(Memory, s, pos, n), s)
      BY <1>1, <1>5, EraseGood DEF EraseAt
    <2>2. DOMAIN val' = Strings
      BY <1>1, <1>5, ValuesStay DEF EraseAt
    <2>3. QED
      BY <1>5, <2>1, <2>2, OutcomeOwned, BecomesIInv DEF EraseAt
  <1>6. ASSUME NEW pos \in Nat, NEW n \in Nat, NEW l \in Literals, ReplaceText(s, pos, n, l)
        PROVE  IInv'
    <2>1. Text(l).len \in Nat
      BY LiteralRecTyped DEF Text
    <2>2. Outcome(Memory, Replace(Memory, s, pos, n, Text(l)), s)
      BY <1>1, <1>6, <2>1, ReplaceGood DEF ReplaceText, Alive
    <2>3. DOMAIN val' = Strings
      BY <1>1, <1>6, ValuesStay DEF ReplaceText
    <2>4. QED
      BY <1>6, <2>2, <2>3, OutcomeOwned, BecomesIInv DEF ReplaceText
  <1>7. ASSUME NEW pos \in Nat, NEW n \in Nat, NEW t \in Strings, NEW pos2 \in Nat, NEW n2 \in Nat,
               ReplaceOther(s, pos, n, t, pos2, n2)
        PROVE  IInv'
    <2>1. str[s].state # "NONE" /\ str[Tmp].state = "NONE"
      BY <1>1, <1>7 DEF ReplaceOther, Alive, IInv, Owned
    <2>2. Owned(ReplaceString(Memory, s, pos, n, t, pos2, n2))
      BY <1>1, <1>7, <2>1, ReplaceStringGood DEF ReplaceOther, Owned
    <2>3. DOMAIN val' = Strings
      BY <1>1, <1>7, ValuesStay DEF ReplaceOther
    <2>4. QED
      BY <1>7, <2>2, <2>3, BecomesIInv DEF ReplaceOther
  <1>8. ASSUME NEW n \in Nat, Truncate(s, n)
        PROVE  IInv'
    <2>1. Outcome(Memory, SetLen(Memory, s, n), s)
      BY <1>1, OutcomeSetLen
    <2>2. DOMAIN val' = Strings
      BY <1>1, <1>8, ValuesStay DEF Truncate
    <2>3. QED
      BY <1>8, <2>1, <2>2, OutcomeOwned, BecomesIInv DEF Truncate
  <1>9. ASSUME NEW i, NEW l, WriteChar(s, i, l)
        PROVE  IInv'
    <2>1. Outcome(Memory, Put(Detach(Memory, s), s, i, LitText[l]), s)
      BY <1>1, DetachGood, OutcomePut DEF Put
    <2>2. DOMAIN val' = Strings
      BY <1>1, <1>9, ValuesStay DEF WriteChar
    <2>3. QED
      BY <1>9, <2>1, <2>2, OutcomeOwned, BecomesIInv DEF WriteChar
  <1>10. (\A c \in Spans : c[1] \in Nat /\ c[2] \in Nat) /\ \A n \in 0..MaxLen : n \in Nat
    BY DEF Assumptions
  <1>11. QED
    BY <1>2, <1>3, <1>4, <1>5, <1>6, <1>7, <1>8, <1>9, <1>10 DEF Edits

LEMMA StoresStep ==
  ASSUME Assumptions, IInv, HeapHasRoom, NEW s \in Strings, Stores(s)
  PROVE  IInv'
  <1>1. Ready(Memory, s) /\ Memory.str = str /\ DOMAIN val = Strings
    BY Here DEF IInv
  <1>2. Std!Keep(s) => DOMAIN val' = Strings
    BY <1>1, ValuesStay
  <1>3. \A cap : Reserve(s, cap) => IInv'
    BY <1>1, <1>2, ReserveSaveGood, OutcomeOwned, BecomesIInv DEF Reserve, Alive
  <1>4. Shrink(s) => IInv'
    BY <1>1, <1>2, ShrinkToFitGood, OutcomeOwned, BecomesIInv DEF Shrink
  <1>5. CallCStr(s) => IInv'
    BY <1>1, <1>2, CStrGood, OutcomeOwned, BecomesIInv DEF CallCStr, Alive
  <1>6. Buf(s) \/ SharedBuf(s) => IInv'
    BY <1>1, <1>2, DetachGood, OutcomeOwned, BecomesIInv DEF Buf, SharedBuf
  <1>7. QED
    BY <1>3, <1>4, <1>5, <1>6 DEF Stores

(***************************************************************************)
(* The invariant and what follows from it.                                 *)
(***************************************************************************)
LEMMA NextIInv == ASSUME Assumptions, IInv, [Next]_vars PROVE IInv'
  <1>1. CASE Next
    BY <1>1, DestructStep, ConstructsStep, AssignsStep, EditsStep, StoresStep DEF Next
  <1>2. CASE UNCHANGED vars
    <2>1. Memory' = Memory
      BY <1>2 DEF vars, Memory
    <2>2. QED
      BY <1>2, <2>1 DEF vars, IInv, Owned, Balanced, Shape, Holders, OneBlockEach, Matched
  <1>3. QED
    BY <1>1, <1>2

(* In every reachable state IInv holds.                                    *)
THEOREM Invariance == Spec => []IInv
  <1>1. Init => IInv
    BY CowStringAssumption, InitIInv
  <1>2. IInv /\ [Next]_vars => IInv'
    BY CowStringAssumption, NextIInv
  <1>3. QED
    BY <1>1, <1>2, PTL DEF Spec

(* Every field keeps its type, whatever operations follow each other.      *)
THEOREM TypeCorrect == Spec => []TypeOK
  <1>1. IInv => TypeOK
    BY DEF IInv, Owned, Balanced, Shape, Memory, TypeOK
  <1>2. QED
    BY <1>1, Invariance, PTL

(* The refcnt kept by _cow, _release, _detach_cow and the realloc helpers   *)
(* is at all times the number of strings over the buffer: no buffer is     *)
(* freed while a string reads it, none is lost.                            *)
THEOREM RefcntCorrect == Spec => []RefcntIsHolders
  <1>1. IInv => RefcntIsHolders
    BY DEF IInv, Owned, Balanced, Memory, RefcntIsHolders
  <1>2. QED
    BY <1>1, Invariance, PTL

(* A string carries the deallocator its buffer needs, however buffers were  *)
(* shared, moved, exchanged and replaced between strings of different Alloc. *)
THEOREM DtorsRight == Spec => []DtorMatches
  <1>1. IInv => DtorMatches
    BY DEF IInv, Owned, Balanced, Memory, Objs, Matched, DtorMatches
  <1>2. QED
    BY <1>1, Invariance, PTL

(* User memory lies under one control block in use while a string holds it, *)
(* and has been given back once and for all when none does.                *)
THEOREM UserMemoryOnce == Spec => []ExternalOwnedOnce
  <1>1. ASSUME IInv, NEW e \in Ext
        PROVE  Cardinality({b \in Buffers : ctl[b].refcnt > 0 /\ ctl[b].ext = e})
                 = IF held[e] THEN 1 ELSE 0
    <2> DEFINE under == {b \in Buffers : ctl[b].refcnt > 0 /\ ctl[b].ext = e}
    <2>1. OneBlockEach(Memory) /\ ctl \in [Buffers -> CtlRec]
          /\ Memory.ctl = ctl /\ Memory.held = held
      BY <1>1 DEF IInv, Owned, Balanced, Shape, Memory
    <2>2. under = {b \in Buffers : ctl[b].ext = e}
      <3>1. \A b \in Buffers : ctl[b].ext = e => ctl[b].refcnt # 0 /\ ctl[b].refcnt \in Nat
        BY <2>1 DEF OneBlockEach, CtlRec
      <3>2. QED
        BY <3>1
    <2>3. CASE held[e]
      <3>1. PICK b \in Buffers : ctl[b].ext = e
        BY <2>1, <2>3 DEF OneBlockEach
      <3>2. under = {b}
        BY <2>1, <2>2, <3>1 DEF OneBlockEach
      <3>3. QED
        BY <2>3, <3>2, FS_Singleton
    <2>4. CASE ~held[e]
      <3>1. under = {}
        BY <2>1, <2>2, <2>4 DEF OneBlockEach
      <3>2. QED
        BY <2>4, <3>1, FS_EmptySet
    <2>5. QED
      BY <2>3, <2>4
  <1>2. IInv => ExternalOwnedOnce
    BY <1>1 DEF ExternalOwnedOnce
  <1>3. QED
    BY <1>2, Invariance, PTL

(***************************************************************************)
(* buf(): what detach leaves is nobody else's.                             *)
(***************************************************************************)
LEMMA SoleHolder ==
  ASSUME NEW m, Balanced(m), Assumptions, NEW s \in Objs, m.str[s].state \in Counted, Unique(m, s)
  PROVE  Holders(m, m.str[s].blk) = {s}
  <1> DEFINE H == Holders(m, m.str[s].blk)
  <1>1. s \in H /\ IsFiniteSet(H \ {s}) /\ Cardinality(H \ {s}) \in Nat
    <2>1. s \in H
      BY DEF Holders
    <2>2. IsFiniteSet(H \ {s})
      BY HoldersFinite, FS_RemoveElement
    <2>3. QED
      BY <2>1, <2>2, FS_CardinalityType
  <1>2. Cardinality(H \ {s}) = 0
    BY <1>1, HolderCounts DEF Unique
  <1>3. H \ {s} = {}
    BY <1>1, <1>2, FS_EmptySet
  <1>4. QED
    BY <1>1, <1>3

LEMMA RehomedSole ==
  ASSUME NEW m, NEW n, NEW s \in Objs, Assumptions, Rehomed(m, n, s), Balanced(n),
         n.str[s].state \in Counted
  PROVE  Holders(n, n.str[s].blk) = {s}
  <1>1. Unique(n, s)
    BY DEF Rehomed, Unique
  <1>2. QED
    BY <1>1, SoleHolder

LEMMA DetachStrWritable ==
  ASSUME NEW m, Shape(m), NEW s \in Objs, NEW cap
  PROVE  DetachStr(m, s, cap).str[s].state # "LITERAL"
  BY DEF DetachStr, Put, PutAt, NewAuto, NewBuffer, Shape, StrRec

LEMMA DetachSole ==
  ASSUME NEW m, NEW s, Ready(m, s), m.str[s].state # "NONE"
  PROVE  LET n == Detach(m, s) IN
         /\ n.str[s].state # "LITERAL"
         /\ n.str[s].state \in Counted => Holders(n, n.str[s].blk) = {s}
  <1>0. s \in Objs /\ Assumptions /\ Balanced(m) /\ Shape(m) /\ FreeBuffers(m) # {}
    BY DEF Ready, Balanced
  <1>1. CASE m.str[s].state \in Counted /\ ~Unique(m, s)
    <2>1. PICK d : d = DecRef(m, m.str[s].blk)
      OBVIOUS
    <2>2. Shape(d) /\ FreeBuffers(d) # {}
      BY <1>1, <2>1, DecRefReady
    <2>3. PICK n : n = DetachStr(d, s, m.str[s].len)
      OBVIOUS
    <2>4. Rehomed(d, n, s) /\ n.str[s].state # "LITERAL"
      BY <1>0, <2>2, <2>3, DetachStrRehomes, DetachStrWritable
    <2>5. n = Detach(m, s)
      <3>1. n = DetachCow(m, s, m.str[s].len)
        BY <2>1, <2>3 DEF DetachCow
      <3>2. m.str[s].state # "LITERAL"
        BY <1>1 DEF Counted
      <3>3. QED
        BY <1>1, <3>1, <3>2 DEF Detach
    <2>6. Balanced(n)
      BY <2>5, DetachGood DEF Outcome
    <2>7. QED
      BY <1>0, <2>4, <2>5, <2>6, RehomedSole
  <1>2. CASE m.str[s].state = "LITERAL"
    <2>1. PICK n : n = DetachStr(m, s, m.str[s].len)
      OBVIOUS
    <2>2. n = Detach(m, s)
      BY <1>2, <2>1 DEF Detach, Counted
    <2>3. Rehomed(m, n, s) /\ n.str[s].state # "LITERAL"
      BY <1>0, <2>1, DetachStrRehomes, DetachStrWritable
    <2>4. Balanced(n)
      BY <2>2, DetachGood DEF Outcome
    <2>5. QED
      BY <1>0, <2>2, <2>3, <2>4, RehomedSole
  <1>3. CASE ~(m.str[s].state \in Counted /\ ~Unique(m, s)) /\ m.str[s].state # "LITERAL"
    <2>1. Detach(m, s) = m
      BY <1>3 DEF Detach
    <2>2. QED
      BY <1>0, <1>3, <2>1, SoleHolder
  <1>4. QED
    BY <1>1, <1>2, <1>3

(* After buf() a string shares its characters with no other: doc/string.md  *)
(* tells a caller to do this before a copy goes to another thread.         *)
THEOREM BufDetaches == Spec => []BufIsSoleOwner
  <1>1. ASSUME IInv, NEW s \in Strings, Alive(s), HeapHasRoom
        PROVE  LET m == Detach(Memory, s)
               IN  /\ m.str[s].state # "LITERAL"
                   /\ m.str[s].state \in Counted => Holders(m, m.str[s].blk) = {s}
    BY <1>1, CowStringAssumption, Here, DetachSole DEF Alive
  <1>2. IInv => BufIsSoleOwner
    BY <1>1 DEF BufIsSoleOwner
  <1>3. QED
    BY <1>2, Invariance, PTL

-----------------------------------------------------------------------------
(***************************************************************************)
(* Copy on write keeps the strings apart: a call on one string writes only  *)
(* storage that no other string reads, and no literal.                     *)
(***************************************************************************)
Blocks == Objs \cup Literals \cup Buffers

(* A string in SSO state reads its own bytes, one in LITERAL state a literal. *)
Housed(m) ==
  /\ DOMAIN m.mem = Blocks
  /\ \A t \in Objs : /\ m.str[t].state = "SSO" => m.str[t].blk = t
                     /\ m.str[t].state = "LITERAL" => m.str[t].blk \in Literals

(* The blocks a call on s must leave alone: the literals, the bytes of the  *)
(* other objects, the buffers others hold.                                 *)
Foreign(m, s) == Literals \cup (Objs \ {s}) \cup {b \in Buffers : Holders(m, b) \ {s} # {}}

(* From m to n a call on s left all of them alone.                         *)
Confined(m, n, s) ==
  /\ Shape(n) /\ Housed(n)
  /\ \A t \in Objs \ {s} : n.str[t] = m.str[t]
  /\ \A k \in Foreign(m, s) : n.mem[k] = m.mem[k]

(* s may write through its pointer.                                        *)
Own(m, s) == m.str[s].blk \in Blocks \ Foreign(m, s)

LEMMA ForeignStays ==
  ASSUME NEW m, NEW n, NEW s, Confined(m, n, s)
  PROVE  Foreign(n, s) = Foreign(m, s)
  <1>1. \A b \in Buffers : Holders(n, b) \ {s} = Holders(m, b) \ {s}
    BY DEF Holders, Confined
  <1>2. QED
    BY <1>1 DEF Foreign

LEMMA ConfinedTwice ==
  ASSUME NEW m, NEW n, NEW r, NEW s, Confined(m, n, s), Confined(n, r, s)
  PROVE  Confined(m, r, s)
  BY ForeignStays DEF Confined

LEMMA ConfinedSelf == ASSUME NEW m, NEW s, Shape(m), Housed(m) PROVE Confined(m, m, s)
  BY DEF Confined

(***************************************************************************)
(* Each step of a helper.                                                  *)
(***************************************************************************)
(* n has a new record for s, and the blocks W may be written.               *)
Rewrites(m, n, s, r, W) ==
  /\ n.str = [m.str EXCEPT ![s] = r]
  /\ DOMAIN n.mem = Blocks
  /\ \A k \in Blocks \ W : n.mem[k] = m.mem[k]
Placed(s, r) ==
  /\ r.state = "SSO" => r.blk = s
  /\ r.state = "LITERAL" => r.blk \in Literals

LEMMA RewriteConfined ==
  ASSUME NEW m, NEW n, NEW s \in Objs, Shape(m), Housed(m), Shape(n), NEW r, NEW W,
         Rewrites(m, n, s, r, W), Placed(s, r), W \cap Foreign(m, s) = {}
  PROVE  Confined(m, n, s) /\ n.str[s] = r
  <1>1. n.str[s] = r /\ \A t \in Objs \ {s} : n.str[t] = m.str[t]
    BY DEF Rewrites, Shape
  <1>2. Foreign(m, s) \subseteq Blocks \ W
    BY DEF Foreign, Blocks
  <1>3. Housed(n)
    BY <1>1 DEF Housed, Placed, Rewrites
  <1>4. QED
    BY <1>1, <1>2, <1>3 DEF Confined, Rewrites

LEMMA PutAtConfined ==
  ASSUME NEW m, NEW s \in Objs, Shape(m), Housed(m), NEW k \in Blocks \ Foreign(m, s),
         NEW at, NEW w
  PROVE  LET n == PutAt(m, k, at, w) IN
         Confined(m, n, s) /\ n.str = m.str
  <1>1. PICK n : n = PutAt(m, k, at, w)
    OBVIOUS
  <1>2. PICK v : v = Overlay(m.mem[k], at, w)
    OBVIOUS
  <1>3. n.str = m.str /\ n.mem = [m.mem EXCEPT ![k] = v]
    BY <1>1, <1>2 DEF PutAt, Shape
  <1>4. Housed(n)
    BY <1>3 DEF Housed
  <1>5. Shape(n)
    BY <1>1, PutAtShape
  <1>6. Confined(m, n, s)
    BY <1>3, <1>4, <1>5 DEF Confined, Foreign, Blocks, Housed
  <1>7. QED
    BY <1>1, <1>3, <1>4, <1>5, <1>6

(* A Put through a pointer s owns, as every operation makes it.            *)
LEMMA PutConfined ==
  ASSUME NEW m, NEW s \in Objs, Shape(m), Housed(m), Own(m, s), NEW at, NEW w
  PROVE  LET n == Put(m, s, at, w) IN
         Confined(m, n, s) /\ n.str = m.str
  BY PutAtConfined DEF Put, Own

LEMMA SetLenConfined ==
  ASSUME NEW m, NEW s \in Objs, Shape(m), Housed(m), NEW len \in Nat
  PROVE  LET n == SetLen(m, s, len) IN
         Confined(m, n, s) /\ n.str[s].blk = m.str[s].blk /\ n.str[s].state = m.str[s].state
  <1>1. PICK n : n = SetLen(m, s, len)
    OBVIOUS
  <1>0. Shape(n)
    BY <1>1, SetLenShape
  <1>2. PICK r : r = [m.str[s] EXCEPT !.len = len]
    OBVIOUS
  <1>3. Rewrites(m, n, s, r, {})
    BY <1>1, <1>2 DEF SetLen, Rewrites, Shape, Housed
  <1>4. r.state = m.str[s].state /\ r.blk = m.str[s].blk
    BY <1>2 DEF Shape, StrRec
  <1>5. Placed(s, r)
    BY <1>4 DEF Placed, Housed
  <1>6. QED
    BY <1>0, <1>1, <1>3, <1>4, <1>5, RewriteConfined

LEMMA PointToConfined ==
  ASSUME NEW m, NEW s \in Objs, Shape(m), Housed(m), NEW off \in Nat
  PROVE  LET n == PointTo(m, s, off) IN
         Confined(m, n, s) /\ n.str[s].blk = m.str[s].blk /\ n.str[s].state = m.str[s].state
  <1>1. PICK n : n = PointTo(m, s, off)
    OBVIOUS
  <1>0. Shape(n)
    BY <1>1, PointToShape
  <1>2. PICK r : r = [m.str[s] EXCEPT !.off = off]
    OBVIOUS
  <1>3. Rewrites(m, n, s, r, {})
    BY <1>1, <1>2 DEF PointTo, Rewrites, Shape, Housed
  <1>4. r.state = m.str[s].state /\ r.blk = m.str[s].blk
    BY <1>2 DEF Shape, StrRec
  <1>5. Placed(s, r)
    BY <1>4 DEF Placed, Housed
  <1>6. QED
    BY <1>0, <1>1, <1>3, <1>4, <1>5, RewriteConfined

(* A free buffer is foreign to nobody.                                     *)
LEMMA FreeNotForeign ==
  ASSUME NEW m, NEW s \in Objs, Assumptions, Shape(m), OthersInUse(m, s), NEW x \in FreeBuffers(m)
  PROVE  x \in Blocks \ Foreign(m, s) /\ x \in Buffers
  <1>1. x \in Buffers /\ x \notin Objs \cup Literals
    BY DEF FreeBuffers, Assumptions
  <1>2. Holders(m, x) \ {s} = {}
    BY DEF Holders, OthersInUse
  <1>3. QED
    BY <1>1, <1>2 DEF Foreign, Blocks

LEMMA OwnBytes ==
  ASSUME NEW m, NEW s \in Objs, Assumptions
  PROVE  s \in Blocks \ Foreign(m, s)
  BY DEF Blocks, Foreign, Assumptions

LEMMA NewBufferConfined ==
  ASSUME NEW m, NEW s \in Objs, Assumptions, Shape(m), Housed(m), OthersInUse(m, s),
         FreeBuffers(m) # {}, NEW cap
  PROVE  LET n == NewBuffer(m, s, cap) IN
         Confined(m, n, s) /\ Own(n, s) /\ n.str[s].state = "INTERNAL"
  <1>1. PICK n : n = NewBuffer(m, s, cap)
    OBVIOUS
  <1>2. PICK x : x = AnyFree(m)
    OBVIOUS
  <1>3. x \in Blocks \ Foreign(m, s) /\ s \in Blocks \ Foreign(m, s)
    BY <1>2, AnyFreeIsFree, FreeNotForeign, OwnBytes
  <1>4. PICK r : r = [m.str[s] EXCEPT !.state = "INTERNAL", !.blk = x, !.off = 0, !.dtor = AllocOf[s]]
    OBVIOUS
  <1>5. r.state = "INTERNAL" /\ r.blk = x
    BY <1>4 DEF Shape, StrRec
  <1>6. PICK w : w = Junks(cap)
    OBVIOUS
  <1>7. n.str = [m.str EXCEPT ![s] = r] /\ n.mem = [[m.mem EXCEPT ![x] = w] EXCEPT ![s] = <<>>]
    BY <1>1, <1>2, <1>4, <1>6 DEF NewBuffer, Shape
  <1>8. Rewrites(m, n, s, r, {x, s})
    BY <1>7 DEF Rewrites, Housed
  <1>9. Confined(m, n, s) /\ n.str[s] = r
    <2>1. Shape(n)
      BY <1>1, NewBufferRehomes DEF Rehomed
    <2>2. QED
      BY <1>3, <1>5, <1>8, <2>1, RewriteConfined DEF Placed
  <1>10. Own(n, s)
    BY <1>3, <1>5, <1>9, ForeignStays DEF Own
  <1>11. QED
    BY <1>1, <1>5, <1>9, <1>10

LEMMA NewAutoConfined ==
  ASSUME NEW m, NEW s \in Objs, Assumptions, Shape(m), Housed(m), OthersInUse(m, s),
         FreeBuffers(m) # {}, NEW cap
  PROVE  LET n == NewAuto(m, s, cap) IN
         Confined(m, n, s) /\ Own(n, s) /\ n.str[s].state \in {"SSO", "INTERNAL"}
  <1>1. CASE cap <= MaxSso
    <2>1. PICK n : n = NewAuto(m, s, cap)
      OBVIOUS
    <2>2. PICK r : r = [m.str[s] EXCEPT !.state = "SSO", !.blk = s, !.off = 0, !.dtor = NoDtor]
      OBVIOUS
    <2>3. r.state = "SSO" /\ r.blk = s
      BY <2>2 DEF Shape, StrRec
    <2>4. PICK w : w = Junks(MaxSso)
      OBVIOUS
    <2>5. n.str = [m.str EXCEPT ![s] = r] /\ n.mem = [m.mem EXCEPT ![s] = w]
      BY <1>1, <2>1, <2>2, <2>4 DEF NewAuto, Shape
    <2>6. Rewrites(m, n, s, r, {s})
      BY <2>5 DEF Rewrites, Housed
    <2>7. Confined(m, n, s) /\ n.str[s] = r
      <3>1. Shape(n)
        BY <2>1, NewAutoRehomes DEF Rehomed
      <3>2. QED
        BY <2>3, <2>6, <3>1, OwnBytes, RewriteConfined DEF Placed
    <2>8. Own(n, s)
      BY <2>3, <2>7, OwnBytes DEF Own
    <2>9. QED
      BY <2>1, <2>3, <2>7, <2>8
  <1>2. CASE ~(cap <= MaxSso)
    BY <1>2, NewBufferConfined DEF NewAuto
  <1>3. QED
    BY <1>1, <1>2

(***************************************************************************)
(* A call that leaves s a pointer it owns.                                 *)
(***************************************************************************)
Granted(m, n, s) == Confined(m, n, s) /\ Own(n, s)

(* s may take new storage.                                                 *)
Apt(m, s) ==
  /\ Assumptions /\ Shape(m) /\ Housed(m) /\ OthersInUse(m, s)
  /\ FreeBuffers(m) # {} /\ s \in Objs

LEMMA ConfinedGranted ==
  ASSUME NEW m, NEW n, NEW r, NEW s, Confined(m, n, s), Granted(n, r, s)
  PROVE  Granted(m, r, s)
  BY ConfinedTwice DEF Granted

LEMMA PutAtGranted ==
  ASSUME NEW m, NEW n, NEW s \in Objs, Granted(m, n, s), NEW at, NEW w
  PROVE  LET r == PutAt(n, n.str[s].blk, at, w) IN Granted(m, r, s) /\ r.str = n.str
  <1>1. PICK r : r = PutAt(n, n.str[s].blk, at, w)
    OBVIOUS
  <1>2. Confined(n, r, s) /\ r.str = n.str
    BY <1>1, PutAtConfined DEF Granted, Own, Confined
  <1>3. Own(r, s)
    BY <1>2, ForeignStays DEF Granted, Own
  <1>4. QED
    BY <1>1, <1>2, <1>3, ConfinedTwice DEF Granted

LEMMA PutGranted ==
  ASSUME NEW m, NEW n, NEW s \in Objs, Granted(m, n, s), NEW at, NEW w
  PROVE  LET r == Put(n, s, at, w) IN Granted(m, r, s) /\ r.str = n.str
  BY PutAtGranted DEF Put

LEMMA SetLenGranted ==
  ASSUME NEW m, NEW n, NEW s \in Objs, Granted(m, n, s), NEW len \in Nat
  PROVE  Granted(m, SetLen(n, s, len), s)
  <1>1. PICK r : r = SetLen(n, s, len)
    OBVIOUS
  <1>2. Confined(n, r, s) /\ r.str[s].blk = n.str[s].blk
    BY <1>1, SetLenConfined DEF Granted, Confined
  <1>3. Own(r, s)
    BY <1>2, ForeignStays DEF Granted, Own
  <1>4. QED
    BY <1>1, <1>2, <1>3, ConfinedTwice DEF Granted

LEMMA PointToGranted ==
  ASSUME NEW m, NEW n, NEW s \in Objs, Granted(m, n, s), NEW off \in Nat
  PROVE  Granted(m, PointTo(n, s, off), s)
  <1>1. PICK r : r = PointTo(n, s, off)
    OBVIOUS
  <1>2. Confined(n, r, s) /\ r.str[s].blk = n.str[s].blk
    BY <1>1, PointToConfined DEF Granted, Confined
  <1>3. Own(r, s)
    BY <1>2, ForeignStays DEF Granted, Own
  <1>4. QED
    BY <1>1, <1>2, <1>3, ConfinedTwice DEF Granted

LEMMA SetLenThen ==
  ASSUME NEW m, NEW n, NEW s \in Objs, Confined(m, n, s), NEW len \in Nat
  PROVE  Confined(m, SetLen(n, s, len), s)
  <1>1. PICK r : r = SetLen(n, s, len)
    OBVIOUS
  <1>2. Confined(n, r, s)
    BY <1>1, SetLenConfined DEF Confined
  <1>3. QED
    BY <1>1, <1>2, ConfinedTwice

LEMMA PointToThen ==
  ASSUME NEW m, NEW n, NEW s \in Objs, Confined(m, n, s), NEW off \in Nat
  PROVE  Confined(m, PointTo(n, s, off), s)
  <1>1. PICK r : r = PointTo(n, s, off)
    OBVIOUS
  <1>2. Confined(n, r, s)
    BY <1>1, PointToConfined DEF Confined
  <1>3. QED
    BY <1>1, <1>2, ConfinedTwice

LEMMA NewStorageGranted ==
  ASSUME NEW m, NEW s, Apt(m, s), NEW cap, NEW pos, NEW rem, NEW ins
  PROVE  /\ Granted(m, NewAuto(m, s, cap), s)
         /\ Granted(m, DetachStr(m, s, cap), s)
         /\ Granted(m, NewInternalFromSso(m, s, cap), s)
         /\ Granted(m, ReserveMiddleNew(m, s, pos, rem, ins), s)
         /\ Granted(m, NewInternalFromSsoMiddle(m, s, pos, rem, ins), s)
  <1>1. \A c : Granted(m, NewAuto(m, s, c), s) /\ Granted(m, NewBuffer(m, s, c), s)
    BY NewAutoConfined, NewBufferConfined DEF Apt, Granted
  <1>2. s \in Objs
    BY DEF Apt
  <1>3. Granted(m, DetachStr(m, s, cap), s) /\ Granted(m, NewInternalFromSso(m, s, cap), s)
    BY <1>1, <1>2, PutGranted DEF DetachStr, NewInternalFromSso
  <1>4. Granted(m, ReserveMiddleNew(m, s, pos, rem, ins), s)
    BY <1>1, <1>2, PutGranted DEF ReserveMiddleNew
  <1>5. Granted(m, NewInternalFromSsoMiddle(m, s, pos, rem, ins), s)
    BY <1>1, <1>2, PutGranted DEF NewInternalFromSsoMiddle
  <1>6. QED
    BY <1>1, <1>3, <1>4, <1>5

(***************************************************************************)
(* Giving up a reference.                                                  *)
(***************************************************************************)
(* Any call may start here.                                                *)
Able(m, s) == Ready(m, s) /\ Housed(m)

LEMMA AbleApt ==
  ASSUME NEW m, NEW s, Able(m, s)
  PROVE  /\ Apt(m, s) /\ Shape(m) /\ Housed(m) /\ Balanced(m) /\ s \in Objs
         /\ Confined(m, m, s)
  BY AllInUse, ConfinedSelf DEF Able, Ready, Balanced, Apt

LEMMA UniqueOwn ==
  ASSUME NEW m, Balanced(m), Assumptions, NEW s \in Objs, m.str[s].state \in Counted, Unique(m, s)
  PROVE  Own(m, s) /\ m.str[s].blk \in Buffers
  <1>1. Holders(m, m.str[s].blk) \ {s} = {} /\ m.str[s].blk \in Buffers
    BY SoleHolder DEF Balanced, Shape
  <1>2. QED
    BY <1>1 DEF Own, Foreign, Blocks, Assumptions

LEMMA SsoOwn ==
  ASSUME NEW m, Housed(m), Assumptions, NEW s \in Objs, m.str[s].state = "SSO"
  PROVE  Own(m, s)
  BY OwnBytes DEF Own, Housed

LEMMA FreeConfined ==
  ASSUME NEW m, NEW s \in Objs, Shape(m), Housed(m), NEW p, p.blk \in Buffers \ Foreign(m, s)
  PROVE  LET n == FreeBuffer(m, p) IN Confined(m, n, s) /\ n.str = m.str
  <1>1. PICK n : n = FreeBuffer(m, p)
    OBVIOUS
  <1>2. Shape(n) /\ n.str = m.str
    BY <1>1, FreeBufferShape
  <1>3. n.mem = [m.mem EXCEPT ![p.blk] = <<>>]
    BY <1>1 DEF FreeBuffer, CallDtor, Shape
  <1>4. Housed(n)
    BY <1>2, <1>3 DEF Housed
  <1>5. QED
    BY <1>1, <1>2, <1>3, <1>4 DEF Confined, Foreign, Housed, Blocks

LEMMA DecRefConfined ==
  ASSUME NEW m, NEW s, Able(m, s), m.str[s].state \in Counted, ~Unique(m, s)
  PROVE  LET d == DecRef(m, m.str[s].blk) IN Confined(m, d, s) /\ Apt(d, s) /\ d.str = m.str
  <1>1. PICK d : d = DecRef(m, m.str[s].blk)
    OBVIOUS
  <1>2. BalancedBut(d, s) /\ Shape(d) /\ FreeBuffers(d) # {} /\ d.str = m.str
        /\ s \in Objs /\ Assumptions
    BY <1>1, DecRefReady DEF Able, Ready
  <1>3. d.mem = m.mem
    BY <1>1 DEF DecRef, Able, Ready, Balanced, Shape
  <1>4. Housed(d)
    BY <1>2, <1>3 DEF Housed, Able
  <1>5. Confined(m, d, s)
    BY <1>2, <1>3, <1>4 DEF Confined
  <1>6. QED
    BY <1>1, <1>2, <1>4, <1>5, ButOthersInUse DEF Apt

(* A shared s takes new storage after its reference is given up.           *)
LEMMA SharedGranted ==
  ASSUME NEW m, NEW s, Able(m, s), m.str[s].state \in Counted, ~Unique(m, s),
         NEW cap, NEW pos, NEW rem, NEW ins
  PROVE  LET d == DecRef(m, m.str[s].blk) IN
         /\ Granted(m, NewAuto(d, s, cap), s)
         /\ Granted(m, DetachCow(m, s, cap), s)
         /\ Granted(m, ReserveMiddleNew(d, s, pos, rem, ins), s)
  <1>1. PICK d : d = DecRef(m, m.str[s].blk)
    OBVIOUS
  <1>2. Confined(m, d, s) /\ Apt(d, s)
    BY <1>1, DecRefConfined
  <1>3. /\ Granted(d, NewAuto(d, s, cap), s)
        /\ Granted(d, DetachStr(d, s, cap), s)
        /\ Granted(d, ReserveMiddleNew(d, s, pos, rem, ins), s)
    BY <1>2, NewStorageGranted
  <1>4. QED
    BY <1>1, <1>2, <1>3, ConfinedGranted DEF DetachCow

LEMMA ReleaseConfined ==
  ASSUME NEW m, NEW s \in Objs, Balanced(m), Housed(m), Assumptions
  PROVE  LET n == Release(m, s) IN Confined(m, n, s) /\ Housed(n)
  <1>0. Shape(m)
    BY DEF Balanced
  <1>1. PICK d : /\ Confined(m, d, s) /\ d.str = m.str
                 /\ Release(m, s) = [d EXCEPT !.str[s] = Void, !.mem[s] = <<>>]
    <2>1. CASE m.str[s].state \in Counted
      <3>1. PICK d : d = ReleaseBuffer(m, m.str[s])
        OBVIOUS
      <3>2. CASE Unique(m, s)
        <4>1. d = FreeBuffer(m, m.str[s])
          BY <1>0, <2>1, <3>1, <3>2, HolderCounts, LastReference DEF Unique
        <4>2. m.str[s].blk \in Buffers \ Foreign(m, s)
          BY <2>1, <3>2, UniqueOwn DEF Own
        <4>3. Confined(m, d, s) /\ d.str = m.str
          BY <1>0, <4>1, <4>2, FreeConfined
        <4>4. QED
          BY <2>1, <3>1, <4>3 DEF Release
      <3>3. CASE ~Unique(m, s)
        <4>1. d = DecRef(m, m.str[s].blk)
          BY <1>0, <2>1, <3>1, <3>3, HolderCounts, LastReference DEF Unique
        <4>2. d.str = m.str /\ d.mem = m.mem
          BY <1>0, <4>1 DEF DecRef, Shape
        <4>3. BalancedBut(d, s)
          BY <2>1, <3>3, <4>1, DecRefBut
        <4>4. Confined(m, d, s)
          BY <4>2, <4>3 DEF Confined, Housed, BalancedBut
        <4>5. QED
          BY <2>1, <3>1, <4>2, <4>4 DEF Release
      <3>4. QED
        BY <3>2, <3>3
    <2>2. CASE m.str[s].state \notin Counted
      BY <1>0, <2>2, ConfinedSelf DEF Release
    <2>3. QED
      BY <2>1, <2>2
  <1>2. PICK n : n = Release(m, s)
    OBVIOUS
  <1>3. n.mem = [d.mem EXCEPT ![s] = <<>>] /\ n.str = [d.str EXCEPT ![s] = Void]
    BY <1>1, <1>2 DEF Confined, Shape
  <1>4. Shape(n)
    BY <1>2, ReleaseGood DEF Balanced
  <1>5. Rewrites(d, n, s, Void, {s}) /\ Placed(s, Void)
    BY <1>1, <1>3 DEF Rewrites, Placed, Void, Confined, Housed
  <1>6. Confined(d, n, s)
    <2>1. Shape(d) /\ Housed(d)
      BY <1>1 DEF Confined
    <2>2. {s} \cap Foreign(d, s) = {}
      BY OwnBytes
    <2>3. QED
      BY <1>4, <1>5, <2>1, <2>2, RewriteConfined
  <1>7. Confined(m, n, s)
    BY <1>1, <1>6, ConfinedTwice
  <1>8. QED
    BY <1>2, <1>7 DEF Confined

(***************************************************************************)
(* Detaching and reserving.                                                *)
(***************************************************************************)
(* Nobody else reads the storage of s.                                     *)
Alone(m, s) == m.str[s].state = "SSO" \/ (m.str[s].state \in Counted /\ Unique(m, s))

LEMMA AloneGranted ==
  ASSUME NEW m, NEW s, Able(m, s), Alone(m, s)
  PROVE  Granted(m, m, s)
  <1>1. Balanced(m) /\ Housed(m) /\ Assumptions /\ s \in Objs /\ Confined(m, m, s)
    BY AbleApt DEF Apt
  <1>2. Own(m, s)
    BY <1>1, SsoOwn, UniqueOwn DEF Alone
  <1>3. QED
    BY <1>1, <1>2 DEF Granted

LEMMA DetachGranted ==
  ASSUME NEW m, NEW s, Able(m, s), m.str[s].state # "NONE"
  PROVE  Granted(m, Detach(m, s), s) /\ Confined(m, SharedDetach(m, s), s)
  <1>0. Apt(m, s) /\ s \in Objs /\ Confined(m, m, s) /\ m.str[s].state \in States
    BY AbleApt DEF Shape, StrRec
  <1>1. CASE m.str[s].state \in Counted /\ ~Unique(m, s)
    <2>1. Detach(m, s) = DetachCow(m, s, m.str[s].len) /\ SharedDetach(m, s) = m
      BY <1>1 DEF Detach, SharedDetach, Counted
    <2>2. Granted(m, DetachCow(m, s, m.str[s].len), s)
      BY <1>1, SharedGranted
    <2>3. QED
      BY <1>0, <2>1, <2>2
  <1>2. CASE m.str[s].state = "LITERAL"
    <2>1. /\ Detach(m, s) = DetachStr(m, s, m.str[s].len)
          /\ SharedDetach(m, s) = DetachStr(m, s, m.str[s].len)
      BY <1>2 DEF Detach, SharedDetach, Counted
    <2>2. Granted(m, DetachStr(m, s, m.str[s].len), s)
      BY <1>0, NewStorageGranted
    <2>3. QED
      BY <2>1, <2>2 DEF Granted
  <1>3. CASE Alone(m, s)
    <2>1. Detach(m, s) = m /\ SharedDetach(m, s) = m
      BY <1>3 DEF Alone, Detach, SharedDetach, Counted
    <2>2. QED
      BY <1>0, <1>3, <2>1, AloneGranted
  <1>4. QED
    BY <1>0, <1>1, <1>2, <1>3 DEF Alone, States, Counted

(* The storage a call has copied out of is freed.                          *)
LEMMA FreeGranted ==
  ASSUME NEW m, NEW n, NEW s \in Objs, Granted(m, n, s), NEW p, p.blk \in Buffers \ Foreign(m, s)
  PROVE  Granted(m, FreeBuffer(n, p), s)
  <1>1. PICK r : r = FreeBuffer(n, p)
    OBVIOUS
  <1>2. Shape(n) /\ Housed(n) /\ p.blk \in Buffers \ Foreign(n, s)
    BY ForeignStays DEF Granted, Confined
  <1>3. Confined(n, r, s) /\ r.str = n.str
    BY <1>1, <1>2, FreeConfined
  <1>4. Own(r, s)
    BY <1>3, ForeignStays DEF Granted, Own
  <1>5. QED
    BY <1>1, <1>3, <1>4, ConfinedTwice DEF Granted

(* After s moved to new storage the reference it had is released.          *)
LEMMA OldReleased ==
  ASSUME NEW m, NEW n, NEW s, Able(m, s), m.str[s].state \in Counted,
         Granted(m, n, s), Rehomed(m, n, s)
  PROVE  Granted(m, ReleaseBuffer(n, m.str[s]), s)
  <1> DEFINE p == m.str[s]
  <1>1. Balanced(m) /\ Assumptions /\ s \in Objs
    BY AbleApt DEF Apt
  <1>2. BalancedPlus(n, p) /\ n.ctl[p.blk] = m.ctl[p.blk]
    BY <1>1, RehomedPlus
  <1>3. p.blk \in Buffers /\ m.ctl[p.blk].refcnt \in Nat
    BY <1>1, HolderCounts
  <1>4. PICK r : r = ReleaseBuffer(n, p)
    OBVIOUS
  <1>5. Shape(r) /\ r.str = n.str
    BY <1>1, <1>2, <1>3, <1>4, ReleasePlus DEF Balanced
  <1>6. r = IF Unique(m, s) THEN FreeBuffer(n, p) ELSE DecRef(n, p.blk)
    <2>1. Shape(n) /\ n.ctl[p.blk].refcnt \in Nat
      BY <1>2, <1>3 DEF BalancedPlus
    <2>2. r = IF n.ctl[p.blk].refcnt = 1 THEN FreeBuffer(n, p) ELSE DecRef(n, p.blk)
      BY <1>3, <1>4, <2>1, LastReference
    <2>3. QED
      BY <1>2, <2>2 DEF Unique
  <1>7. CASE Unique(m, s)
    <2>1. p.blk \in Buffers \ Foreign(m, s)
      BY <1>1, <1>7, UniqueOwn DEF Own
    <2>2. QED
      BY <1>1, <1>4, <1>6, <1>7, <2>1, FreeGranted
  <1>8. CASE ~Unique(m, s)
    <2>1. r.mem = n.mem
      BY <1>2, <1>6, <1>8 DEF DecRef, BalancedPlus, Shape
    <2>2. Confined(m, r, s)
      BY <1>5, <2>1 DEF Granted, Confined, Housed
    <2>3. Own(r, s)
      <3>1. Own(n, s) /\ Holders(r, m.str[s].blk) = Holders(n, m.str[s].blk)
        BY <1>5 DEF Granted, Holders
      <3>2. Foreign(r, s) = Foreign(n, s)
        BY <1>5 DEF Foreign, Holders
      <3>3. QED
        BY <1>5, <3>1, <3>2 DEF Own
    <2>4. QED
      BY <1>4, <2>2, <2>3 DEF Granted
  <1>9. QED
    BY <1>7, <1>8

LEMMA ReallocGranted ==
  ASSUME NEW m, NEW s, Able(m, s), m.str[s].state \in Counted, Unique(m, s), NEW cap
  PROVE  Granted(m, Realloc(m, s, cap), s)
  <1>1. Balanced(m) /\ Shape(m) /\ Housed(m) /\ Assumptions /\ s \in Objs /\ Apt(m, s)
    BY AbleApt DEF Apt
  <1>2. Own(m, s) /\ m.str[s].blk \in Buffers
    BY <1>1, UniqueOwn
  <1>3. Granted(m, ReallocElsewhere(m, s, cap), s)
    <2>1. Granted(m, DetachStr(m, s, cap), s)
      BY <1>1, NewStorageGranted
    <2>2. QED
      BY <1>1, <1>2, <2>1, FreeGranted DEF ReallocElsewhere, Own
  <1>4. CASE Realloc(m, s, cap) = ReallocInPlace(m, s, cap)
    <2>1. PICK n : n = ReallocInPlace(m, s, cap)
      OBVIOUS
    <2>2. Shape(n)
      BY <1>4, <2>1, ReallocGood DEF Able, Outcome, Balanced
    <2>3. PICK w : w = [i \in 1..cap |-> Cell(m, m.str[s].blk, i)]
      OBVIOUS
    <2>4. n.str = m.str /\ n.mem = [m.mem EXCEPT ![m.str[s].blk] = w]
      BY <1>1, <2>1, <2>3 DEF ReallocInPlace, Shape
    <2>5. Confined(m, n, s)
      BY <1>1, <1>2, <2>2, <2>4 DEF Confined, Housed, Own
    <2>6. Own(n, s)
      BY <1>2, <2>4, <2>5, ForeignStays DEF Own
    <2>7. QED
      BY <1>4, <2>1, <2>5, <2>6 DEF Granted
  <1>5. QED
    BY <1>3, <1>4 DEF Realloc

LEMMA MoveToStartGranted ==
  ASSUME NEW m, NEW s, Able(m, s), Alone(m, s)
  PROVE  Granted(m, MoveToStart(m, s), s)
  <1>1. Granted(m, m, s) /\ s \in Objs
    BY AloneGranted, AbleApt
  <1>2. PICK w : w = Read(m, m.str[s])
    OBVIOUS
  <1>3. Granted(m, PutAt(m, m.str[s].blk, 0, w), s)
    BY <1>1, PutAtGranted
  <1>4. QED
    BY <1>1, <1>2, <1>3, PointToGranted DEF MoveToStart

LEMMA ReserveSaveGranted ==
  ASSUME NEW m, NEW s, Able(m, s), m.str[s].state # "NONE", NEW want, NEW extra
  PROVE  Granted(m, ReserveSave(m, s, want, extra), s)
  <1>0. Apt(m, s) /\ s \in Objs /\ m.str[s].state \in States
    BY AbleApt DEF Shape, StrRec
  <1>1. PICK cap : cap = IF want < m.str[s].len THEN m.str[s].len ELSE want
    OBVIOUS
  <1>2. PICK c : c = Times(cap, extra)
    OBVIOUS
  <1>3. CASE m.str[s].state \in Counted
    <2>1. CASE ~Unique(m, s)
      <3>1. ReserveSaveCounted(m, s, cap, extra) = DetachCow(m, s, c)
        BY <1>2, <2>1 DEF ReserveSaveCounted
      <3>2. QED
        BY <1>1, <1>3, <2>1, <3>1, SharedGranted DEF ReserveSave, Counted
    <2>2. CASE Unique(m, s)
      <3>1. Granted(m, m, s) /\ Granted(m, MoveToStart(m, s), s)
        BY <1>3, <2>2, AloneGranted, MoveToStartGranted DEF Alone
      <3>2. Granted(m, Realloc(m, s, c), s)
        BY <1>3, <2>2, ReallocGranted
      <3>3. Granted(m, ReserveSaveCounted(m, s, cap, extra), s)
        BY <1>2, <2>2, <3>1, <3>2 DEF ReserveSaveCounted
      <3>4. QED
        BY <1>1, <1>3, <3>3 DEF ReserveSave, Counted
    <2>3. QED
      BY <2>1, <2>2
  <1>4. CASE m.str[s].state = "LITERAL"
    <2>1. Granted(m, DetachStr(m, s, c), s)
      BY <1>0, NewStorageGranted
    <2>2. ReserveSave(m, s, want, extra) = DetachStr(m, s, c)
      BY <1>1, <1>2, <1>4 DEF ReserveSave, Counted
    <2>3. QED
      BY <2>1, <2>2
  <1>5. CASE m.str[s].state = "SSO"
    <2>1. Granted(m, NewInternalFromSso(m, s, c), s)
      BY <1>0, NewStorageGranted
    <2>2. Granted(m, m, s) /\ Granted(m, MoveToStart(m, s), s)
      BY <1>5, AloneGranted, MoveToStartGranted DEF Alone
    <2>3. Granted(m, ReserveSaveSso(m, s, cap, extra), s)
      BY <1>2, <2>1, <2>2 DEF ReserveSaveSso
    <2>4. ReserveSave(m, s, want, extra) = ReserveSaveSso(m, s, cap, extra)
      BY <1>1, <1>5 DEF ReserveSave, Counted
    <2>5. QED
      BY <2>3, <2>4
  <1>6. QED
    BY <1>0, <1>3, <1>4, <1>5 DEF States, Counted

LEMMA ReserveDropGranted ==
  ASSUME NEW m, NEW s, Able(m, s), NEW cap
  PROVE  Granted(m, ReserveDrop(m, s, cap), s)
  <1>0. Apt(m, s) /\ s \in Objs /\ Balanced(m) /\ Shape(m) /\ Housed(m) /\ Assumptions
    BY AbleApt DEF Apt
  <1>1. CASE m.str[s].state \notin Counted
    BY <1>0, <1>1, NewStorageGranted DEF ReserveDrop
  <1>2. CASE m.str[s].state \in Counted /\ ~Unique(m, s)
    BY <1>2, SharedGranted DEF ReserveDrop
  <1>3. CASE m.str[s].state \in Counted /\ Unique(m, s)
    <2>1. Granted(m, PointTo(m, s, 0), s)
      BY <1>0, <1>3, AloneGranted, PointToGranted DEF Alone
    <2>2. Granted(m, NewAuto(FreeBuffer(m, m.str[s]), s, cap), s)
      <3>1. PICK d : d = FreeBuffer(m, m.str[s])
        OBVIOUS
      <3>2. BalancedBut(d, s) /\ FreeBuffers(d) # {}
        BY <1>0, <1>3, <3>1, FreeBut
      <3>3. Confined(m, d, s)
        BY <1>0, <1>3, <3>1, UniqueOwn, FreeConfined DEF Own
      <3>4. Apt(d, s)
        BY <1>0, <3>2, <3>3, ButOthersInUse DEF Apt, Confined
      <3>5. Granted(d, NewAuto(d, s, cap), s)
        BY <3>4, NewStorageGranted
      <3>6. QED
        BY <3>1, <3>3, <3>5, ConfinedGranted
    <2>3. QED
      BY <1>3, <2>1, <2>2 DEF ReserveDrop
  <1>4. QED
    BY <1>1, <1>2, <1>3

(***************************************************************************)
(* Splitting in the middle, editing.                                       *)
(***************************************************************************)
LEMMA ReserveMiddleMoveGranted ==
  ASSUME NEW m, NEW s, Able(m, s), Alone(m, s), NEW pos \in Nat, NEW rem \in Nat, NEW ins \in Nat
  PROVE  Granted(m, ReserveMiddleMove(m, s, pos, rem, ins), s)
  <1>1. Granted(m, m, s) /\ s \in Objs /\ m.str[s].off \in Nat
    BY AloneGranted, AbleApt, FieldsTyped
  <1>2. Granted(m, ShiftTail(m, s, pos, rem, ins), s)
    BY <1>1, PutGranted DEF ShiftTail
  <1>3. m.str[s].off >= ins - rem => Granted(m, ShiftHead(m, s, pos, ins - rem), s)
    <2> HAVE m.str[s].off >= ins - rem
    <2>1. m.str[s].off - (ins - rem) \in Nat
      BY <1>1
    <2>2. PICK n : n = Put(m, s, -(ins - rem), Read(m, Front(m.str[s], pos)))
      OBVIOUS
    <2>3. Granted(m, n, s)
      BY <1>1, <2>2, PutGranted
    <2>4. QED
      BY <1>1, <2>1, <2>2, <2>3, PointToGranted DEF ShiftHead
  <1>4. \A w, at, v :
          Granted(m, PointTo(PutAt(PutAt(m, m.str[s].blk, 0, v), m.str[s].blk, at, w), s, 0), s)
    <2> TAKE w, at, v
    <2>1. PICK n : n = PutAt(m, m.str[s].blk, 0, v)
      OBVIOUS
    <2>2. Granted(m, n, s) /\ n.str = m.str
      BY <1>1, <2>1, PutAtGranted
    <2>3. Granted(m, PutAt(n, m.str[s].blk, at, w), s)
      BY <1>1, <2>2, PutAtGranted
    <2>4. QED
      BY <1>1, <2>1, <2>3, PointToGranted
  <1>5. QED
    BY <1>2, <1>3, <1>4 DEF ReserveMiddleMove

LEMMA ReserveMiddleGranted ==
  ASSUME NEW m, NEW s, Able(m, s), m.str[s].state # "NONE",
         NEW pos \in Nat, NEW rem \in Nat, NEW ins \in Nat, rem <= m.str[s].len - pos
  PROVE  Granted(m, ReserveMiddle(m, s, pos, rem, ins), s)
  <1> DEFINE p == m.str[s]
             n == ReserveMiddleNew(m, s, pos, rem, ins)
             move == ReserveMiddleMove(m, s, pos, rem, ins)
  <1>0. Apt(m, s) /\ s \in Objs /\ p.state \in States /\ Shape(m)
    BY AbleApt DEF Shape, StrRec
  <1>1. p.len + ins - rem \in Nat
    BY <1>0, FieldsTyped
  <1>2. Granted(m, n, s) /\ Granted(m, NewInternalFromSsoMiddle(m, s, pos, rem, ins), s)
    BY <1>0, NewStorageGranted
  <1>3. Alone(m, s) => Granted(m, move, s)
    BY ReserveMiddleMoveGranted
  <1>4. CASE p.state \in Counted
    <2>1. ~Unique(m, s) => Granted(m, ReserveMiddleNew(DecRef(m, p.blk), s, pos, rem, ins), s)
      BY <1>4, SharedGranted
    <2>2. Granted(m, ReleaseBuffer(n, p), s)
      <3>1. Rehomed(m, n, s)
        BY <1>0, ReserveMiddleNewRehomes DEF Apt
      <3> HIDE DEF n
      <3>2. QED
        BY <1>2, <1>4, <3>1, OldReleased
    <2>3. Unique(m, s) => Alone(m, s)
      BY <1>4 DEF Alone
    <2> HIDE DEF n, move
    <2>4. QED
      BY <1>0, <1>1, <1>3, <1>4, <2>1, <2>2, <2>3, SetLenGranted
         DEF ReserveMiddle, Counted, n, move
  <1>5. CASE p.state = "LITERAL"
    BY <1>0, <1>1, <1>2, <1>5, SetLenGranted DEF ReserveMiddle, Counted
  <1>6. CASE p.state = "SSO"
    <2>1. Alone(m, s)
      BY <1>6 DEF Alone
    <2>2. QED
      BY <1>0, <1>1, <1>2, <1>3, <1>6, <2>1, SetLenGranted DEF ReserveMiddle, Counted
  <1>7. QED
    BY <1>0, <1>4, <1>5, <1>6 DEF States, Counted

LEMMA ShrinkConfined ==
  ASSUME NEW m, NEW s, Able(m, s)
  PROVE  Confined(m, ShrinkToFit(m, s), s)
  <1> DEFINE p == m.str[s]
  <1>0. Apt(m, s) /\ s \in Objs /\ Confined(m, m, s)
    BY AbleApt
  <1>1. CASE p.state \in Counted
    <2>1. PICK n : n = DetachStr(m, s, p.len)
      OBVIOUS
    <2>2. Granted(m, n, s) /\ Rehomed(m, n, s)
      BY <1>0, <2>1, NewStorageGranted, DetachStrRehomes DEF Apt
    <2>3. Confined(m, ReleaseBuffer(n, p), s)
      BY <1>1, <2>2, OldReleased DEF Granted
    <2>4. Unique(m, s) => Confined(m, Realloc(m, s, p.len), s)
      BY <1>1, ReallocGranted DEF Granted
    <2>5. QED
      BY <1>0, <1>1, <2>1, <2>3, <2>4 DEF ShrinkToFit
  <1>2. CASE p.state \notin Counted
    BY <1>0, <1>2 DEF ShrinkToFit
  <1>3. QED
    BY <1>1, <1>2

LEMMA CStrConfined ==
  ASSUME NEW m, NEW s, Able(m, s), m.str[s].state # "NONE"
  PROVE  Confined(m, CStr(m, s), s)
  <1>0. s \in Objs /\ Confined(m, m, s) /\ m.str[s].state \in States /\ m.str[s].len \in Nat
    BY AbleApt, FieldsTyped DEF Shape, StrRec
  <1>1. CASE m.str[s].state = "LITERAL"
    BY <1>0, <1>1 DEF CStr
  <1>2. CASE m.str[s].state # "LITERAL"
    <2>1. PICK m1 : m1 = IF Capacity(m, s) <= m.str[s].len
                         THEN ReserveSave(m, s, m.str[s].len + 1, "exact") ELSE m
      OBVIOUS
    <2>2. Granted(m, m1, s)
      <3>1. Capacity(m, s) <= m.str[s].len => Granted(m, m1, s)
        BY <2>1, ReserveSaveGranted
      <3>2. CASE ~(Capacity(m, s) <= m.str[s].len)
        <4>1. CASE m.str[s].state \in Counted /\ ~Unique(m, s)
          <5>1. Capacity(m, s) = 0
            BY <4>1 DEF Capacity, Counted
          <5>2. QED
            BY <1>0, <3>2, <5>1
        <4>2. CASE Alone(m, s)
          BY <2>1, <3>2, <4>2, AloneGranted
        <4>3. QED
          BY <1>0, <1>2, <4>1, <4>2 DEF Alone, States, Counted
      <3>3. QED
        BY <3>1, <3>2
    <2>3. Granted(m, Put(m1, s, m.str[s].len, <<NUL>>), s)
      BY <1>0, <2>2, PutGranted
    <2>4. QED
      BY <1>2, <2>1, <2>3 DEF CStr, Granted
  <1>3. QED
    BY <1>1, <1>2

(* Append writes behind the end of what the reservation granted.           *)
LEMMA PutSetLen ==
  ASSUME NEW m, NEW n, NEW s \in Objs, Granted(m, n, s), NEW at, NEW w, NEW len \in Nat
  PROVE  Confined(m, SetLen(Put(n, s, at, w), s, len), s)
  <1>1. PICK r : r = Put(n, s, at, w)
    OBVIOUS
  <1>2. Granted(m, r, s)
    BY <1>1, PutGranted
  <1>3. QED
    BY <1>1, <1>2, SetLenThen DEF Granted

LEMMA AppendCharsConfined ==
  ASSUME NEW m, NEW s, Able(m, s), m.str[s].state # "NONE", NEW src, src.len \in Nat
  PROVE  Confined(m, AppendChars(m, s, src), s)
  <1>0. s \in Objs /\ Confined(m, m, s) /\ m.str[s].len + src.len \in Nat
    BY AbleApt, FieldsTyped
  <1>1. PICK m1 : m1 = ReserveSave(m, s, m.str[s].len + src.len, "grow")
    OBVIOUS
  <1>2. Granted(m, m1, s)
    BY <1>1, ReserveSaveGranted
  <1>3. \A w : Confined(m, SetLen(Put(m1, s, m.str[s].len, w), s, m.str[s].len + src.len), s)
    BY <1>0, <1>2, PutSetLen
  <1>4. QED
    BY <1>0, <1>1, <1>3 DEF AppendChars

LEMMA AppendStringConfined ==
  ASSUME NEW m, NEW s, Able(m, s), m.str[s].state # "NONE", NEW t \in Objs,
         NEW pos \in Nat, pos <= m.str[t].len, NEW n \in Nat
  PROVE  Confined(m, AppendString(m, s, t, pos, n), s)
  <1>0. s \in Objs /\ Confined(m, m, s) /\ Shape(m)
    BY AbleApt
  <1>1. PICK cnt : cnt = Slice(m.str[t], pos, n).len
    OBVIOUS
  <1>2. m.str[s].len + cnt \in Nat
    BY <1>0, <1>1, FieldsTyped, SliceTyped
  <1>3. PICK m1 : m1 = ReserveSave(m, s, m.str[s].len + cnt, "grow")
    OBVIOUS
  <1>4. Granted(m, m1, s)
    BY <1>3, ReserveSaveGranted
  <1>5. \A w : Confined(m, SetLen(Put(m1, s, m.str[s].len, w), s, m.str[s].len + cnt), s)
    BY <1>0, <1>2, <1>4, PutSetLen
  <1>6. QED
    BY <1>0, <1>1, <1>3, <1>5 DEF AppendString

LEMMA EraseInPlaceConfined ==
  ASSUME NEW m, NEW s, Able(m, s), Alone(m, s), NEW pos \in Nat, NEW n \in Nat
  PROVE  Confined(m, EraseInPlace(m, s, pos, n), s)
  <1>1. Granted(m, m, s) /\ s \in Objs /\ m.str[s].off + n \in Nat
    BY AloneGranted, AbleApt, FieldsTyped
  <1>2. \A at, w : Granted(m, Put(m, s, at, w), s)
    BY <1>1, PutGranted
  <1>3. \A at, w : Confined(m, PointTo(Put(m, s, at, w), s, m.str[s].off + n), s)
    <2> TAKE at, w
    <2>1. PICK r : r = Put(m, s, at, w)
      OBVIOUS
    <2>2. QED
      BY <1>1, <1>2, <2>1, PointToThen DEF Granted
  <1>4. QED
    BY <1>2, <1>3 DEF EraseInPlace, Granted

LEMMA EraseElsewhereConfined ==
  ASSUME NEW m, NEW s, Able(m, s), ~Alone(m, s), NEW pos \in Nat, NEW n \in Nat
  PROVE  Confined(m, EraseElsewhere(m, s, pos, n), s)
  <1>0. Apt(m, s) /\ s \in Objs
    BY AbleApt
  <1>1. PICK c : c = m.str[s].len - n
    OBVIOUS
  <1>2. PICK m1 : m1 = NewAuto(IF m.str[s].state \in Counted THEN DecRef(m, m.str[s].blk) ELSE m, s, c)
    OBVIOUS
  <1>3. Granted(m, m1, s)
    <2>1. m.str[s].state \in Counted => ~Unique(m, s)
      BY DEF Alone
    <2>2. QED
      BY <1>0, <1>2, <2>1, SharedGranted, NewStorageGranted
  <1>4. \A v, w : Granted(m, Put(Put(m1, s, 0, v), s, pos, w), s)
    BY <1>0, <1>3, PutGranted
  <1>5. QED
    BY <1>1, <1>2, <1>4 DEF EraseElsewhere, Granted

LEMMA EraseConfined ==
  ASSUME NEW m, NEW s, Able(m, s), NEW pos \in Nat, NEW n \in Nat, pos <= m.str[s].len
  PROVE  Confined(m, Erase(m, s, pos, n), s)
  <1> DEFINE p == m.str[s]
  <1>0. s \in Objs /\ Confined(m, m, s) /\ p.len \in Nat /\ p.off \in Nat
    BY AbleApt, FieldsTyped
  <1>1. CASE n > p.len - pos
    BY <1>0, <1>1, SetLenThen DEF Erase
  <1>2. CASE n <= p.len - pos /\ pos = 0
    <2>1. p.off + n \in Nat /\ p.len - n \in Nat
      BY <1>0, <1>2
    <2>2. Confined(m, PointTo(m, s, p.off + n), s)
      BY <1>0, <2>1, PointToThen
    <2>3. Confined(m, SetLen(PointTo(m, s, p.off + n), s, p.len - n), s)
      BY <1>0, <2>1, <2>2, SetLenThen
    <2>4. ~(n > p.len - pos)
      BY <1>0, <1>2
    <2>5. QED
      BY <1>2, <2>3, <2>4 DEF Erase
  <1>3. CASE ~(n > p.len - pos) /\ ~(n <= p.len - pos /\ pos = 0)
    <2>1. p.len - n \in Nat
      BY <1>0, <1>3
    <2>2. Alone(m, s) => Confined(m, SetLen(EraseInPlace(m, s, pos, n), s, p.len - n), s)
      BY <1>0, <2>1, EraseInPlaceConfined, SetLenThen
    <2>3. ~Alone(m, s) => Confined(m, SetLen(EraseElsewhere(m, s, pos, n), s, p.len - n), s)
      BY <1>0, <2>1, EraseElsewhereConfined, SetLenThen
    <2>4. QED
      BY <1>3, <2>2, <2>3 DEF Erase, Alone
  <1>4. QED
    BY <1>1, <1>2, <1>3

LEMMA ReplaceConfined ==
  ASSUME NEW m, NEW s, Able(m, s), m.str[s].state # "NONE", NEW pos \in Nat, NEW rem \in Nat,
         pos <= m.str[s].len, NEW src, src.len \in Nat
  PROVE  Confined(m, Replace(m, s, pos, rem, src), s)
  <1> DEFINE p == m.str[s]
  <1>0. s \in Objs /\ Confined(m, m, s) /\ p.len \in Nat /\ Balanced(m) /\ Shape(m) /\ Housed(m)
        /\ Assumptions /\ FreeBuffers(m) # {}
    BY AbleApt, FieldsTyped DEF Apt
  <1>1. CASE pos = p.len
    BY <1>1, AppendCharsConfined DEF Replace
  <1>2. CASE pos < p.len /\ rem >= p.len - pos
    <2>1. PICK c : c = SetLen(m, s, pos)
      OBVIOUS
    <2>2. Confined(m, c, s) /\ c.str[s].state = m.str[s].state
      BY <1>0, <2>1, SetLenConfined
    <2>3. Able(c, s)
      BY <1>0, <2>1, <2>2, LengthFirst DEF Able, Ready, Confined
    <2>4. Confined(c, AppendChars(c, s, src), s)
      BY <2>2, <2>3, AppendCharsConfined
    <2>5. Confined(m, AppendChars(c, s, src), s)
      BY <2>2, <2>4, ConfinedTwice
    <2>6. Replace(m, s, pos, rem, src) = AppendChars(c, s, src)
      BY <1>0, <1>2, <2>1 DEF Replace
    <2>7. QED
      BY <2>5, <2>6
  <1>3. CASE pos < p.len /\ rem < p.len - pos
    <2>1. PICK r : r = ReserveMiddle(m, s, pos, rem, src.len)
      OBVIOUS
    <2>2. rem <= p.len - pos
      BY <1>0, <1>3
    <2>3. Granted(m, r, s)
      BY <2>1, <2>2, ReserveMiddleGranted
    <2>4. \A w : Confined(m, Put(r, s, pos, w), s)
      BY <1>0, <2>3, PutGranted DEF Granted
    <2>5. Confined(m, Erase(m, s, pos, rem), s)
      BY EraseConfined
    <2>6. ~(pos = p.len) /\ ~(rem >= p.len - pos)
      BY <1>0, <1>3
    <2>7. Replace(m, s, pos, rem, src) = IF src.len = 0
            THEN IF rem = 0 THEN m ELSE Erase(m, s, pos, rem)
            ELSE Put(r, s, pos, Read(r, src))
      BY <1>3, <2>1, <2>6 DEF Replace
    <2>8. QED
      BY <1>0, <2>4, <2>5, <2>7
  <1>4. QED
    BY <1>0, <1>1, <1>2, <1>3

(***************************************************************************)
(* Construction and assignment.                                            *)
(***************************************************************************)
LEMMA FromLiteralConfined ==
  ASSUME NEW m, NEW s \in Objs, Assumptions, Balanced(m), Housed(m), m.str[s].state \notin Counted,
         NEW l \in Literals
  PROVE  Confined(m, FromLiteral(m, s, l), s)
  <1>0. Shape(m)
    BY DEF Balanced
  <1>1. PICK n : n = FromLiteral(m, s, l)
    OBVIOUS
  <1>2. Shape(n)
    BY <1>1, FromLiteralGood DEF Outcome, Balanced
  <1>3. PICK r : r = LiteralRec(l)
    OBVIOUS
  <1>4. Rewrites(m, n, s, r, {})
    BY <1>0, <1>1, <1>3 DEF FromLiteral, Rewrites, Shape, Housed
  <1>5. Placed(s, r)
    BY <1>3 DEF Placed, LiteralRec
  <1>6. QED
    BY <1>0, <1>1, <1>2, <1>4, <1>5, RewriteConfined

LEMMA NewExternalConfined ==
  ASSUME NEW m, NEW s \in Objs, Assumptions, Balanced(m), Housed(m), FreeBuffers(m) # {},
         m.str[s].state \notin Counted, NEW e \in Ext, ~m.held[e], NEW l \in Literals
  PROVE  Confined(m, NewExternal(m, s, e, l), s)
  <1>0. Shape(m)
    BY DEF Balanced
  <1>1. PICK n : n = NewExternal(m, s, e, l)
    OBVIOUS
  <1>2. Shape(n)
    BY <1>1, NewExternalGood DEF Outcome, Balanced
  <1>3. PICK x : x = AnyFree(m)
    OBVIOUS
  <1>4. {x, s} \cap Foreign(m, s) = {}
    BY <1>0, <1>3, AnyFreeIsFree, AllInUse, FreeNotForeign, OwnBytes
  <1>5. PICK r : r = ExternalRec(x, e, l)
    OBVIOUS
  <1>6. PICK w : w = Overlay(Junks(ExtSize), 0, LitText[l])
    OBVIOUS
  <1>7. n.str = [m.str EXCEPT ![s] = r] /\ n.mem = [[m.mem EXCEPT ![x] = w] EXCEPT ![s] = <<>>]
    BY <1>0, <1>1, <1>3, <1>5, <1>6 DEF NewExternal, Shape
  <1>8. Rewrites(m, n, s, r, {x, s})
    BY <1>7 DEF Rewrites, Housed
  <1>9. Placed(s, r)
    BY <1>5 DEF Placed, ExternalRec
  <1>10. QED
    BY <1>0, <1>1, <1>2, <1>4, <1>8, <1>9, RewriteConfined

LEMMA ReplaceExternalConfined ==
  ASSUME NEW m, NEW s \in Objs, Assumptions, Balanced(m), Housed(m),
         m.str[s].state = "EXTERNAL", Unique(m, s), NEW e \in Ext, ~m.held[e], NEW l \in Literals
  PROVE  Confined(m, ReplaceExternal(m, s, e, l), s)
  <1>0. Shape(m) /\ m.str[s].state \in Counted
    BY DEF Balanced, Counted
  <1>1. PICK n : n = ReplaceExternal(m, s, e, l)
    OBVIOUS
  <1>2. Shape(n)
    BY <1>1, ReplaceExternalGood DEF Outcome, Balanced
  <1>3. PICK x : x = m.str[s].blk
    OBVIOUS
  <1>4. {x} \cap Foreign(m, s) = {}
    BY <1>0, <1>3, UniqueOwn DEF Own
  <1>5. PICK r : r = ExternalRec(x, e, l)
    OBVIOUS
  <1>6. PICK w : w = Overlay(Junks(ExtSize), 0, LitText[l])
    OBVIOUS
  <1>7. n.str = [m.str EXCEPT ![s] = r] /\ n.mem = [m.mem EXCEPT ![x] = w]
    BY <1>0, <1>1, <1>3, <1>5, <1>6 DEF ReplaceExternal, CallDtor, Shape
  <1>8. Rewrites(m, n, s, r, {x})
    BY <1>7 DEF Rewrites, Housed
  <1>9. Placed(s, r)
    BY <1>5 DEF Placed, ExternalRec
  <1>10. QED
    BY <1>0, <1>1, <1>2, <1>4, <1>8, <1>9, RewriteConfined

LEMMA RebasedPlaced ==
  ASSUME NEW m, NEW s \in Objs, NEW t \in Objs, Shape(m), Housed(m)
  PROVE  Placed(s, Rebased(m, s, t))
  BY DEF Placed, Rebased, Housed, Shape, StrRec

LEMMA CowConfined ==
  ASSUME NEW m, NEW s \in Objs, NEW t \in Objs, s # t, Assumptions, Balanced(m), Housed(m),
         m.str[s].state \notin Counted, NEW off \in Nat, NEW len \in Nat
  PROVE  Confined(m, Cow(m, s, t, off, len), s)
  <1>0. Shape(m)
    BY DEF Balanced
  <1>1. PICK n : n = Cow(m, s, t, off, len)
    OBVIOUS
  <1>2. Shape(n)
    BY <1>1, CowGood DEF Outcome, Balanced
  <1>3. PICK p : p = Rebased(m, s, t)
    OBVIOUS
  <1>4. PICK r : r = [p EXCEPT !.off = @ + off, !.len = len]
    OBVIOUS
  <1>5. p \in StrRec /\ Placed(s, p)
    BY <1>0, <1>3, RebasedTyped, RebasedPlaced
  <1>6. Placed(s, r)
    BY <1>4, <1>5 DEF Placed, StrRec
  <1>7. n.str = [m.str EXCEPT ![s] = r] /\ n.mem = [m.mem EXCEPT ![s] = m.mem[t]]
    BY <1>0, <1>1, <1>3, <1>4 DEF Cow, Shape
  <1>8. Rewrites(m, n, s, r, {s})
    BY <1>7 DEF Rewrites, Housed
  <1>9. {s} \cap Foreign(m, s) = {}
    BY OwnBytes
  <1>10. QED
    BY <1>0, <1>1, <1>2, <1>6, <1>8, <1>9, RewriteConfined

(***************************************************************************)
(* Calls that take more than one object: what the objects outside S read   *)
(* is left alone.                                                          *)
(***************************************************************************)
Untouched(m, n, S) ==
  /\ Housed(n)
  /\ \A l \in Literals : n.mem[l] = m.mem[l]
  /\ \A t \in Objs \ S : /\ n.str[t] = m.str[t]
                         /\ m.str[t].state # "NONE" => n.mem[m.str[t].blk] = m.mem[m.str[t].blk]

(* An object reads a literal, its own bytes or a buffer it holds.          *)
LEMMA ReadsOwn ==
  ASSUME NEW m, Shape(m), Housed(m), NEW t \in Objs, m.str[t].state # "NONE"
  PROVE  \/ m.str[t].blk \in Literals
         \/ m.str[t].blk = t
         \/ m.str[t].blk \in Buffers /\ t \in Holders(m, m.str[t].blk)
  <1>1. m.str[t].state \in States
    BY DEF Shape, StrRec
  <1>2. QED
    BY <1>1 DEF Shape, Housed, States, Counted, Holders

LEMMA ConfinedUntouched ==
  ASSUME NEW m, NEW n, NEW s, Shape(m), Housed(m), Confined(m, n, s), NEW S, s \in S
  PROVE  Untouched(m, n, S)
  <1>1. \A t \in Objs \ {s} : m.str[t].state # "NONE" => m.str[t].blk \in Foreign(m, s)
    BY ReadsOwn DEF Foreign
  <1>2. \A l \in Literals : l \in Foreign(m, s)
    BY DEF Foreign
  <1>3. QED
    BY <1>1, <1>2 DEF Confined, Untouched

LEMMA UntouchedTwice ==
  ASSUME NEW m, NEW n, NEW r, NEW S, Untouched(m, n, S), Untouched(n, r, S)
  PROVE  Untouched(m, r, S)
  BY DEF Untouched

(* What s and t have changes, in their records and their bytes.            *)
BothRewritten(m, n, s, t, p, q, v, w) ==
  /\ n.str = [[m.str EXCEPT ![s] = p] EXCEPT ![t] = q]
  /\ n.mem = [[m.mem EXCEPT ![s] = v] EXCEPT ![t] = w]

LEMMA TwoTouched ==
  ASSUME NEW m, NEW n, NEW s \in Objs, NEW t \in Objs, s # t, Assumptions, Shape(m), Housed(m),
         NEW p, NEW q, Placed(s, p), Placed(t, q), NEW v, NEW w,
         BothRewritten(m, n, s, t, p, q, v, w), NEW S, s \in S, t \in S
  PROVE  Untouched(m, n, S)
  <1>1. n.str[s] = p /\ n.str[t] = q /\ \A u \in Objs \ {s, t} : n.str[u] = m.str[u]
    BY DEF Shape, BothRewritten
  <1>2. DOMAIN n.mem = Blocks /\ \A k \in Blocks \ {s, t} : n.mem[k] = m.mem[k]
    BY DEF Housed, BothRewritten
  <1>3. Housed(n)
    BY <1>1, <1>2 DEF Housed, Placed
  <1>4. \A l \in Literals : l \in Blocks \ {s, t}
    BY DEF Blocks, Assumptions
  <1>5. \A u \in Objs \ S : m.str[u].state # "NONE" => m.str[u].blk \in Blocks \ {s, t}
    <2> TAKE u \in Objs \ S
    <2> HAVE m.str[u].state # "NONE"
    <2>1. \/ m.str[u].blk \in Literals
          \/ m.str[u].blk = u
          \/ m.str[u].blk \in Buffers
      BY ReadsOwn
    <2>2. QED
      BY <2>1 DEF Blocks, Assumptions
  <1>6. QED
    BY <1>1, <1>2, <1>3, <1>4, <1>5 DEF Untouched

LEMMA MoveUntouched ==
  ASSUME NEW m, NEW s \in Objs, NEW t \in Objs, s # t, Assumptions, Shape(m), Housed(m)
  PROVE  Untouched(m, MoveFrom(m, s, t), {s, t, Tmp})
  <1>1. PICK n : n = MoveFrom(m, s, t)
    OBVIOUS
  <1>2. PICK p : p = Rebased(m, s, t)
    OBVIOUS
  <1>3. PICK q : q = LiteralRec(Terminal)
    OBVIOUS
  <1>4. BothRewritten(m, n, s, t, p, q, m.mem[t], <<>>)
    BY <1>1, <1>2, <1>3 DEF MoveFrom, Shape, BothRewritten
  <1>5. Placed(s, p) /\ Placed(t, q)
    BY <1>2, <1>3, RebasedPlaced DEF Placed, LiteralRec, Assumptions
  <1>6. QED
    BY <1>1, <1>4, <1>5, TwoTouched

LEMMA SwapUntouched ==
  ASSUME NEW m, NEW s \in Objs, NEW t \in Objs, s # t, Assumptions, Shape(m), Housed(m)
  PROVE  Untouched(m, SwapStorage(m, s, t), {s, t, Tmp})
  <1>1. PICK n : n = SwapStorage(m, s, t)
    OBVIOUS
  <1>2. PICK p : p = Rebased(m, s, t)
    OBVIOUS
  <1>3. PICK q : q = Rebased(m, t, s)
    OBVIOUS
  <1>4. BothRewritten(m, n, s, t, p, q, m.mem[t], m.mem[s])
    BY <1>1, <1>2, <1>3 DEF SwapStorage, Shape, BothRewritten
  <1>5. Placed(s, p) /\ Placed(t, q)
    BY <1>2, <1>3, RebasedPlaced
  <1>6. QED
    BY <1>1, <1>4, <1>5, TwoTouched

(* insert and replace, with the copy of itself a string takes as Tmp.      *)
LEMMA ReplaceStringUntouched ==
  ASSUME NEW m, NEW s \in Strings, Able(m, s), m.str[s].state # "NONE",
         m.str[Tmp].state = "NONE", NEW t \in Strings,
         NEW pos \in Nat, NEW rem \in Nat, NEW pos2 \in Nat, NEW n2 \in Nat,
         pos <= m.str[s].len, pos2 <= m.str[t].len
  PROVE  Untouched(m, ReplaceString(m, s, pos, rem, t, pos2, n2), {s, Tmp})
  <1>0. /\ s \in Objs /\ t \in Objs /\ Tmp \in Objs /\ Tmp # s /\ Tmp # t
        /\ Shape(m) /\ Housed(m) /\ Balanced(m) /\ Assumptions /\ FreeBuffers(m) # {}
        /\ m.str[s].len \in Nat
    BY AbleApt, FieldsTyped DEF Objs, Assumptions, Apt
  <1>1. CASE s # t
    <2>1. PICK src : src = Slice(m.str[t], pos2, n2)
      OBVIOUS
    <2>2. src.len \in Nat
      BY <1>0, <2>1, FieldsTyped, SliceTyped
    <2>3. Confined(m, Replace(m, s, pos, rem, src), s)
      BY <2>2, ReplaceConfined
    <2>4. ReplaceString(m, s, pos, rem, t, pos2, n2) = Replace(m, s, pos, rem, src)
      BY <1>1, <2>1 DEF ReplaceString
    <2>5. QED
      BY <1>0, <2>3, <2>4, ConfinedUntouched
  <1>2. CASE s = t
    <2>1. PICK c : c = Cow(m, Tmp, s, 0, m.str[s].len)
      OBVIOUS
    <2>2. Outcome(m, c, Tmp) /\ c.str[s] = m.str[s] /\ c.str[Tmp].len = m.str[s].len
          /\ FreeBuffers(m) \subseteq FreeBuffers(c)
      BY <1>0, <2>1, CowGood DEF Counted
    <2>3. Confined(m, c, Tmp)
      BY <1>0, <2>1, CowConfined DEF Counted
    <2>4. Able(c, s)
      BY <1>0, <2>2, <2>3 DEF Able, Ready, Outcome, Confined
    <2>5. PICK src : src = Slice(c.str[Tmp], pos2, n2)
      OBVIOUS
    <2>6. src.len \in Nat
      BY <1>0, <1>2, <2>2, <2>5, SliceTyped
    <2>7. PICK r : r = Replace(c, s, pos, rem, src)
      OBVIOUS
    <2>8. Confined(c, r, s)
      BY <2>2, <2>4, <2>6, <2>7, ReplaceConfined
    <2>9. Balanced(r)
      BY <2>2, <2>4, <2>6, <2>7, ReplaceGood DEF Able, Outcome
    <2>10. PICK z : z = Release(r, Tmp)
      OBVIOUS
    <2>11. Confined(r, z, Tmp)
      BY <1>0, <2>8, <2>9, <2>10, ReleaseConfined DEF Confined
    <2>12. Untouched(m, c, {s, Tmp})
      BY <1>0, <2>3, ConfinedUntouched
    <2>13. Untouched(c, r, {s, Tmp})
      BY <2>3, <2>8, ConfinedUntouched DEF Confined
    <2>14. Untouched(r, z, {s, Tmp})
      BY <2>8, <2>11, ConfinedUntouched DEF Confined
    <2>15. Untouched(m, z, {s, Tmp})
      BY <2>12, <2>13, <2>14, UntouchedTwice
    <2>16. z = ReplaceString(m, s, pos, rem, t, pos2, n2)
      BY <1>2, <2>1, <2>5, <2>7, <2>10 DEF ReplaceString
    <2>17. QED
      BY <2>15, <2>16
  <1>3. QED
    BY <1>1, <1>2

(***************************************************************************)
(* The actions.                                                            *)
(***************************************************************************)
(* Between calls.                                                          *)
Apartness == IInv /\ Housed(Memory) /\ LiteralsIntact

(* The memory that becomes the state leaves the objects outside S alone.    *)
Leads(S) == \E n : Becomes(n) /\ Untouched(Memory, n, S)

LEMMA There ==
  ASSUME Assumptions, Apartness, NEW s \in Strings
  PROVE  /\ s \in Objs /\ Memory.str = str /\ Memory.held = held
         /\ Shape(Memory) /\ Housed(Memory) /\ Balanced(Memory)
         /\ str[s].len \in Nat /\ str[s].off \in Nat
         /\ Confined(Memory, Memory, s)
         /\ HeapHasRoom => Able(Memory, s) /\ Apt(Memory, s)
  <1>1. s \in Objs /\ Memory.str = str /\ Memory.held = held
        /\ Balanced(Memory) /\ Shape(Memory) /\ Housed(Memory)
    BY Here DEF Apartness, Balanced
  <1>2. HeapHasRoom => Able(Memory, s) /\ Apt(Memory, s)
    BY <1>1, Here, AbleApt DEF Able, Apartness
  <1>3. QED
    BY <1>1, <1>2, Here, ConfinedSelf DEF Apartness

LEMMA ConfinedLeads ==
  ASSUME Assumptions, Apartness, NEW s \in Strings, NEW n, Confined(Memory, n, s), Becomes(n)
  PROVE  Leads({s, Tmp})
  <1>1. Untouched(Memory, n, {s, Tmp})
    BY There, ConfinedUntouched
  <1>2. QED
    BY <1>1 DEF Leads

LEMMA SpansTyped ==
  ASSUME Assumptions
  PROVE  /\ \A c \in Spans : c[1] \in Nat /\ c[2] \in Nat
         /\ \A l \in Literals : Len(LitText[l]) \in Nat /\ Text(l).len \in Nat
  BY LiteralRecTyped DEF Assumptions, Text

LEMMA DestructLeads ==
  ASSUME Assumptions, Apartness, NEW s \in Strings, Destruct(s)
  PROVE  Leads({s, Tmp})
  <1>1. PICK n : n = Release(Memory, s)
    OBVIOUS
  <1>2. Confined(Memory, n, s)
    BY <1>1, There, ReleaseConfined
  <1>3. QED
    BY <1>1, <1>2, ConfinedLeads DEF Destruct

(* The constructors that take no storage of another object away.           *)
LEMMA ConstructsLeads ==
  ASSUME Assumptions, Apartness, HeapHasRoom, NEW s \in Strings
  PROVE  /\ \A l \in Literals : NewLiteral(s, l) \/ NewChars(s, l) => Leads({s, Tmp})
         /\ \A e \in Ext, l \in Literals : AdoptNew(s, e, l) => Leads({s, Tmp})
         /\ \A t \in Strings, c \in Spans : NewCopy(s, t, c[1], c[2]) => Leads({s, Tmp})
  <1>1. /\ s \in Objs /\ Apt(Memory, s) /\ Balanced(Memory) /\ Housed(Memory) /\ Memory.str = str
        /\ Memory.held = held /\ FreeBuffers(Memory) # {}
    BY There DEF Apt
  <1>2. ASSUME NEW l \in Literals, NewLiteral(s, l)
        PROVE  Leads({s, Tmp})
    <2>1. Confined(Memory, FromLiteral(Memory, s, l), s)
      BY <1>1, <1>2, GoneUncounted, FromLiteralConfined DEF NewLiteral
    <2>2. QED
      BY <1>2, <2>1, ConfinedLeads DEF NewLiteral
  <1>3. ASSUME NEW l \in Literals, NewChars(s, l)
        PROVE  Leads({s, Tmp})
    <2>1. PICK m1 : m1 = NewAuto(Memory, s, Len(LitText[l]))
      OBVIOUS
    <2>2. PICK m2 : m2 = SetLen(m1, s, Len(LitText[l]))
      OBVIOUS
    <2>3. Granted(Memory, m1, s)
      BY <1>1, <2>1, NewStorageGranted
    <2>4. Granted(Memory, m2, s)
      BY <1>1, <2>2, <2>3, SpansTyped, SetLenGranted
    <2>5. Confined(Memory, Put(m2, s, 0, LitText[l]), s)
      BY <1>1, <2>4, PutGranted DEF Granted
    <2>6. QED
      BY <1>3, <2>1, <2>2, <2>5, ConfinedLeads DEF NewChars
  <1>4. ASSUME NEW e \in Ext, NEW l \in Literals, AdoptNew(s, e, l)
        PROVE  Leads({s, Tmp})
    <2>1. Confined(Memory, NewExternal(Memory, s, e, l), s)
      BY <1>1, <1>4, GoneUncounted, NewExternalConfined DEF AdoptNew
    <2>2. QED
      BY <1>4, <2>1, ConfinedLeads DEF AdoptNew
  <1>5. ASSUME NEW t \in Strings, NEW pos \in Nat, NEW c \in Nat, NewCopy(s, t, pos, c)
        PROVE  Leads({s, Tmp})
    <2>1. t \in Objs /\ s # t /\ Slice(str[t], pos, c).len \in Nat
      BY <1>5, Here, SliceTyped DEF NewCopy, Apartness
    <2>2. Confined(Memory, CowOffset(Memory, s, t, pos, c), s)
      BY <1>1, <1>5, <2>1, GoneUncounted, CowConfined DEF NewCopy, CowOffset
    <2>3. QED
      BY <1>5, <2>2, ConfinedLeads DEF NewCopy
  <1>6. QED
    BY <1>2, <1>3, <1>4, <1>5, SpansTyped

LEMMA AssignsLeads ==
  ASSUME Assumptions, Apartness, HeapHasRoom, NEW s \in Strings
  PROVE  /\ \A l \in Literals : SetLiteral(s, l) \/ SetChars(s, l) => Leads({s, Tmp})
         /\ \A e \in Ext, l \in Literals : Adopt(s, e, l) => Leads({s, Tmp})
         /\ \A t \in Strings, c \in Spans : Copy(s, t, c[1], c[2]) => Leads({s, Tmp})
  <1>1. /\ s \in Objs /\ Able(Memory, s) /\ Balanced(Memory) /\ Housed(Memory) /\ Memory.str = str
        /\ Memory.held = held /\ Confined(Memory, Memory, s)
    BY There
  <1>2. PICK m : m = Release(Memory, s)
    OBVIOUS
  <1>3. /\ Balanced(m) /\ FreeBuffers(m) # {}
        /\ m.str[s].state \notin Counted
        /\ \A t \in Objs \ {s} : m.str[t] = str[t]
        /\ NoneTaken(Memory, m)
    BY <1>2, Released DEF Apartness
  <1>4. Confined(Memory, m, s) /\ Housed(m)
    BY <1>1, <1>2, ReleaseConfined
  <1>5. ASSUME NEW l \in Literals, SetLiteral(s, l)
        PROVE  Leads({s, Tmp})
    <2>1. PICK n : n = FromLiteral(m, s, l)
      OBVIOUS
    <2>2. Confined(m, n, s)
      BY <1>1, <1>3, <1>4, <2>1, FromLiteralConfined
    <2>3. Confined(Memory, n, s)
      BY <1>4, <2>2, ConfinedTwice
    <2>4. QED
      BY <1>2, <1>5, <2>1, <2>3, ConfinedLeads DEF SetLiteral
  <1>6. ASSUME NEW l \in Literals, SetChars(s, l)
        PROVE  Leads({s, Tmp})
    <2>1. PICK m1 : m1 = ReserveDrop(Memory, s, Len(LitText[l]))
      OBVIOUS
    <2>2. Granted(Memory, m1, s)
      BY <1>1, <2>1, ReserveDropGranted
    <2>3. Confined(Memory, AssignChars(Memory, s, l), s)
      BY <1>1, <2>1, <2>2, PutSetLen, SpansTyped DEF AssignChars
    <2>4. QED
      BY <1>6, <2>3, ConfinedLeads DEF SetChars
  <1>7. ASSUME NEW e \in Ext, NEW l \in Literals, Adopt(s, e, l)
        PROVE  Leads({s, Tmp})
    <2>0. ~Memory.held[e] /\ ~m.held[e]
      BY <1>1, <1>3, <1>7 DEF Adopt, NoneTaken
    <2>1. PICK n : n = NewExternal(m, s, e, l)
      OBVIOUS
    <2>2. Confined(m, n, s)
      BY <1>1, <1>3, <1>4, <2>0, <2>1, NewExternalConfined
    <2>3. Confined(Memory, n, s)
      BY <1>4, <2>2, ConfinedTwice
    <2>4. str[s].state = "EXTERNAL" /\ Unique(Memory, s) =>
            Confined(Memory, ReplaceExternal(Memory, s, e, l), s)
      BY <1>1, <2>0, ReplaceExternalConfined
    <2>5. Confined(Memory, AssignExternal(Memory, s, e, l), s)
      BY <1>1, <1>2, <2>1, <2>3, <2>4 DEF AssignExternal
    <2>6. QED
      BY <1>7, <2>5, ConfinedLeads DEF Adopt
  <1>8. ASSUME NEW t \in Strings, NEW pos \in Nat, NEW c \in Nat, Copy(s, t, pos, c)
        PROVE  Leads({s, Tmp})
    <2>1. t \in Objs /\ Slice(str[t], pos, c).len \in Nat /\ str[s].off + pos \in Nat
      BY <1>8, Here, SliceTyped DEF Copy, Apartness
    <2>2. CASE s = t
      <3>1. Confined(Memory, PointTo(Memory, s, str[s].off + pos), s)
        BY <1>1, <2>1, PointToThen
      <3>2. Confined(Memory, AssignSub(Memory, s, t, pos, c), s)
        BY <1>1, <2>1, <2>2, <3>1, SetLenThen DEF AssignSub
      <3>3. QED
        BY <1>8, <3>2, ConfinedLeads DEF Copy
    <2>3. CASE s # t
      <3>1. PICK n : n = CowOffset(m, s, t, pos, c)
        OBVIOUS
      <3>2. m.str[t] = str[t]
        BY <1>3, <2>1, <2>3
      <3>3. Confined(m, n, s)
        BY <1>1, <1>3, <1>4, <2>1, <2>3, <3>1, <3>2, CowConfined DEF CowOffset
      <3>4. Confined(Memory, n, s)
        BY <1>4, <3>3, ConfinedTwice
      <3>5. QED
        BY <1>2, <1>8, <2>3, <3>1, <3>4, ConfinedLeads DEF Copy, AssignSub
    <2>4. QED
      BY <2>2, <2>3
  <1>9. QED
    BY <1>5, <1>6, <1>7, <1>8, SpansTyped

(* Moves and exchanges.                                                    *)
LEMMA PairLeads ==
  ASSUME Assumptions, Apartness, HeapHasRoom, NEW s \in Strings, NEW t \in Strings,
         NewMoved(s, t) \/ Move(s, t) \/ Exchange(s, t)
  PROVE  Leads({s, t, Tmp})
  <1>1. s \in Objs /\ t \in Objs /\ s # t /\ Shape(Memory) /\ Balanced(Memory) /\ Housed(Memory)
    BY There DEF NewMoved, Move, Exchange
  <1>2. CASE NewMoved(s, t)
    <2>1. Untouched(Memory, MoveFrom(Memory, s, t), {s, t, Tmp})
      BY <1>1, MoveUntouched
    <2>2. QED
      BY <1>2, <2>1 DEF NewMoved, Leads
  <1>3. CASE Move(s, t)
    <2>1. PICK m : m = Release(Memory, s)
      OBVIOUS
    <2>2. Confined(Memory, m, s)
      BY <1>1, <2>1, ReleaseConfined
    <2>3. Shape(m) /\ Housed(m) /\ Untouched(Memory, m, {s, t, Tmp})
      BY <1>1, <2>2, ConfinedUntouched DEF Confined
    <2>4. PICK n : n = MoveFrom(m, s, t)
      OBVIOUS
    <2>5. Untouched(m, n, {s, t, Tmp})
      BY <1>1, <2>3, <2>4, MoveUntouched
    <2>6. Untouched(Memory, n, {s, t, Tmp})
      BY <2>3, <2>5, UntouchedTwice
    <2>7. QED
      BY <1>3, <2>1, <2>4, <2>6 DEF Move, Leads
  <1>4. CASE Exchange(s, t)
    <2>1. Untouched(Memory, SwapStorage(Memory, s, t), {s, t, Tmp})
      BY <1>1, SwapUntouched
    <2>2. QED
      BY <1>4, <2>1 DEF Exchange, Leads
  <1>5. QED
    BY <1>2, <1>3, <1>4

LEMMA EditsLeads ==
  ASSUME Assumptions, Apartness, HeapHasRoom, NEW s \in Strings, Edits(s)
  PROVE  Leads({s, Tmp})
  <1>1. s \in Objs /\ Able(Memory, s) /\ Memory.str = str
        /\ str[s].len \in Nat /\ Confined(Memory, Memory, s)
    BY There
  <1>2. ASSUME NEW l \in Literals, AppendText(s, l)
        PROVE  Leads({s, Tmp})
    <2>1. Confined(Memory, AppendChars(Memory, s, Text(l)), s)
      BY <1>1, <1>2, SpansTyped, AppendCharsConfined DEF AppendText, Alive
    <2>2. QED
      BY <1>2, <2>1, ConfinedLeads DEF AppendText
  <1>3. ASSUME NEW l \in Literals, Resize(s, l)
        PROVE  Leads({s, Tmp})
    <2>1. PICK len : len = str[s].len + Len(LitText[l])
      OBVIOUS
    <2>2. len \in Nat
      BY <1>1, <2>1, SpansTyped
    <2>3. PICK m1 : m1 = ReserveSave(Memory, s, len, "exact")
      OBVIOUS
    <2>4. Granted(Memory, m1, s)
      BY <1>1, <1>3, <2>3, ReserveSaveGranted DEF Resize, Alive
    <2>5. Confined(Memory, SetLen(Put(m1, s, str[s].len, LitText[l]), s, len), s)
      BY <1>1, <2>2, <2>4, PutSetLen
    <2>6. Confined(Memory, ResizeUp(Memory, s, l), s)
      BY <1>1, <2>1, <2>3, <2>5 DEF ResizeUp
    <2>7. QED
      BY <1>3, <2>6, ConfinedLeads DEF Resize
  <1>4. ASSUME NEW t \in Strings, NEW pos \in Nat, NEW n \in Nat, AppendOther(s, t, pos, n)
        PROVE  Leads({s, Tmp})
    <2>1. Confined(Memory, AppendString(Memory, s, t, pos, n), s)
      BY <1>1, <1>4, There, AppendStringConfined DEF AppendOther, Alive
    <2>2. QED
      BY <1>4, <2>1, ConfinedLeads DEF AppendOther
  <1>5. ASSUME NEW pos \in Nat, NEW n \in Nat, EraseAt(s, pos, n)
        PROVE  Leads({s, Tmp})
    <2>1. Confined(Memory, Erase(Memory, s, pos, n), s)
      BY <1>1, <1>5, EraseConfined DEF EraseAt
    <2>2. QED
      BY <1>5, <2>1, ConfinedLeads DEF EraseAt
  <1>6. ASSUME NEW pos \in Nat, NEW n \in Nat, NEW l \in Literals, ReplaceText(s, pos, n, l)
        PROVE  Leads({s, Tmp})
    <2>1. Confined(Memory, Replace(Memory, s, pos, n, Text(l)), s)
      BY <1>1, <1>6, SpansTyped, ReplaceConfined DEF ReplaceText, Alive
    <2>2. QED
      BY <1>6, <2>1, ConfinedLeads DEF ReplaceText
  <1>7. ASSUME NEW pos \in Nat, NEW n \in Nat, NEW t \in Strings, NEW pos2 \in Nat, NEW n2 \in Nat,
               ReplaceOther(s, pos, n, t, pos2, n2)
        PROVE  Leads({s, Tmp})
    <2>1. str[s].state # "NONE" /\ str[Tmp].state = "NONE"
      BY <1>1, <1>7 DEF ReplaceOther, Alive, Apartness, IInv, Owned
    <2>2. Untouched(Memory, ReplaceString(Memory, s, pos, n, t, pos2, n2), {s, Tmp})
      BY <1>1, <1>7, <2>1, ReplaceStringUntouched DEF ReplaceOther
    <2>3. QED
      BY <1>7, <2>2 DEF ReplaceOther, Leads
  <1>8. ASSUME NEW n \in Nat, Truncate(s, n)
        PROVE  Leads({s, Tmp})
    <2>1. Confined(Memory, SetLen(Memory, s, n), s)
      BY <1>1, SetLenThen
    <2>2. QED
      BY <1>8, <2>1, ConfinedLeads DEF Truncate
  <1>9. ASSUME NEW i, NEW l, WriteChar(s, i, l)
        PROVE  Leads({s, Tmp})
    <2>1. PICK d : d = Detach(Memory, s)
      OBVIOUS
    <2>2. Granted(Memory, d, s)
      BY <1>1, <1>9, <2>1, DetachGranted DEF WriteChar, Alive
    <2>3. Confined(Memory, Put(d, s, i, LitText[l]), s)
      BY <1>1, <2>2, PutGranted DEF Granted
    <2>4. QED
      BY <1>9, <2>1, <2>3, ConfinedLeads DEF WriteChar
  <1>10. \A n \in 0..MaxLen : n \in Nat
    BY DEF Assumptions
  <1>11. QED
    BY <1>2, <1>3, <1>4, <1>5, <1>6, <1>7, <1>8, <1>9, <1>10, SpansTyped DEF Edits

LEMMA StoresLeads ==
  ASSUME Assumptions, Apartness, HeapHasRoom, NEW s \in Strings, Stores(s)
  PROVE  Leads({s, Tmp})
  <1>1. Able(Memory, s) /\ Memory.str = str
    BY There
  <1>2. ASSUME NEW cap, Reserve(s, cap)
        PROVE  Leads({s, Tmp})
    <2>1. Confined(Memory, ReserveSave(Memory, s, cap, "exact"), s)
      BY <1>1, <1>2, ReserveSaveGranted DEF Reserve, Alive, Granted
    <2>2. QED
      BY <1>2, <2>1, ConfinedLeads DEF Reserve
  <1>3. CASE Shrink(s)
    BY <1>1, <1>3, ShrinkConfined, ConfinedLeads DEF Shrink
  <1>4. CASE CallCStr(s)
    BY <1>1, <1>4, CStrConfined, ConfinedLeads DEF CallCStr, Alive
  <1>5. CASE Buf(s) \/ SharedBuf(s)
    <2>1. Alive(s) => Confined(Memory, Detach(Memory, s), s) /\ Confined(Memory, SharedDetach(Memory, s), s)
      BY <1>1, DetachGranted DEF Granted, Alive
    <2>2. QED
      BY <1>5, <2>1, ConfinedLeads DEF Buf, SharedBuf
  <1>6. QED
    BY <1>2, <1>3, <1>4, <1>5 DEF Stores

(***************************************************************************)
(* What the calls keep.                                                    *)
(***************************************************************************)
(* The strings outside S are where they were and read as they did.         *)
Apart(S) ==
  \A t \in Strings \ S : str'[t] = str[t] /\ (Alive(t) => View(t)' = View(t))

LEMMA LeadsKeeps ==
  ASSUME Assumptions, Apartness, NEW S, Leads(S)
  PROVE  /\ Housed(Memory)' /\ LiteralsIntact'
         /\ Apart(S)
  <1>1. PICK n : Becomes(n) /\ Untouched(Memory, n, S)
    BY DEF Leads
  <1>2. PICK M : M = Memory'
    OBVIOUS
  <1>3. M.str = n.str /\ M.mem = Settled(n) /\ str' = n.str /\ mem' = Settled(n)
    BY <1>1, <1>2 DEF Becomes, Memory
  <1>4. /\ DOMAIN M.mem = Blocks
        /\ \A l \in Literals : M.mem[l] = n.mem[l]
    BY <1>3 DEF Settled, Blocks
  <1>5. Housed(M)
    BY <1>1, <1>3, <1>4 DEF Untouched, Housed
  <1>6. Housed(Memory)'
    BY <1>2, <1>5 DEF Housed, Blocks
  <1>7. LiteralsIntact'
    BY <1>1, <1>3, <1>4 DEF Untouched, LiteralsIntact, Apartness, Memory
  <1>8. ASSUME NEW t \in Strings \ S
        PROVE  str'[t] = str[t]
    BY <1>1, <1>3 DEF Untouched, Memory, Objs
  <1>9. ASSUME NEW t \in Strings \ S, Alive(t)
        PROVE  View(t)' = View(t)
    <2>1. PICK p : p = str[t]
      OBVIOUS
    <2>2. n.str[t] = p /\ p.state # "NONE" /\ n.mem[p.blk] = mem[p.blk] /\ Memory.mem = mem
          /\ p.off \in Nat /\ p.len \in Nat /\ t \in Strings
      BY <1>1, <1>9, <2>1, There DEF Untouched, Memory, Objs, Alive
    <2>3. p.blk \in Blocks
      BY <2>1, <2>2, There DEF Shape, StrRec, Blocks
    <2>4. ASSUME NEW i \in 1..p.len
          PROVE  Cell(M, p.blk, p.off + i) = Cell(Memory, p.blk, p.off + i)
      <3>1. Covered(n, p.blk, p.off + i)
        BY <2>2, <2>4 DEF Covered
      <3>2. CASE p.blk \in Literals
        BY <1>4, <2>2, <3>2 DEF Cell
      <3>3. CASE p.blk \notin Literals
        <4>1. M.mem[p.blk] = [j \in DOMAIN n.mem[p.blk] |->
                               IF Covered(n, p.blk, j) THEN n.mem[p.blk][j] ELSE Junk]
          BY <1>3, <2>3, <3>3 DEF Settled, Blocks
        <4>2. QED
          BY <2>2, <3>1, <4>1 DEF Cell
      <3>4. QED
        BY <3>2, <3>3
    <2>5. Read(M, p) = Read(Memory, p)
      BY <2>4 DEF Read
    <2>6. View(t)' = Read(M, p)
      BY <1>2, <1>3, <2>2 DEF View, Read, Cell
    <2>7. QED
      BY <2>1, <2>5, <2>6 DEF View
  <1>10. QED
    BY <1>6, <1>7, <1>8, <1>9 DEF Apart

LEMMA InitApartness == ASSUME Assumptions, Init PROVE Apartness
  <1>1. Housed(Memory)
    BY VoidRec DEF Init, Housed, Memory, Void, Blocks
  <1>2. LiteralsIntact
    BY DEF Init, LiteralsIntact
  <1>3. QED
    BY <1>1, <1>2, InitIInv DEF Apartness

LEMMA NextLeads ==
  ASSUME Assumptions, Apartness, Next
  PROVE  \E S : Leads(S)
  <1>1. PICK s \in Strings : \/ Destruct(s)
                             \/ HeapHasRoom /\ (Constructs(s) \/ Assigns(s) \/ Edits(s) \/ Stores(s))
    BY DEF Next
  <1>2. CASE Destruct(s)
    BY <1>2, DestructLeads
  <1>3. CASE HeapHasRoom /\ Constructs(s)
    BY <1>3, ConstructsLeads, PairLeads DEF Constructs
  <1>4. CASE HeapHasRoom /\ Assigns(s)
    BY <1>4, AssignsLeads, PairLeads DEF Assigns
  <1>5. CASE HeapHasRoom /\ (Edits(s) \/ Stores(s))
    BY <1>5, EditsLeads, StoresLeads
  <1>6. QED
    BY <1>1, <1>2, <1>3, <1>4, <1>5

LEMMA NextApartness == ASSUME Assumptions, Apartness, [Next]_vars PROVE Apartness'
  <1>1. IInv'
    BY NextIInv DEF Apartness
  <1>2. CASE Next
    <2>1. PICK S : Leads(S)
      BY <1>2, NextLeads
    <2>2. QED
      BY <1>1, <2>1, LeadsKeeps DEF Apartness
  <1>3. CASE UNCHANGED vars
    <2>1. Memory' = Memory
      BY <1>3 DEF vars, Memory
    <2>2. QED
      BY <1>1, <1>3, <2>1 DEF vars, Apartness, Housed, LiteralsIntact, Blocks
  <1>4. QED
    BY <1>2, <1>3

(* Between calls every string reads a literal, its own bytes or a buffer,   *)
(* and the literals are what they were.                                    *)
THEOREM ApartAlways == Spec => []Apartness
  <1>1. Init => Apartness
    BY CowStringAssumption, InitApartness
  <1>2. Apartness /\ [Next]_vars => Apartness'
    BY CowStringAssumption, NextApartness
  <1>3. QED
    BY <1>1, <1>2, PTL DEF Spec

(* No sequence of calls writes to a literal, though strings over literals   *)
(* are passed to every operation that writes.                              *)
THEOREM LiteralsKept == Spec => []LiteralsIntact
  <1>1. Apartness => LiteralsIntact
    BY DEF Apartness
  <1>2. QED
    BY <1>1, ApartAlways, PTL

(* Copy on write: a call on s changes no other string, not where it points  *)
(* and not what it reads, whoever shares a buffer with whom.  A move or an  *)
(* exchange changes the two it names.                                      *)
Isolated ==
  \A s \in Strings :
    /\ Destruct(s) => Apart({s})
    /\ HeapHasRoom /\ (Edits(s) \/ Stores(s)) => Apart({s})
    /\ HeapHasRoom /\ (Constructs(s) \/ Assigns(s)) =>
         \/ Apart({s})
         \/ \E t \in Strings : (NewMoved(s, t) \/ Move(s, t) \/ Exchange(s, t)) /\ Apart({s, t})

LEMMA ApartTmp ==
  ASSUME Assumptions, NEW s, NEW t
  PROVE  (Apart({s, Tmp}) => Apart({s})) /\ (Apart({s, t, Tmp}) => Apart({s, t}))
  BY DEF Apart, Assumptions

LEMMA NextIsolated == ASSUME Assumptions, Apartness PROVE Isolated
  <1>1. ASSUME NEW s \in Strings, Leads({s, Tmp})
        PROVE  Apart({s})
    BY <1>1, LeadsKeeps, ApartTmp
  <1>2. ASSUME NEW s \in Strings, NEW t \in Strings, Leads({s, t, Tmp})
        PROVE  Apart({s, t})
    BY <1>2, LeadsKeeps, ApartTmp
  <1>3. ASSUME NEW s \in Strings, Destruct(s)
        PROVE  Apart({s})
    BY <1>1, <1>3, DestructLeads
  <1>4. ASSUME NEW s \in Strings, HeapHasRoom, Edits(s) \/ Stores(s)
        PROVE  Apart({s})
    BY <1>1, <1>4, EditsLeads, StoresLeads
  <1>5. ASSUME NEW s \in Strings, HeapHasRoom, Constructs(s)
        PROVE  Apart({s}) \/ \E t \in Strings : NewMoved(s, t) /\ Apart({s, t})
    <2>1. CASE \E t \in Strings : NewMoved(s, t)
      BY <1>2, <1>5, <2>1, PairLeads
    <2>2. CASE Leads({s, Tmp})
      BY <1>1, <2>2
    <2>3. QED
      BY <1>5, <2>1, <2>2, ConstructsLeads DEF Constructs
  <1>6. ASSUME NEW s \in Strings, HeapHasRoom, Assigns(s)
        PROVE  Apart({s}) \/ \E t \in Strings : (Move(s, t) \/ Exchange(s, t)) /\ Apart({s, t})
    <2>1. CASE \E t \in Strings : Move(s, t) \/ Exchange(s, t)
      BY <1>2, <1>6, <2>1, PairLeads
    <2>2. CASE Leads({s, Tmp})
      BY <1>1, <2>2
    <2>3. QED
      BY <1>6, <2>1, <2>2, AssignsLeads DEF Assigns
  <1>7. QED
    BY <1>3, <1>4, <1>5, <1>6 DEF Isolated

(* Every step of the specification isolates the strings it does not name.   *)
THEOREM StringsIsolated == Spec => [][Isolated]_vars
  <1>1. Apartness /\ [Next]_vars => [Isolated]_vars
    BY CowStringAssumption, NextIsolated
  <1>2. QED
    BY <1>1, ApartAlways, PTL DEF Spec

(***************************************************************************)
(* What the strings read as: every helper and every call leaves the        *)
(* characters it should, inside a block that has room for them.            *)
(***************************************************************************)
Sized(d) == Len(d) \in Nat /\ DOMAIN d = 1..Len(d)

(* In block k, from offset at on, stand n characters of v, those after from. *)
Shows(m, k, at, v, from, n) ==
  /\ Sized(m.mem[k]) /\ at \in Nat /\ n \in Nat /\ at + n <= Len(m.mem[k])
  /\ \A i \in 1..n : m.mem[k][at + i] = v[from + i]

(* From m to r the n characters of block k from offset at on were written. *)
Patched(m, r, k, at, n) ==
  /\ r.str = m.str /\ r.ctl = m.ctl /\ r.held = m.held /\ DOMAIN r.mem = DOMAIN m.mem
  /\ Sized(r.mem[k]) /\ Len(r.mem[k]) = Len(m.mem[k])
  /\ \A j \in 1..Len(m.mem[k]) : j <= at \/ j > at + n => r.mem[k][j] = m.mem[k][j]
  /\ \A c \in DOMAIN m.mem : c # k => r.mem[c] = m.mem[c]

LEMMA PutShows ==
  ASSUME NEW m, Shape(m), NEW k \in DOMAIN m.mem, Sized(m.mem[k]), NEW at \in Nat, NEW w, Len(w) \in Nat,
         at + Len(w) <= Len(m.mem[k])
  PROVE  LET r == PutAt(m, k, at, w) IN
         Patched(m, r, k, at, Len(w)) /\ Shows(r, k, at, w, 0, Len(w))
  <1>1. PICK r : r = PutAt(m, k, at, w)
    OBVIOUS
  <1>2. PICK d : d = m.mem[k]
    OBVIOUS
  <1>3. PICK e : e = Overlay(d, at, w)
    OBVIOUS
  <1>4. r.str = m.str /\ r.ctl = m.ctl /\ r.held = m.held /\ r.mem = [m.mem EXCEPT ![k] = e]
    BY <1>1, <1>2, <1>3 DEF PutAt, Shape
  <1>5. Sized(d) /\ at + Len(w) <= Len(d)
    BY <1>2
  <1>6. /\ Sized(e) /\ Len(e) = Len(d)
        /\ \A j \in 1..Len(d) : e[j] = IF j - at \in 1..Len(w) THEN w[j - at] ELSE d[j]
    BY <1>3, <1>5 DEF Overlay, Sized
  <1>7. ASSUME NEW j \in 1..Len(d), j <= at \/ j > at + Len(w)
        PROVE  e[j] = d[j]
    <2>1. j - at \notin 1..Len(w)
      BY <1>5, <1>7 DEF Sized
    <2>2. QED
      BY <1>6, <2>1
  <1>8. ASSUME NEW i \in 1..Len(w)
        PROVE  e[at + i] = w[0 + i]
    <2>1. at + i \in 1..Len(d) /\ (at + i) - at = i /\ 0 + i = i
      BY <1>5 DEF Sized
    <2>2. QED
      BY <1>6, <2>1
  <1>9. Patched(m, r, k, at, Len(w))
    BY <1>2, <1>4, <1>6, <1>7 DEF Patched
  <1>10. Shows(r, k, at, w, 0, Len(w))
    <2>1. r.mem[k] = e
      BY <1>4
    <2>2. QED
      BY <1>5, <1>6, <1>8, <2>1 DEF Shows
  <1>11. QED
    BY <1>1, <1>9, <1>10

Copies(w, v, from, n) == Sized(w) /\ Len(w) = n /\ \A i \in 1..n : w[i] = v[from + i]

LEMMA ReadShows ==
  ASSUME NEW m, NEW p, NEW v, NEW from, Shows(m, p.blk, p.off, v, from, p.len)
  PROVE  Copies(Read(m, p), v, from, p.len)
  <1>1. PICK w : w = Read(m, p)
    OBVIOUS
  <1>2. \A i \in 1..p.len : Cell(m, p.blk, p.off + i) = v[from + i]
    BY DEF Cell, Shows, Sized
  <1>3. p.len \in Nat
    BY DEF Shows
  <1>4. QED
    BY <1>1, <1>2, <1>3 DEF Read, Sized, Copies

(* What is read in one place and written in another.                       *)
LEMMA CopyShows ==
  ASSUME NEW o, NEW p, NEW v, NEW from, Shows(o, p.blk, p.off, v, from, p.len),
         NEW m, Shape(m), NEW k \in DOMAIN m.mem, Sized(m.mem[k]), NEW at \in Nat,
         at + p.len <= Len(m.mem[k])
  PROVE  LET r == PutAt(m, k, at, Read(o, p)) IN
         Patched(m, r, k, at, p.len) /\ Shows(r, k, at, v, from, p.len)
  <1>1. PICK w : w = Read(o, p)
    OBVIOUS
  <1>2. Sized(w) /\ Len(w) = p.len /\ \A i \in 1..p.len : w[i] = v[from + i]
    <2>1. Copies(w, v, from, p.len)
      BY <1>1, ReadShows
    <2>2. QED
      BY <2>1 DEF Copies
  <1>3. PICK r : r = PutAt(m, k, at, w)
    OBVIOUS
  <1>4. Patched(m, r, k, at, p.len) /\ Shows(r, k, at, w, 0, p.len)
    BY <1>2, <1>3, PutShows DEF Sized
  <1>5. Shows(r, k, at, v, from, p.len)
    BY <1>2, <1>4 DEF Shows
  <1>6. QED
    BY <1>1, <1>3, <1>4, <1>5

LEMMA PatchKeeps ==
  ASSUME NEW m, NEW r, NEW k, NEW at \in Nat, NEW n \in Nat, Patched(m, r, k, at, n),
         NEW a, NEW v, NEW from, NEW l, Shows(m, k, a, v, from, l), a + l <= at \/ at + n <= a
  PROVE  Shows(r, k, a, v, from, l)
  <1>1. /\ Sized(m.mem[k]) /\ a \in Nat /\ l \in Nat /\ a + l <= Len(m.mem[k])
        /\ Len(m.mem[k]) \in Nat
    BY DEF Shows, Sized
  <1>2. ASSUME NEW i \in 1..l
        PROVE  r.mem[k][a + i] = m.mem[k][a + i]
    <2>1. a + i \in 1..Len(m.mem[k]) /\ (a + i <= at \/ a + i > at + n)
      BY <1>1
    <2>2. QED
      BY <2>1 DEF Patched
  <1>3. QED
    BY <1>1, <1>2 DEF Shows, Patched

LEMMA PatchKeepsOthers ==
  ASSUME NEW m, NEW r, NEW k, NEW at, NEW n, Patched(m, r, k, at, n),
         NEW c \in DOMAIN m.mem, c # k, NEW a, NEW v, NEW from, NEW l, Shows(m, c, a, v, from, l)
  PROVE  Shows(r, c, a, v, from, l)
  BY DEF Shows, Patched

(* A part of it stands there too.                                          *)
LEMMA ShowsPart ==
  ASSUME NEW m, NEW k, NEW at, NEW v, NEW from \in Nat, NEW n, Shows(m, k, at, v, from, n),
         NEW d \in Nat, NEW l \in Nat, d + l <= n
  PROVE  Shows(m, k, at + d, v, from + d, l)
  <1>1. at \in Nat /\ n \in Nat /\ Len(m.mem[k]) \in Nat /\ at + n <= Len(m.mem[k])
    BY DEF Shows, Sized
  <1>2. ASSUME NEW i \in 1..l
        PROVE  m.mem[k][(at + d) + i] = v[(from + d) + i]
    <2>1. d + i \in 1..n /\ (at + d) + i = at + (d + i) /\ (from + d) + i = from + (d + i)
      BY <1>1
    <2>2. QED
      BY <2>1 DEF Shows
  <1>3. QED
    BY <1>1, <1>2 DEF Shows

(* The block of s has room for n characters from where s points to.        *)
Room(m, s, n) ==
  /\ m.str[s].blk \in DOMAIN m.mem /\ Sized(m.mem[m.str[s].blk])
  /\ m.str[s].off \in Nat /\ n \in Nat /\ m.str[s].off + n <= BlockSize(m, s)
  /\ m.str[s].state # "NONE" /\ (m.str[s].state = "SSO" => BlockSize(m, s) = MaxSso)

(* From position pos of s on stand n characters of v, those after from.    *)
Stands(m, s, pos, v, from, n) == Shows(m, m.str[s].blk, m.str[s].off + pos, v, from, n)

(* s reads as v.                                                           *)
Spells(m, s, v) ==
  /\ Room(m, s, Len(v)) /\ m.str[s].len = Len(v)
  /\ Stands(m, s, 0, v, 0, Len(v))

LEMMA RoomLess ==
  ASSUME NEW m, NEW s, NEW n, Room(m, s, n), NEW l \in Nat, l <= n
  PROVE  Room(m, s, l)
  BY DEF Room, Sized, BlockSize

LEMMA PatchRoom ==
  ASSUME NEW m, NEW r, NEW s, NEW k, NEW at, NEW l, Patched(m, r, k, at, l), NEW n, Room(m, s, n)
  PROVE  Room(r, s, n)
  <1>1. /\ r.str = m.str /\ DOMAIN r.mem = DOMAIN m.mem /\ m.str[s].blk \in DOMAIN m.mem
        /\ Sized(r.mem[m.str[s].blk]) /\ Len(r.mem[m.str[s].blk]) = Len(m.mem[m.str[s].blk])
    BY DEF Patched, Room
  <1>2. QED
    BY <1>1 DEF Room, BlockSize

LEMMA Nested ==
  ASSUME NEW o \in Nat, NEW n \in Nat, NEW p \in Nat, NEW l \in Nat, NEW b \in Nat, o + n <= b, p + l <= n
  PROVE  o + p \in Nat /\ (o + p) + l <= b
  OBVIOUS

LEMMA PutStands ==
  ASSUME NEW m, Shape(m), NEW s, NEW n, Room(m, s, n), NEW pos \in Nat, NEW w, Len(w) \in Nat, pos + Len(w) <= n
  PROVE  LET r == Put(m, s, pos, w) IN
         /\ Patched(m, r, m.str[s].blk, m.str[s].off + pos, Len(w)) /\ Shape(r)
         /\ Room(r, s, n) /\ Stands(r, s, pos, w, 0, Len(w))
  <1>1. PICK r : r = Put(m, s, pos, w)
    OBVIOUS
  <1>2. r = PutAt(m, m.str[s].blk, m.str[s].off + pos, w)
    BY <1>1 DEF Put
  <1>3. /\ m.str[s].blk \in DOMAIN m.mem /\ Sized(m.mem[m.str[s].blk]) /\ m.str[s].off + pos \in Nat
        /\ (m.str[s].off + pos) + Len(w) <= Len(m.mem[m.str[s].blk])
    <2>1. /\ m.str[s].blk \in DOMAIN m.mem /\ Sized(m.mem[m.str[s].blk])
          /\ m.str[s].off \in Nat /\ n \in Nat /\ m.str[s].off + n <= Len(m.mem[m.str[s].blk])
      BY DEF Room, BlockSize
    <2>2. Len(m.mem[m.str[s].blk]) \in Nat /\ Len(w) \in Nat
      BY <2>1 DEF Sized
    <2>3. PICK o \in Nat : o = m.str[s].off
      BY <2>1
    <2>4. PICK b \in Nat : b = Len(m.mem[m.str[s].blk])
      BY <2>2
    <2>5. PICK l \in Nat : l = Len(w)
      BY <2>2
    <2>6. o + n <= b
      BY <2>1, <2>3, <2>4
    <2>7. pos + l <= n
      BY <2>5
    <2>8. o + pos \in Nat /\ (o + pos) + l <= b
      BY <2>1, <2>6, <2>7, Nested
    <2>9. QED
      BY <2>1, <2>3, <2>4, <2>5, <2>8
  <1>4. /\ Patched(m, r, m.str[s].blk, m.str[s].off + pos, Len(w))
        /\ Shows(r, m.str[s].blk, m.str[s].off + pos, w, 0, Len(w))
    BY <1>2, <1>3, PutShows
  <1>5. r.str = m.str
    BY <1>4 DEF Patched
  <1>6. Shape(r)
    BY <1>2, PutAtShape
  <1>7. QED
    BY <1>1, <1>4, <1>5, <1>6, PatchRoom DEF Stands

LEMMA CopyStands ==
  ASSUME NEW o, NEW p, NEW v, NEW from, Shows(o, p.blk, p.off, v, from, p.len),
         NEW m, Shape(m), NEW s, NEW n, Room(m, s, n), NEW pos \in Nat, pos + p.len <= n
  PROVE  LET r == Put(m, s, pos, Read(o, p)) IN
         /\ Patched(m, r, m.str[s].blk, m.str[s].off + pos, p.len) /\ Shape(r)
         /\ Room(r, s, n) /\ Stands(r, s, pos, v, from, p.len)
  <1>1. PICK r : r = Put(m, s, pos, Read(o, p))
    OBVIOUS
  <1>2. r = PutAt(m, m.str[s].blk, m.str[s].off + pos, Read(o, p))
    BY <1>1 DEF Put
  <1>3. /\ m.str[s].blk \in DOMAIN m.mem /\ Sized(m.mem[m.str[s].blk]) /\ m.str[s].off + pos \in Nat
        /\ (m.str[s].off + pos) + p.len <= Len(m.mem[m.str[s].blk])
    <2>1. /\ m.str[s].blk \in DOMAIN m.mem /\ Sized(m.mem[m.str[s].blk])
          /\ m.str[s].off \in Nat /\ n \in Nat /\ m.str[s].off + n <= Len(m.mem[m.str[s].blk])
      BY DEF Room, BlockSize
    <2>2. Len(m.mem[m.str[s].blk]) \in Nat /\ p.len \in Nat
      BY <2>1 DEF Sized, Shows
    <2>3. PICK a \in Nat : a = m.str[s].off
      BY <2>1
    <2>4. PICK b \in Nat : b = Len(m.mem[m.str[s].blk])
      BY <2>2
    <2>5. PICK l \in Nat : l = p.len
      BY <2>2
    <2>6. a + n <= b
      BY <2>1, <2>3, <2>4
    <2>7. pos + l <= n
      BY <2>5
    <2>8. a + pos \in Nat /\ (a + pos) + l <= b
      BY <2>1, <2>6, <2>7, Nested
    <2>9. QED
      BY <2>1, <2>3, <2>4, <2>5, <2>8
  <1>4. /\ Patched(m, r, m.str[s].blk, m.str[s].off + pos, p.len)
        /\ Shows(r, m.str[s].blk, m.str[s].off + pos, v, from, p.len)
    BY <1>2, <1>3, CopyShows
  <1>5. r.str = m.str
    BY <1>4 DEF Patched
  <1>6. Shape(r)
    BY <1>2, PutAtShape
  <1>7. QED
    BY <1>1, <1>4, <1>5, <1>6, PatchRoom DEF Stands

(* A write elsewhere in the string leaves what stands in front or behind.  *)
LEMMA PatchStands ==
  ASSUME NEW m, NEW r, NEW s, NEW pos \in Nat, NEW l \in Nat, m.str[s].off \in Nat,
         Patched(m, r, m.str[s].blk, m.str[s].off + pos, l),
         NEW a \in Nat, NEW v, NEW from, NEW n, Stands(m, s, a, v, from, n),
         a + n <= pos \/ pos + l <= a
  PROVE  Stands(r, s, a, v, from, n)
  <1>1. PICK k : k = m.str[s].blk
    OBVIOUS
  <1>2. PICK at : at = m.str[s].off + pos
    OBVIOUS
  <1>3. PICK b : b = m.str[s].off + a
    OBVIOUS
  <1>4. Shows(m, k, b, v, from, n) /\ Patched(m, r, k, at, l) /\ at \in Nat
    BY <1>1, <1>2, <1>3 DEF Stands
  <1>5. b + n <= at \/ at + l <= b
    <2>1. n \in Nat
      BY <1>4 DEF Shows
    <2>2. QED
      BY <1>2, <1>3, <2>1
  <1>6. Shows(r, k, b, v, from, n)
    BY <1>4, <1>5, PatchKeeps
  <1>7. r.str = m.str
    BY DEF Patched
  <1>8. QED
    BY <1>1, <1>3, <1>6, <1>7 DEF Stands

(***************************************************************************)
(* New storage.                                                            *)
(***************************************************************************)
(* s has moved to a block with room for cap characters, a new one or its   *)
(* SSO bytes; what else was not free reads as before.                      *)
Rehoused(m, n, s, cap) ==
  /\ Shape(n) /\ DOMAIN n.mem = Blocks
  /\ Room(n, s, cap) /\ n.str[s].off = 0 /\ n.str[s].len = m.str[s].len
  /\ n.str[s].blk \in FreeBuffers(m) \cup {s}
  /\ \A k \in Blocks : k \notin FreeBuffers(m) \cup {s} => n.mem[k] = m.mem[k]

LEMMA NewBufferHouses ==
  ASSUME NEW m, NEW s, Apt(m, s), NEW cap \in Nat
  PROVE  Rehoused(m, NewBuffer(m, s, cap), s, cap)
  <1>1. /\ Shape(m) /\ Housed(m) /\ s \in Objs /\ Assumptions /\ FreeBuffers(m) # {}
        /\ DOMAIN m.mem = Blocks /\ s \in Blocks
    BY DEF Apt, Housed, Blocks
  <1>2. PICK x : x = AnyFree(m)
    OBVIOUS
  <1>3. x \in FreeBuffers(m) /\ x \in Buffers /\ x \in Blocks /\ x # s
    BY <1>1, <1>2, AnyFreeIsFree DEF FreeBuffers, Blocks, Assumptions
  <1>4. PICK n : n = NewBuffer(m, s, cap)
    OBVIOUS
  <1>5. Shape(n)
    BY <1>1, <1>4, NewBufferRehomes DEF Rehomed
  <1>6. PICK w : w = Junks(cap)
    OBVIOUS
  <1>7. Sized(w) /\ Len(w) = cap
    BY <1>6 DEF Junks, Sized
  <1>8. PICK p : p = m.str[s]
    OBVIOUS
  <1>9. PICK r : r = [p EXCEPT !.state = "INTERNAL", !.blk = x, !.off = 0, !.dtor = AllocOf[s]]
    OBVIOUS
  <1>10. /\ n.str = [m.str EXCEPT ![s] = r]
         /\ n.mem = [[m.mem EXCEPT ![x] = w] EXCEPT ![s] = <<>>]
    BY <1>1, <1>2, <1>4, <1>6, <1>8, <1>9 DEF NewBuffer, Shape
  <1>11. r.state = "INTERNAL" /\ r.blk = x /\ r.off = 0 /\ r.len = p.len
    BY <1>1, <1>8, <1>9 DEF Shape, StrRec
  <1>12. n.str[s] = r
    BY <1>1, <1>10 DEF Shape
  <1>13. DOMAIN n.mem = Blocks /\ n.mem[x] = w
    BY <1>1, <1>3, <1>10
  <1>14. Room(n, s, cap)
    BY <1>3, <1>7, <1>11, <1>12, <1>13 DEF Room, BlockSize
  <1>15. \A k \in Blocks : k \notin FreeBuffers(m) \cup {s} => n.mem[k] = m.mem[k]
    BY <1>1, <1>3, <1>10
  <1>16. QED
    BY <1>3, <1>4, <1>5, <1>8, <1>11, <1>12, <1>13, <1>14, <1>15 DEF Rehoused

LEMMA NewAutoHouses ==
  ASSUME NEW m, NEW s, Apt(m, s), NEW cap \in Nat
  PROVE  Rehoused(m, NewAuto(m, s, cap), s, cap)
  <1>1. /\ Shape(m) /\ Housed(m) /\ s \in Objs /\ Assumptions /\ FreeBuffers(m) # {}
        /\ DOMAIN m.mem = Blocks /\ s \in Blocks /\ MaxSso \in Nat
    BY DEF Apt, Housed, Blocks, Assumptions
  <1>2. CASE cap <= MaxSso
    <2>1. PICK n : n = NewAuto(m, s, cap)
      OBVIOUS
    <2>2. Shape(n)
      BY <1>1, <2>1, NewAutoRehomes DEF Rehomed
    <2>3. PICK w : w = Junks(MaxSso)
      OBVIOUS
    <2>4. Sized(w) /\ Len(w) = MaxSso
      BY <1>1, <2>3 DEF Junks, Sized
    <2>5. PICK p : p = m.str[s]
      OBVIOUS
    <2>6. PICK r : r = [p EXCEPT !.state = "SSO", !.blk = s, !.off = 0, !.dtor = NoDtor]
      OBVIOUS
    <2>7. n.str = [m.str EXCEPT ![s] = r] /\ n.mem = [m.mem EXCEPT ![s] = w]
      BY <1>1, <1>2, <2>1, <2>3, <2>5, <2>6 DEF NewAuto, Shape
    <2>8. r.state = "SSO" /\ r.blk = s /\ r.off = 0 /\ r.len = p.len
      BY <1>1, <2>5, <2>6 DEF Shape, StrRec
    <2>9. n.str[s] = r /\ DOMAIN n.mem = Blocks /\ n.mem[s] = w
      BY <1>1, <2>7 DEF Shape
    <2>10. Room(n, s, cap)
      BY <1>1, <1>2, <2>4, <2>8, <2>9 DEF Room, BlockSize
    <2>11. \A k \in Blocks : k \notin FreeBuffers(m) \cup {s} => n.mem[k] = m.mem[k]
      BY <1>1, <2>7
    <2>12. QED
      BY <2>1, <2>2, <2>5, <2>8, <2>9, <2>10, <2>11 DEF Rehoused
  <1>3. CASE ~(cap <= MaxSso)
    BY <1>3, NewBufferHouses DEF NewAuto
  <1>4. QED
    BY <1>2, <1>3

(***************************************************************************)
(* Capacities are not rounded down to a float below what was asked for.    *)
(***************************************************************************)
Fine(cap, extra) == cap \in Nat /\ (extra = "grow" \/ (2^FloatBits \in Nat /\ cap < 2^FloatBits))

LEMMA AtLeast ==
  ASSUME NEW P \in Nat, NEW q \in Nat, q >= 1
  PROVE  P * q >= P
  <1>1. q - 1 \in Nat /\ P * q = P + P * (q - 1)
    OBVIOUS
  <1>2. P * (q - 1) >= 0
    BY <1>1
  <1>3. QED
    BY <1>1, <1>2

LEMMA FineExact ==
  ASSUME NEW n \in Nat, 2^FloatBits \in Nat, n < 2^FloatBits
  PROVE  NearestFloat(n) = n
  <1>1. PICK P \in Nat : P = 2^FloatBits
    OBVIOUS
  <1>2. PICK ulp : ulp = Ulp(n)
    OBVIOUS
  <1>3. ulp \in Nat /\ n < P * ulp /\ (ulp = 1 \/ P * (ulp \div 2) <= n)
    <2>1. 2^0 = 1 /\ 0 \in 0..n
      OBVIOUS
    <2>2. 1 \in {2^k : k \in 0..n} \cap Nat
      BY <2>1
    <2>3. n < P * 1
      BY <1>1
    <2>4. QED
      BY <1>1, <1>2, <2>2, <2>3 DEF Ulp
  <1>4. ulp = 1
    <2>1. CASE ulp = 0
      <3>1. P * ulp = 0
        BY <2>1
      <3>2. QED
        BY <1>3, <3>1
    <2>2. CASE ulp # 0 /\ ulp # 1
      <3>1. ulp \div 2 \in Nat /\ ulp \div 2 >= 1
        BY <1>3, <2>2
      <3>2. P * (ulp \div 2) >= P
        BY <3>1, AtLeast
      <3>3. PICK z \in Nat : z = P * (ulp \div 2)
        BY <3>1
      <3>4. QED
        BY <1>1, <1>3, <2>2, <3>2, <3>3
    <2>3. QED
      BY <2>1, <2>2
  <1>5. Ulp(n) = 1
    BY <1>2, <1>4
  <1>6. 1 * (n \div 1) = n /\ n - n = 0 /\ 2 * 0 = 0
    OBVIOUS
  <1>7. QED
    BY <1>5, <1>6 DEF NearestFloat

LEMMA TimesEnough ==
  ASSUME NEW cap, NEW extra, Fine(cap, extra)
  PROVE  Times(cap, extra) \in Nat /\ Times(cap, extra) >= cap
  <1>1. CASE extra = "grow"
    <2>1. Times(cap, extra) = (cap * 8) \div 5
      BY <1>1 DEF Times
    <2>2. QED
      BY <2>1 DEF Fine
  <1>2. CASE extra # "grow"
    <2>1. Times(cap, extra) = NearestFloat(cap)
      BY <1>2 DEF Times
    <2>2. QED
      BY <1>2, <2>1, FineExact DEF Fine
  <1>3. QED
    BY <1>1, <1>2

(***************************************************************************)
(* What leaves the record and the block of s alone leaves its text alone.  *)
(***************************************************************************)
Alike(m, n, s) ==
  /\ n.str[s] = m.str[s] /\ m.str[s].blk \in DOMAIN n.mem
  /\ n.mem[m.str[s].blk] = m.mem[m.str[s].blk]

LEMMA AlikeRoom ==
  ASSUME NEW m, NEW n, NEW s, Alike(m, n, s), NEW c, Room(m, s, c)
  PROVE  Room(n, s, c)
  BY DEF Alike, Room, BlockSize

LEMMA AlikeStands ==
  ASSUME NEW m, NEW n, NEW s, Alike(m, n, s), NEW pos, NEW v, NEW from, NEW l, Stands(m, s, pos, v, from, l)
  PROVE  Stands(n, s, pos, v, from, l)
  BY DEF Alike, Stands, Shows

LEMMA AlikeSpells ==
  ASSUME NEW m, NEW n, NEW s, Alike(m, n, s), NEW v, Spells(m, s, v)
  PROVE  Spells(n, s, v)
  BY AlikeRoom, AlikeStands DEF Spells, Alike

LEMMA SpellsTyped ==
  ASSUME NEW m, NEW s, NEW v, Spells(m, s, v)
  PROVE  /\ Len(v) \in Nat /\ m.str[s].len = Len(v) /\ m.str[s].off \in Nat /\ Room(m, s, Len(v))
         /\ m.str[s].off + 0 = m.str[s].off
         /\ Shows(m, m.str[s].blk, m.str[s].off, v, 0, m.str[s].len)
  <1>1. m.str[s].off \in Nat
    BY DEF Spells, Room
  <1>2. m.str[s].off + 0 = m.str[s].off
    BY <1>1
  <1>3. QED
    BY <1>1, <1>2 DEF Spells, Stands, Room

(***************************************************************************)
(* Detaching.                                                              *)
(***************************************************************************)
(* The block of s is one that new storage for s does not touch.            *)
Elsewhere(m, s) == m.str[s].blk \in Blocks /\ m.str[s].blk \notin FreeBuffers(m) \cup {s}

LEMMA DetachStrSpells ==
  ASSUME NEW m, NEW s, Apt(m, s), Elsewhere(m, s), NEW v, Spells(m, s, v), NEW cap \in Nat, Len(v) <= cap
  PROVE  LET n == DetachStr(m, s, cap) IN
         Spells(n, s, v) /\ Room(n, s, cap) /\ n.str[s].blk # m.str[s].blk
  <1>1. PICK old : old = m.str[s]
    OBVIOUS
  <1>2. PICK h : h = NewAuto(m, s, cap)
    OBVIOUS
  <1>3. Rehoused(m, h, s, cap)
    BY <1>2, NewAutoHouses
  <1>4. Shows(m, old.blk, old.off, v, 0, old.len) /\ old.len = Len(v) /\ Len(v) \in Nat
    BY <1>1, SpellsTyped
  <1>5. Shows(h, old.blk, old.off, v, 0, old.len)
    BY <1>1, <1>3, <1>4 DEF Rehoused, Elsewhere, Shows
  <1>6. PICK n : n = Put(h, s, 0, Read(h, old))
    OBVIOUS
  <1>7. 0 + old.len <= cap
    BY <1>4
  <1>8. /\ Patched(h, n, h.str[s].blk, h.str[s].off + 0, old.len)
        /\ Room(n, s, cap) /\ Stands(n, s, 0, v, 0, old.len)
    <2>1. Shape(h) /\ Room(h, s, cap) /\ 0 \in Nat
      BY <1>3 DEF Rehoused
    <2>2. QED
      BY <1>5, <1>6, <1>7, <2>1, CopyStands
  <1>9. n.str = h.str
    BY <1>8 DEF Patched
  <1>10. Room(n, s, Len(v))
    BY <1>4, <1>8, RoomLess
  <1>11. Spells(n, s, v)
    BY <1>1, <1>3, <1>4, <1>8, <1>9, <1>10 DEF Spells, Rehoused
  <1>12. n = DetachStr(m, s, cap)
    BY <1>1, <1>2, <1>6 DEF DetachStr
  <1>13. n.str[s].blk # m.str[s].blk
    BY <1>3, <1>9 DEF Rehoused, Elsewhere
  <1>14. QED
    BY <1>8, <1>11, <1>12, <1>13

(* Where the text of s stands before a detachment.                         *)
LEMMA LiteralApart ==
  ASSUME NEW m, NEW s, Able(m, s), m.str[s].state = "LITERAL"
  PROVE  Elsewhere(m, s)
  BY AbleApt DEF Elsewhere, Apt, Housed, Blocks, FreeBuffers, Assumptions

LEMMA CountedApart ==
  ASSUME NEW m, NEW s, Able(m, s), m.str[s].state \in Counted
  PROVE  Elsewhere(m, s)
  <1>1. Balanced(m) /\ Assumptions /\ s \in Objs
    BY AbleApt DEF Apt
  <1>2. /\ m.str[s].blk \in Buffers /\ m.ctl[m.str[s].blk].refcnt \in Nat
        /\ m.ctl[m.str[s].blk].refcnt >= 1
    BY <1>1, HolderCounts
  <1>3. m.str[s].blk \notin FreeBuffers(m)
    BY <1>2 DEF FreeBuffers
  <1>4. QED
    BY <1>1, <1>2, <1>3 DEF Elsewhere, Blocks, Assumptions

LEMMA SharedApart ==
  ASSUME NEW m, NEW s, Able(m, s), m.str[s].state \in Counted, ~Unique(m, s)
  PROVE  LET d == DecRef(m, m.str[s].blk) IN Elsewhere(d, s) /\ Apt(d, s) /\ Alike(m, d, s)
  <1>1. Balanced(m) /\ Assumptions /\ s \in Objs /\ Shape(m) /\ Housed(m)
    BY AbleApt DEF Apt
  <1>2. PICK b : b = m.str[s].blk
    OBVIOUS
  <1>3. b \in Buffers /\ m.ctl[b].refcnt \in Nat /\ m.ctl[b].refcnt >= 1 /\ m.ctl[b].refcnt # 1
    BY <1>1, <1>2, HolderCounts DEF Unique
  <1>4. PICK d : d = DecRef(m, b)
    OBVIOUS
  <1>5. d.str = m.str /\ d.ctl[b].refcnt = m.ctl[b].refcnt - 1
    BY <1>1, <1>3, <1>4, DecRefShape
  <1>6. d.mem = m.mem
    BY <1>1, <1>4 DEF DecRef, Shape
  <1>7. d.ctl[b].refcnt # 0
    BY <1>3, <1>5
  <1>8. Elsewhere(d, s)
    BY <1>1, <1>2, <1>3, <1>5, <1>7 DEF Elsewhere, Blocks, Assumptions, FreeBuffers
  <1>9. Apt(d, s)
    BY <1>2, <1>4, DecRefConfined
  <1>10. Alike(m, d, s)
    BY <1>1, <1>2, <1>3, <1>5, <1>6 DEF Alike, Housed, Blocks
  <1>11. QED
    BY <1>2, <1>4, <1>8, <1>9, <1>10

LEMMA DetachCowSpells ==
  ASSUME NEW m, NEW s, Able(m, s), m.str[s].state \in Counted, ~Unique(m, s),
         NEW v, Spells(m, s, v), NEW cap \in Nat, Len(v) <= cap
  PROVE  LET n == DetachCow(m, s, cap) IN Spells(n, s, v) /\ Room(n, s, cap)
  <1>1. PICK d : d = DecRef(m, m.str[s].blk)
    OBVIOUS
  <1>2. Elsewhere(d, s) /\ Apt(d, s) /\ Alike(m, d, s)
    BY <1>1, SharedApart
  <1>3. Spells(d, s, v)
    BY <1>2, AlikeSpells
  <1>4. Spells(DetachStr(d, s, cap), s, v) /\ Room(DetachStr(d, s, cap), s, cap)
    BY <1>2, <1>3, DetachStrSpells
  <1>5. QED
    BY <1>1, <1>4 DEF DetachCow

LEMMA DetachSpells ==
  ASSUME NEW m, NEW s, Able(m, s), m.str[s].state # "NONE", NEW v, Spells(m, s, v)
  PROVE  Spells(Detach(m, s), s, v) /\ Spells(SharedDetach(m, s), s, v)
  <1>0. m.str[s].state \in States /\ m.str[s].len = Len(v) /\ Len(v) \in Nat /\ Apt(m, s)
    BY AbleApt, SpellsTyped DEF Shape, StrRec
  <1>1. CASE m.str[s].state \in Counted /\ ~Unique(m, s)
    <2>1. Spells(DetachCow(m, s, Len(v)), s, v)
      BY <1>0, <1>1, DetachCowSpells
    <2>2. QED
      BY <1>0, <1>1, <2>1 DEF Detach, SharedDetach, Counted
  <1>2. CASE m.str[s].state = "LITERAL"
    <2>1. Spells(DetachStr(m, s, Len(v)), s, v)
      BY <1>0, <1>2, LiteralApart, DetachStrSpells
    <2>2. QED
      BY <1>0, <1>2, <2>1 DEF Detach, SharedDetach, Counted
  <1>3. CASE ~(m.str[s].state \in Counted /\ ~Unique(m, s)) /\ m.str[s].state # "LITERAL"
    BY <1>3 DEF Detach, SharedDetach
  <1>4. QED
    BY <1>1, <1>2, <1>3

(***************************************************************************)
(* Reserving.                                                              *)
(***************************************************************************)
LEMMA FreeAlike ==
  ASSUME NEW m, NEW s \in Objs, Shape(m), NEW p, p.blk \in Buffers, p.blk # m.str[s].blk,
         m.str[s].blk \in DOMAIN m.mem
  PROVE  Alike(m, FreeBuffer(m, p), s)
  <1>1. PICK n : n = FreeBuffer(m, p)
    OBVIOUS
  <1>2. n.str = m.str
    BY <1>1, FreeBufferShape
  <1>3. n.mem = [m.mem EXCEPT ![p.blk] = <<>>]
    BY <1>1 DEF FreeBuffer, CallDtor, Shape
  <1>4. QED
    BY <1>1, <1>2, <1>3 DEF Alike

LEMMA ReallocInPlaceSpells ==
  ASSUME NEW m, NEW s, Able(m, s), m.str[s].state = "INTERNAL", m.str[s].off = 0,
         NEW v, Spells(m, s, v), NEW cap \in Nat, Len(v) <= cap
  PROVE  LET n == ReallocInPlace(m, s, cap) IN Spells(n, s, v) /\ Room(n, s, cap)
  <1>1. Shape(m) /\ Housed(m) /\ Len(v) \in Nat /\ m.str[s].len = Len(v)
        /\ Shows(m, m.str[s].blk, 0, v, 0, Len(v))
    BY AbleApt, SpellsTyped
  <1>2. PICK k : k = m.str[s].blk
    OBVIOUS
  <1>3. PICK d : d = m.mem[k]
    OBVIOUS
  <1>4. PICK w : w = [i \in 1..cap |-> Cell(m, k, i)]
    OBVIOUS
  <1>5. Sized(w) /\ Len(w) = cap
    BY <1>4 DEF Sized
  <1>6. PICK n : n = ReallocInPlace(m, s, cap)
    OBVIOUS
  <1>7. n.str = m.str /\ n.mem = [m.mem EXCEPT ![k] = w]
    BY <1>1, <1>2, <1>4, <1>6 DEF ReallocInPlace, Shape
  <1>8. k \in DOMAIN m.mem
    BY <1>2 DEF Spells, Room
  <1>9. n.mem[k] = w /\ k \in DOMAIN n.mem
    BY <1>7, <1>8
  <1>10. Room(n, s, cap)
    <2>1. 0 + cap <= Len(w)
      BY <1>5
    <2>2. QED
      BY <1>2, <1>5, <1>7, <1>9, <2>1 DEF Room, BlockSize
  <1>11. ASSUME NEW i \in 1..Len(v)
         PROVE  w[0 + i] = v[0 + i]
    <2>1. Sized(d) /\ 0 + Len(v) <= Len(d) /\ d[0 + i] = v[0 + i]
      BY <1>1, <1>2, <1>3 DEF Shows
    <2>2. i \in 1..cap /\ i \in 1..Len(d) /\ 0 + i = i
      BY <1>1, <2>1 DEF Sized
    <2>3. w[i] = d[i]
      BY <1>3, <1>4, <2>1, <2>2 DEF Cell, Sized
    <2>4. QED
      BY <2>1, <2>2, <2>3
  <1>12. Stands(n, s, 0, v, 0, Len(v))
    <2>1. n.str[s].off + 0 = 0 /\ 0 + Len(v) <= Len(w)
      BY <1>1, <1>5, <1>7
    <2>2. QED
      BY <1>1, <1>2, <1>5, <1>7, <1>9, <1>11, <2>1 DEF Stands, Shows
  <1>13. Spells(n, s, v)
    BY <1>1, <1>7, <1>10, <1>12, RoomLess DEF Spells
  <1>14. QED
    BY <1>6, <1>10, <1>13

LEMMA ReallocSpells ==
  ASSUME NEW m, NEW s, Able(m, s), m.str[s].state \in Counted, Unique(m, s),
         NEW v, Spells(m, s, v), NEW cap \in Nat, Len(v) <= cap
  PROVE  LET n == Realloc(m, s, cap) IN Spells(n, s, v) /\ Room(n, s, cap)
  <1>1. Apt(m, s) /\ Elsewhere(m, s) /\ s \in Objs /\ m.str[s].blk \in Buffers
    BY AbleApt, CountedApart DEF Shape
  <1>2. CASE m.str[s].state = "INTERNAL" /\ m.str[s].dtor = AllocOf[s] /\ m.str[s].off = 0
    BY <1>2, ReallocInPlaceSpells DEF Realloc
  <1>3. CASE ~(m.str[s].state = "INTERNAL" /\ m.str[s].dtor = AllocOf[s] /\ m.str[s].off = 0)
    <2>1. PICK n : n = DetachStr(m, s, cap)
      OBVIOUS
    <2>2. Spells(n, s, v) /\ Room(n, s, cap) /\ n.str[s].blk # m.str[s].blk
      BY <1>1, <2>1, DetachStrSpells
    <2>3. Shape(n)
      BY <1>1, <2>1, DetachStrRehomes DEF Apt, Rehomed
    <2>4. PICK p : p = m.str[s]
      OBVIOUS
    <2>5. n.str[s].blk \in DOMAIN n.mem
      BY <2>2 DEF Room
    <2>6. Alike(n, FreeBuffer(n, p), s)
      BY <1>1, <2>2, <2>3, <2>4, <2>5, FreeAlike
    <2>7. Spells(FreeBuffer(n, p), s, v) /\ Room(FreeBuffer(n, p), s, cap)
      BY <2>2, <2>6, AlikeSpells, AlikeRoom
    <2>8. Realloc(m, s, cap) = FreeBuffer(n, p)
      BY <1>3, <2>1, <2>4 DEF Realloc, ReallocElsewhere
    <2>9. QED
      BY <2>7, <2>8
  <1>4. QED
    BY <1>2, <1>3

LEMMA MoveToStartSpells ==
  ASSUME NEW m, NEW s \in Objs, Shape(m), NEW v, Spells(m, s, v), NEW cap \in Nat, cap <= BlockSize(m, s)
  PROVE  LET n == MoveToStart(m, s) IN Spells(n, s, v) /\ Room(n, s, cap)
  <1>1. PICK p : p = m.str[s]
    OBVIOUS
  <1>2. /\ Shows(m, p.blk, p.off, v, 0, p.len) /\ p.len = Len(v) /\ Len(v) \in Nat
        /\ p.blk \in DOMAIN m.mem /\ Sized(m.mem[p.blk])
    BY <1>1, SpellsTyped DEF Spells, Room
  <1>3. p.len <= Len(m.mem[p.blk]) /\ cap <= Len(m.mem[p.blk])
    <2>1. p.off \in Nat /\ p.off + p.len <= Len(m.mem[p.blk]) /\ Len(m.mem[p.blk]) \in Nat
      BY <1>2 DEF Shows, Sized
    <2>2. QED
      BY <1>1, <1>2, <2>1 DEF BlockSize
  <1>4. PICK h : h = PutAt(m, p.blk, 0, Read(m, p))
    OBVIOUS
  <1>5. 0 \in Nat /\ 0 + p.len <= Len(m.mem[p.blk])
    BY <1>2, <1>3
  <1>6. Patched(m, h, p.blk, 0, p.len) /\ Shows(h, p.blk, 0, v, 0, p.len)
    BY <1>2, <1>4, <1>5, CopyShows
  <1>7. Shape(h)
    BY <1>4, PutAtShape
  <1>8. PICK n : n = PointTo(h, s, 0)
    OBVIOUS
  <1>9. /\ n.mem = h.mem /\ h.str = m.str
        /\ n.str[s].blk = p.blk /\ n.str[s].off = 0 /\ n.str[s].len = p.len /\ n.str[s].state = p.state
    <2>1. h.str = m.str
      BY <1>6 DEF Patched
    <2>2. n.mem = h.mem /\ n.str = [h.str EXCEPT ![s].off = 0]
      BY <1>7, <1>8 DEF PointTo, Shape
    <2>3. h.str[s] = p /\ p \in StrRec
      BY <1>1, <2>1 DEF Shape
    <2>4. QED
      BY <1>7, <2>1, <2>2, <2>3 DEF Shape, StrRec
  <1>10. /\ Sized(h.mem[p.blk]) /\ Len(h.mem[p.blk]) = Len(m.mem[p.blk]) /\ p.blk \in DOMAIN h.mem
    BY <1>2, <1>6 DEF Patched
  <1>11. p.state # "NONE" /\ (p.state = "SSO" => Len(m.mem[p.blk]) = MaxSso)
    BY <1>1 DEF Spells, Room, BlockSize
  <1>12. Room(n, s, cap)
    <2>1. 0 + cap <= Len(m.mem[p.blk])
      BY <1>3
    <2>2. QED
      BY <1>9, <1>10, <1>11, <2>1 DEF Room, BlockSize
  <1>13. Room(n, s, Len(v))
    BY <1>2, <1>5, <1>9, <1>10, <1>11 DEF Room, BlockSize
  <1>14. Stands(n, s, 0, v, 0, Len(v))
    <2>1. n.str[s].off + 0 = 0
      BY <1>9
    <2>2. QED
      BY <1>2, <1>6, <1>9, <2>1 DEF Stands, Shows
  <1>15. Spells(n, s, v)
    BY <1>2, <1>9, <1>13, <1>14 DEF Spells
  <1>16. n = MoveToStart(m, s)
    BY <1>1, <1>4, <1>8 DEF MoveToStart
  <1>17. QED
    BY <1>12, <1>15, <1>16

LEMMA FromSsoSpells ==
  ASSUME NEW m, NEW s, Apt(m, s), NEW v, Spells(m, s, v), NEW cap \in Nat, Len(v) <= cap
  PROVE  LET n == NewInternalFromSso(m, s, cap) IN Spells(n, s, v) /\ Room(n, s, cap)
  <1>1. PICK p : p = m.str[s]
    OBVIOUS
  <1>2. PICK h : h = NewBuffer(m, s, cap)
    OBVIOUS
  <1>3. Rehoused(m, h, s, cap)
    BY <1>2, NewBufferHouses
  <1>4. Shows(m, p.blk, p.off, v, 0, p.len) /\ p.len = Len(v) /\ Len(v) \in Nat
    BY <1>1, SpellsTyped
  <1>5. PICK n : n = Put(h, s, 0, Read(m, p))
    OBVIOUS
  <1>6. 0 + p.len <= cap /\ 0 \in Nat
    BY <1>4
  <1>7. Shape(h) /\ Room(h, s, cap)
    BY <1>3 DEF Rehoused
  <1>8. /\ Patched(h, n, h.str[s].blk, h.str[s].off + 0, p.len)
        /\ Room(n, s, cap) /\ Stands(n, s, 0, v, 0, p.len)
    BY <1>4, <1>5, <1>6, <1>7, CopyStands
  <1>9. n.str = h.str
    BY <1>8 DEF Patched
  <1>10. Room(n, s, Len(v))
    BY <1>4, <1>8, RoomLess
  <1>11. Spells(n, s, v)
    BY <1>1, <1>3, <1>4, <1>8, <1>9, <1>10 DEF Spells, Rehoused
  <1>12. n = NewInternalFromSso(m, s, cap)
    BY <1>1, <1>2, <1>5 DEF NewInternalFromSso
  <1>13. QED
    BY <1>8, <1>11, <1>12

(* Room at the end of the block, as CapacityTail tells it.                 *)
LEMMA TailRoom ==
  ASSUME NEW m, NEW s, NEW n, Room(m, s, n), NEW cap \in Nat, ~(CapacityTail(m, s) < cap)
  PROVE  Room(m, s, cap)
  <1>1. PICK b : b = BlockSize(m, s)
    OBVIOUS
  <1>2. PICK o : o = m.str[s].off
    OBVIOUS
  <1>3. b \in Nat /\ o \in Nat
    BY <1>1, <1>2 DEF Room, BlockSize, Sized
  <1>4. ~(b - o < cap)
    BY <1>1, <1>2 DEF CapacityTail
  <1>5. o + cap <= b
    BY <1>3, <1>4
  <1>6. QED
    BY <1>1, <1>2, <1>5 DEF Room

LEMMA ReserveSaveSpells ==
  ASSUME NEW m, NEW s, Able(m, s), m.str[s].state # "NONE", NEW v, Spells(m, s, v),
         NEW want, NEW extra, Fine(want, extra), Fine(Len(v), extra)
  PROVE  LET n == ReserveSave(m, s, want, extra) IN Spells(n, s, v) /\ Room(n, s, want)
  <1>0. /\ Apt(m, s) /\ s \in Objs /\ Shape(m) /\ m.str[s].state \in States
        /\ Len(v) \in Nat /\ m.str[s].len = Len(v) /\ Room(m, s, Len(v)) /\ want \in Nat
    BY AbleApt, SpellsTyped DEF Shape, StrRec, Fine
  <1>1. PICK cap : cap = IF want < m.str[s].len THEN m.str[s].len ELSE want
    OBVIOUS
  <1>2. cap \in Nat /\ Len(v) <= cap /\ want <= cap /\ Fine(cap, extra)
    BY <1>0, <1>1
  <1>3. PICK c : c = Times(cap, extra)
    OBVIOUS
  <1>4. c \in Nat /\ cap <= c /\ Len(v) <= c /\ want <= c
    BY <1>0, <1>2, <1>3, TimesEnough
  <1>5. \A n : Room(n, s, c) \/ Room(n, s, cap) => Room(n, s, want)
    BY <1>0, <1>2, <1>4, RoomLess
  <1>6. BlockSize(m, s) \in Nat
    BY DEF Spells, Room, BlockSize, Sized
  <1>7. ~(BlockSize(m, s) < cap) => Spells(MoveToStart(m, s), s, v) /\ Room(MoveToStart(m, s), s, cap)
    BY <1>0, <1>2, <1>6, MoveToStartSpells
  <1>8. ~(CapacityTail(m, s) < cap) => Room(m, s, cap)
    BY <1>0, <1>2, TailRoom
  <1>9. CASE m.str[s].state \in Counted
    <2>1. PICK n : n = ReserveSaveCounted(m, s, cap, extra)
      OBVIOUS
    <2>2. n = ReserveSave(m, s, want, extra)
      BY <1>1, <1>9, <2>1 DEF ReserveSave, Counted
    <2>3. CASE ~Unique(m, s)
      <3>1. n = DetachCow(m, s, c)
        BY <1>3, <2>1, <2>3 DEF ReserveSaveCounted
      <3>2. Spells(n, s, v) /\ Room(n, s, c)
        BY <1>4, <1>9, <2>3, <3>1, DetachCowSpells
      <3>3. QED
        BY <1>5, <2>2, <3>2
    <2>4. CASE Unique(m, s) /\ BlockSize(m, s) < cap
      <3>1. n = Realloc(m, s, c)
        BY <1>3, <2>1, <2>4 DEF ReserveSaveCounted
      <3>2. Spells(n, s, v) /\ Room(n, s, c)
        BY <1>4, <1>9, <2>4, <3>1, ReallocSpells
      <3>3. QED
        BY <1>5, <2>2, <3>2
    <2>5. CASE Unique(m, s) /\ ~(BlockSize(m, s) < cap)
      <3>1. n = IF CapacityTail(m, s) < cap THEN MoveToStart(m, s) ELSE m
        BY <2>1, <2>5 DEF ReserveSaveCounted
      <3>2. Spells(n, s, v) /\ Room(n, s, cap)
        BY <1>7, <1>8, <2>5, <3>1
      <3>3. QED
        BY <1>5, <2>2, <3>2
    <2>6. QED
      BY <2>3, <2>4, <2>5
  <1>10. CASE m.str[s].state = "LITERAL"
    <2>1. ReserveSave(m, s, want, extra) = DetachStr(m, s, c)
      BY <1>1, <1>3, <1>10 DEF ReserveSave, Counted
    <2>2. Spells(DetachStr(m, s, c), s, v) /\ Room(DetachStr(m, s, c), s, c)
      BY <1>0, <1>4, <1>10, LiteralApart, DetachStrSpells
    <2>3. QED
      BY <1>5, <2>1, <2>2
  <1>11. CASE m.str[s].state = "SSO"
    <2>1. PICK n : n = ReserveSaveSso(m, s, cap, extra)
      OBVIOUS
    <2>2. n = ReserveSave(m, s, want, extra)
      BY <1>1, <1>11, <2>1 DEF ReserveSave, Counted
    <2>3. BlockSize(m, s) = MaxSso
      BY <1>11 DEF Spells, Room
    <2>4. CASE MaxSso < cap
      <3>1. n = NewInternalFromSso(m, s, c)
        <4>1. ~(MaxSso >= cap)
          BY <1>2, <1>6, <2>3, <2>4
        <4>2. QED
          BY <1>3, <2>1, <2>4, <4>1 DEF ReserveSaveSso
      <3>2. Spells(n, s, v) /\ Room(n, s, c)
        BY <1>0, <1>4, <3>1, FromSsoSpells
      <3>3. QED
        BY <1>5, <2>2, <3>2
    <2>5. CASE ~(MaxSso < cap)
      <3>1. n = IF CapacityTail(m, s) < cap THEN MoveToStart(m, s) ELSE m
        <4>1. MaxSso >= cap
          BY <1>2, <1>6, <2>3, <2>5
        <4>2. QED
          BY <2>1, <2>5, <4>1 DEF ReserveSaveSso
      <3>2. Spells(n, s, v) /\ Room(n, s, cap)
        BY <1>7, <1>8, <2>3, <2>5, <3>1
      <3>3. QED
        BY <1>5, <2>2, <3>2
    <2>6. QED
      BY <2>4, <2>5
  <1>12. QED
    BY <1>0, <1>9, <1>10, <1>11 DEF States, Counted

(* The characters are dropped, the room is there.                          *)
LEMMA ReserveDropRoom ==
  ASSUME NEW m, NEW s, Able(m, s), NEW v, m.str[s].state # "NONE", Spells(m, s, v), NEW cap \in Nat
  PROVE  Room(ReserveDrop(m, s, cap), s, cap)
  <1>0. Apt(m, s) /\ s \in Objs /\ Shape(m) /\ Housed(m) /\ Assumptions /\ Balanced(m)
    BY AbleApt DEF Apt
  <1>1. PICK n : n = ReserveDrop(m, s, cap)
    OBVIOUS
  <1>2. CASE m.str[s].state \notin Counted
    <2>1. n = NewAuto(m, s, cap)
      BY <1>1, <1>2 DEF ReserveDrop
    <2>2. QED
      BY <1>0, <1>1, <2>1, NewAutoHouses DEF Rehoused
  <1>3. CASE m.str[s].state \in Counted /\ ~Unique(m, s)
    <2>1. PICK d : d = DecRef(m, m.str[s].blk)
      OBVIOUS
    <2>2. n = NewAuto(d, s, cap)
      BY <1>1, <1>3, <2>1 DEF ReserveDrop
    <2>3. Apt(d, s)
      BY <1>3, <2>1, SharedApart
    <2>4. QED
      BY <1>1, <2>2, <2>3, NewAutoHouses DEF Rehoused
  <1>4. CASE m.str[s].state \in Counted /\ Unique(m, s) /\ BlockSize(m, s) < cap
    <2>1. PICK d : d = FreeBuffer(m, m.str[s])
      OBVIOUS
    <2>2. n = NewAuto(d, s, cap)
      BY <1>1, <1>4, <2>1 DEF ReserveDrop
    <2>3. Apt(d, s)
      <3>1. BalancedBut(d, s) /\ FreeBuffers(d) # {}
        BY <1>0, <1>4, <2>1, FreeBut
      <3>2. Confined(m, d, s)
        BY <1>0, <1>4, <2>1, UniqueOwn, FreeConfined DEF Own
      <3>3. QED
        BY <1>0, <3>1, <3>2, ButOthersInUse DEF Apt, Confined
    <2>4. QED
      BY <1>1, <2>2, <2>3, NewAutoHouses DEF Rehoused
  <1>5. CASE m.str[s].state \in Counted /\ Unique(m, s) /\ ~(BlockSize(m, s) < cap)
    <2>1. n = PointTo(m, s, 0)
      BY <1>1, <1>5 DEF ReserveDrop
    <2>2. PICK p : p = m.str[s]
      OBVIOUS
    <2>3. /\ n.mem = m.mem /\ n.str[s].blk = p.blk /\ n.str[s].off = 0 /\ n.str[s].state = p.state
      <3>1. n.mem = m.mem /\ n.str = [m.str EXCEPT ![s].off = 0]
        BY <1>0, <2>1 DEF PointTo, Shape
      <3>2. p \in StrRec
        BY <1>0, <2>2 DEF Shape
      <3>3. QED
        BY <1>0, <2>2, <3>1, <3>2 DEF Shape, StrRec
    <2>4. 0 + cap <= BlockSize(m, s)
      <3>1. BlockSize(m, s) \in Nat
        BY DEF Spells, Room, BlockSize, Sized
      <3>2. QED
        BY <1>5, <3>1
    <2>5. QED
      BY <1>1, <2>2, <2>3, <2>4 DEF Spells, Room, BlockSize
  <1>6. QED
    BY <1>2, <1>3, <1>4, <1>5

(***************************************************************************)
(* Edits.                                                                  *)
(***************************************************************************)
(* s reads as v once its length is set.                                    *)
Written(m, s, v) == Room(m, s, Len(v)) /\ Stands(m, s, 0, v, 0, Len(v))

LEMMA SetLenSpells ==
  ASSUME NEW m, NEW s \in Objs, Shape(m), NEW v, Written(m, s, v)
  PROVE  Spells(SetLen(m, s, Len(v)), s, v)
  <1>1. PICK n : n = SetLen(m, s, Len(v))
    OBVIOUS
  <1>2. PICK p : p = m.str[s]
    OBVIOUS
  <1>3. n.mem = m.mem /\ n.str = [m.str EXCEPT ![s].len = Len(v)]
    BY <1>1 DEF SetLen, Shape
  <1>4. n.str[s].blk = p.blk /\ n.str[s].off = p.off /\ n.str[s].state = p.state /\ n.str[s].len = Len(v)
    <2>1. p \in StrRec
      BY <1>2 DEF Shape
    <2>2. QED
      BY <1>2, <1>3, <2>1 DEF Shape, StrRec
  <1>5. Room(n, s, Len(v))
    BY <1>2, <1>3, <1>4 DEF Written, Room, BlockSize
  <1>6. Stands(n, s, 0, v, 0, Len(v))
    BY <1>2, <1>3, <1>4 DEF Written, Stands, Shows
  <1>7. QED
    BY <1>1, <1>4, <1>5, <1>6 DEF Spells

(* Moving the pointer of s moves what stands where.                        *)
LEMMA PointToStands ==
  ASSUME NEW m, NEW s \in Objs, Shape(m), NEW off \in Nat
  PROVE  LET n == PointTo(m, s, off) IN
         /\ Shape(n) /\ n.str[s].off = off /\ n.str[s].blk = m.str[s].blk
         /\ n.str[s].state = m.str[s].state /\ n.str[s].len = m.str[s].len /\ n.mem = m.mem
  <1>1. PICK n : n = PointTo(m, s, off)
    OBVIOUS
  <1>2. PICK p : p = m.str[s]
    OBVIOUS
  <1>3. n.mem = m.mem /\ n.str = [m.str EXCEPT ![s].off = off]
    BY <1>1 DEF PointTo, Shape
  <1>4. p \in StrRec
    BY <1>2 DEF Shape
  <1>5. n.str[s].blk = p.blk /\ n.str[s].off = off /\ n.str[s].state = p.state /\ n.str[s].len = p.len
    BY <1>2, <1>3, <1>4 DEF Shape, StrRec
  <1>6. Shape(n)
    BY <1>1, PointToShape
  <1>7. QED
    BY <1>1, <1>2, <1>3, <1>5, <1>6

(* u is v with the rem characters from pos on replaced by n of w.          *)
Spliced(u, v, pos, rem, w, from, n) ==
  /\ pos \in Nat /\ rem \in Nat /\ n \in Nat /\ Len(v) \in Nat /\ Len(u) \in Nat
  /\ pos + rem <= Len(v) /\ Len(u) = (Len(v) - rem) + n
  /\ \A i \in 1..pos : u[i] = v[i]
  /\ \A i \in 1..n : u[pos + i] = w[from + i]
  /\ \A i \in 1..(Len(v) - (pos + rem)) : u[(pos + n) + i] = v[(pos + rem) + i]

LEMMA PartsStand ==
  ASSUME NEW m, NEW s, NEW u, NEW v, NEW pos, NEW rem, NEW w, NEW from, NEW n,
         Spliced(u, v, pos, rem, w, from, n), Room(m, s, Len(u)),
         Stands(m, s, 0, v, 0, pos), Stands(m, s, pos, w, from, n),
         Stands(m, s, pos + n, v, pos + rem, Len(v) - (pos + rem))
  PROVE  Written(m, s, u)
  <1>1. PICK d : d = m.mem[m.str[s].blk]
    OBVIOUS
  <1>2. PICK o : o = m.str[s].off
    OBVIOUS
  <1>3. o \in Nat /\ Sized(d) /\ o + Len(u) <= Len(d)
    BY <1>1, <1>2 DEF Room, BlockSize
  <1>4. PICK vl : vl = Len(v)
    OBVIOUS
  <1>5. PICK ul : ul = Len(u)
    OBVIOUS
  <1>6. /\ pos \in Nat /\ rem \in Nat /\ n \in Nat /\ vl \in Nat /\ ul \in Nat
        /\ pos + rem <= vl /\ ul = (vl - rem) + n
    BY <1>4, <1>5 DEF Spliced
  <1>7. ASSUME NEW i \in 1..pos
        PROVE  d[o + i] = v[i]
    <2>1. d[(o + 0) + i] = v[0 + i]
      BY <1>1, <1>2 DEF Stands, Shows
    <2>2. (o + 0) + i = o + i /\ 0 + i = i
      BY <1>3, <1>6
    <2>3. QED
      BY <2>1, <2>2
  <1>8. \A i \in 1..n : d[o + pos + i] = w[from + i]
    BY <1>1, <1>2, <1>3, <1>6 DEF Stands, Shows
  <1>9. \A i \in 1..(vl - (pos + rem)) : d[o + (pos + n) + i] = v[(pos + rem) + i]
    BY <1>1, <1>2, <1>3, <1>4, <1>6 DEF Stands, Shows
  <1>10. ASSUME NEW i \in 1..ul
         PROVE  d[(o + 0) + i] = u[0 + i]
    <2>0. (o + 0) + i = o + i /\ 0 + i = i /\ i \in Nat
      BY <1>3, <1>6
    <2>1. CASE i \in 1..pos
      BY <2>0, <2>1, <1>7 DEF Spliced
    <2>2. CASE i - pos \in 1..n
      <3>1. PICK j \in 1..n : i = pos + j
        BY <1>6, <2>0, <2>2
      <3>2. u[pos + j] = w[from + j]
        BY DEF Spliced
      <3>3. o + pos + j = o + i
        BY <1>3, <1>6, <3>1
      <3>4. QED
        BY <1>8, <2>0, <3>1, <3>2, <3>3
    <2>3. CASE i - (pos + n) \in 1..(vl - (pos + rem))
      <3>1. PICK j \in 1..(vl - (pos + rem)) : i = (pos + n) + j
        BY <1>6, <2>0, <2>3
      <3>2. u[(pos + n) + j] = v[(pos + rem) + j]
        BY <1>4 DEF Spliced
      <3>3. o + (pos + n) + j = o + i
        BY <1>3, <1>6, <3>1
      <3>4. QED
        BY <1>9, <2>0, <3>1, <3>2, <3>3
    <2>4. i \in 1..pos \/ i - pos \in 1..n \/ i - (pos + n) \in 1..(vl - (pos + rem))
      BY <1>6
    <2>5. QED
      BY <2>1, <2>2, <2>3, <2>4
  <1>11. Stands(m, s, 0, u, 0, Len(u))
    <2>1. (o + 0) \in Nat /\ (o + 0) + ul <= Len(d)
      BY <1>3, <1>5, <1>6
    <2>2. QED
      BY <1>1, <1>2, <1>3, <1>5, <1>6, <1>10, <2>1 DEF Stands, Shows
  <1>12. QED
    BY <1>11 DEF Written

LEMMA NothingStands ==
  ASSUME NEW m, NEW s, NEW c, Room(m, s, c), NEW pos \in Nat, pos <= c, NEW v, NEW from
  PROVE  Stands(m, s, pos, v, from, 0)
  <1>1. PICK o \in Nat : o = m.str[s].off
    BY DEF Room
  <1>2. PICK b \in Nat : b = Len(m.mem[m.str[s].blk])
    BY DEF Room, Sized
  <1>3. o + c <= b /\ c \in Nat
    BY <1>1, <1>2 DEF Room, BlockSize
  <1>4. o + pos \in Nat /\ (o + pos) + 0 <= b
    BY <1>3
  <1>5. QED
    BY <1>1, <1>2, <1>4 DEF Stands, Shows, Room

(* A part of what s reads as.                                              *)
LEMMA PartStands ==
  ASSUME NEW m, NEW s, NEW v, Spells(m, s, v), NEW pos \in Nat, NEW n \in Nat, pos + n <= Len(v)
  PROVE  Stands(m, s, pos, v, pos, n)
  <1>1. PICK o \in Nat : o = m.str[s].off
    BY SpellsTyped
  <1>2. Shows(m, m.str[s].blk, o, v, 0, Len(v))
    BY <1>1, SpellsTyped
  <1>3. Shows(m, m.str[s].blk, o + pos, v, 0 + pos, n)
    BY <1>2, ShowsPart
  <1>4. QED
    BY <1>1, <1>3 DEF Stands

LEMMA SplicedNumbers ==
  ASSUME NEW u, NEW v, NEW pos, NEW rem, NEW w, NEW from, NEW n, Spliced(u, v, pos, rem, w, from, n)
  PROVE  /\ pos \in Nat /\ rem \in Nat /\ n \in Nat /\ Len(v) \in Nat /\ Len(u) \in Nat
         /\ pos + rem \in Nat /\ pos + rem <= Len(v) /\ pos <= Len(v)
         /\ Len(v) - (pos + rem) \in Nat /\ (pos + rem) + (Len(v) - (pos + rem)) = Len(v)
         /\ pos + n \in Nat /\ Len(u) = (pos + n) + (Len(v) - (pos + rem))
         /\ pos <= Len(u) /\ pos + n <= Len(u)
  BY DEF Spliced

(* The middle is written between a front and a back that stand already.    *)
LEMMA PatchedWritten ==
  ASSUME NEW m, NEW r, NEW s, NEW u, NEW v, NEW pos, NEW rem, NEW w, NEW from, NEW n,
         Spliced(u, v, pos, rem, w, from, n), Room(m, s, Len(u)),
         Stands(m, s, 0, v, 0, pos), Stands(m, s, pos + n, v, pos + rem, Len(v) - (pos + rem)),
         Patched(m, r, m.str[s].blk, m.str[s].off + pos, n), Stands(r, s, pos, w, from, n)
  PROVE  Written(r, s, u)
  <1>1. PICK l : l = Len(v) - (pos + rem)
    OBVIOUS
  <1>2. pos \in Nat /\ n \in Nat /\ l \in Nat /\ pos + n \in Nat /\ m.str[s].off \in Nat
    BY <1>1, SplicedNumbers DEF Room
  <1>3. 0 + pos <= pos /\ pos + n <= pos + n
    BY <1>2
  <1>4. Stands(r, s, 0, v, 0, pos)
    BY <1>2, <1>3, PatchStands
  <1>5. Stands(r, s, pos + n, v, pos + rem, l)
    BY <1>1, <1>2, <1>3, PatchStands
  <1>6. Room(r, s, Len(u))
    BY PatchRoom
  <1>7. QED
    BY <1>1, <1>4, <1>5, <1>6, PartsStand

(* Nothing replaced by nothing.                                            *)
LEMMA SameSpells ==
  ASSUME NEW m, NEW s, NEW v, Spells(m, s, v), NEW u, NEW pos, NEW w, NEW from,
         Spliced(u, v, pos, 0, w, from, 0)
  PROVE  Spells(m, s, u)
  <1>1. /\ pos \in Nat /\ Len(v) \in Nat /\ pos <= Len(v) /\ Len(u) = Len(v)
        /\ pos + 0 = pos /\ Len(v) - (pos + 0) \in Nat /\ 0 + pos <= Len(v)
        /\ (pos + 0) + (Len(v) - (pos + 0)) <= Len(v) /\ pos + 0 \in Nat
    <2>1. /\ pos \in Nat /\ Len(v) \in Nat /\ pos <= Len(v) /\ Len(u) \in Nat
          /\ Len(u) = (pos + 0) + (Len(v) - (pos + 0))
      BY SplicedNumbers
    <2>2. QED
      BY <2>1
  <1>2. Room(m, s, Len(v)) /\ m.str[s].len = Len(v)
    BY DEF Spells
  <1>3. Stands(m, s, 0, v, 0, pos)
    BY <1>1, PartStands
  <1>4. Stands(m, s, pos + 0, v, pos + 0, Len(v) - (pos + 0))
    BY <1>1, PartStands
  <1>5. Stands(m, s, pos, w, from, 0)
    BY <1>1, <1>2, NothingStands
  <1>6. Written(m, s, u)
    BY <1>1, <1>2, <1>3, <1>4, <1>5, PartsStand
  <1>7. QED
    BY <1>1, <1>2, <1>6 DEF Written, Spells

(* What is written behind the end.                                         *)
LEMMA PatchedBehind ==
  ASSUME NEW m, NEW r, NEW s \in Objs, Shape(r), NEW v, Spells(m, s, v), NEW u, NEW w, NEW from, NEW n,
         Spliced(u, v, Len(v), 0, w, from, n), Room(m, s, Len(v) + n),
         Patched(m, r, m.str[s].blk, m.str[s].off + Len(v), n), Stands(r, s, Len(v), w, from, n)
  PROVE  Spells(SetLen(r, s, Len(v) + n), s, u)
  <1>1. PICK l : l = Len(v)
    OBVIOUS
  <1>2. /\ l \in Nat /\ n \in Nat /\ l + 0 = l /\ l - (l + 0) = 0 /\ Len(u) = l + n
        /\ l + n \in Nat /\ l <= l + n /\ 0 + l <= l
    <2>1. l \in Nat /\ n \in Nat /\ Len(u) = (l + n) + (l - (l + 0))
      BY <1>1, SplicedNumbers
    <2>2. QED
      BY <2>1
  <1>3. Stands(m, s, 0, v, 0, l)
    BY <1>1, <1>2, PartStands
  <1>4. Stands(m, s, l + n, v, l + 0, l - (l + 0))
    BY <1>1, <1>2, NothingStands
  <1>5. Written(r, s, u)
    BY <1>1, <1>2, <1>3, <1>4, PatchedWritten
  <1>6. QED
    BY <1>1, <1>2, <1>5, SetLenSpells

LEMMA CopiedBehind ==
  ASSUME NEW m, NEW s \in Objs, Shape(m), NEW v, Spells(m, s, v), NEW p, NEW w, NEW from,
         Shows(m, p.blk, p.off, w, from, p.len), Room(m, s, Len(v) + p.len),
         NEW u, Spliced(u, v, Len(v), 0, w, from, p.len)
  PROVE  Spells(SetLen(Put(m, s, Len(v), Read(m, p)), s, Len(v) + p.len), s, u)
  <1>1. PICK l \in Nat : l = Len(v)
    BY SpellsTyped
  <1>2. PICK r : r = Put(m, s, l, Read(m, p))
    OBVIOUS
  <1>3. l + p.len <= l + p.len
    BY <1>1 DEF Shows
  <1>4. /\ Patched(m, r, m.str[s].blk, m.str[s].off + l, p.len) /\ Shape(r)
        /\ Stands(r, s, l, w, from, p.len)
    BY <1>1, <1>2, <1>3, CopyStands
  <1>5. QED
    BY <1>1, <1>2, <1>4, PatchedBehind

(* The characters p points at are none of those a call on s may write.     *)
Source(m, s, p, w, from) == p.blk \in Foreign(m, s) /\ Shows(m, p.blk, p.off, w, from, p.len)

LEMMA SourceStays ==
  ASSUME NEW m, NEW n, NEW s, Confined(m, n, s), NEW p, NEW w, NEW from, Source(m, s, p, w, from)
  PROVE  Source(n, s, p, w, from)
  BY ForeignStays DEF Source, Confined, Shows

LEMMA AppendCharsSpells ==
  ASSUME NEW m, NEW s, Able(m, s), m.str[s].state # "NONE", NEW v, Spells(m, s, v),
         NEW p, NEW w, NEW from, Source(m, s, p, w, from),
         NEW u, Spliced(u, v, Len(v), 0, w, from, p.len)
  PROVE  Spells(AppendChars(m, s, p), s, u)
  <1>1. s \in Objs /\ Len(v) \in Nat /\ m.str[s].len = Len(v) /\ p.len \in Nat
    BY AbleApt, SpellsTyped DEF Source, Shows
  <1>2. CASE p.len = 0
    BY <1>2, SameSpells DEF AppendChars
  <1>3. CASE p.len # 0
    <2>1. PICK m1 : m1 = ReserveSave(m, s, Len(v) + p.len, "grow")
      OBVIOUS
    <2>2. Fine(Len(v), "grow") /\ Fine(Len(v) + p.len, "grow")
      BY <1>1 DEF Fine
    <2>3. Spells(m1, s, v) /\ Room(m1, s, Len(v) + p.len)
      BY <2>1, <2>2, ReserveSaveSpells
    <2>4. Confined(m, m1, s)
      BY <2>1, ReserveSaveGranted DEF Granted
    <2>5. Shape(m1) /\ Shows(m1, p.blk, p.off, w, from, p.len)
      BY <2>4, SourceStays DEF Source, Confined
    <2>6. Spells(SetLen(Put(m1, s, Len(v), Read(m1, p)), s, Len(v) + p.len), s, u)
      BY <1>1, <2>3, <2>5, CopiedBehind
    <2>7. QED
      BY <1>1, <1>3, <2>1, <2>6 DEF AppendChars
  <1>4. QED
    BY <1>2, <1>3

(* Any part of another string or of a literal is a source.                 *)
LEMMA OtherSource ==
  ASSUME NEW m, NEW s, NEW t \in Objs, Shape(m), Housed(m), s # t, m.str[t].state # "NONE",
         NEW w, Spells(m, t, w), NEW pos \in Nat, NEW n \in Nat, pos + n <= Len(w)
  PROVE  Source(m, s, [blk |-> m.str[t].blk, off |-> m.str[t].off + pos, len |-> n], w, pos)
  <1>1. m.str[t].blk \in Foreign(m, s)
    BY ReadsOwn DEF Foreign
  <1>2. PICK p : p = [blk |-> m.str[t].blk, off |-> m.str[t].off + pos, len |-> n]
    OBVIOUS
  <1>3. p.blk = m.str[t].blk /\ p.off = m.str[t].off + pos /\ p.len = n
    BY <1>2
  <1>4. Shows(m, p.blk, p.off, w, pos, n)
    BY <1>3, PartStands DEF Stands
  <1>5. QED
    BY <1>1, <1>2, <1>3, <1>4 DEF Source

LEMMA TextSource ==
  ASSUME NEW m, NEW s, NEW l \in Literals, LitText[l] \in Seq(Chars), m.mem[l] = Append(LitText[l], NUL)
  PROVE  Source(m, s, Text(l), LitText[l], 0)
  <1>1. PICK w \in Seq(Chars) : w = LitText[l]
    OBVIOUS
  <1>2. PICK d : d = Append(w, NUL)
    OBVIOUS
  <1>3. Len(w) \in Nat /\ Len(d) = Len(w) + 1 /\ DOMAIN d = 1..Len(d) /\ \A i \in 1..Len(w) : d[i] = w[i]
    BY <1>2
  <1>4. PICK p : p = Text(l)
    OBVIOUS
  <1>5. p.blk = l /\ p.off = 0 /\ p.len = Len(w)
    BY <1>1, <1>4 DEF Text
  <1>6. Shows(m, p.blk, p.off, w, 0, p.len)
    <2>1. m.mem[l] = d /\ Sized(d)
      BY <1>1, <1>2, <1>3 DEF Sized
    <2>2. 0 + p.len <= Len(d) /\ 0 \in Nat /\ p.len \in Nat
      BY <1>3, <1>5
    <2>3. \A i \in 1..p.len : 0 + i = i
      BY <2>2
    <2>4. QED
      BY <1>3, <1>5, <2>1, <2>2, <2>3 DEF Shows
  <1>7. QED
    BY <1>1, <1>4, <1>5, <1>6 DEF Source, Foreign

LEMMA SliceWithin ==
  ASSUME NEW p, p.len \in Nat, NEW pos \in Nat, pos <= p.len, NEW n \in Nat
  PROVE  Slice(p, pos, n).len \in Nat /\ pos + Slice(p, pos, n).len <= p.len
  BY DEF Slice

(* The argument of append may be the string itself, read after the move.   *)
LEMMA AppendStringSpells ==
  ASSUME NEW m, NEW s, Able(m, s), m.str[s].state # "NONE", NEW v, Spells(m, s, v),
         NEW t \in Objs, m.str[t].state # "NONE", NEW w, Spells(m, t, w),
         NEW pos \in Nat, pos <= m.str[t].len, NEW n \in Nat,
         NEW u, Spliced(u, v, Len(v), 0, w, pos, Slice(m.str[t], pos, n).len)
  PROVE  Spells(AppendString(m, s, t, pos, n), s, u)
  <1>1. /\ s \in Objs /\ Shape(m) /\ Housed(m) /\ Len(v) \in Nat /\ m.str[s].len = Len(v)
        /\ m.str[t].len \in Nat /\ m.str[t].len = Len(w) /\ Len(w) \in Nat
    BY AbleApt, SpellsTyped
  <1>2. PICK cnt : cnt = Slice(m.str[t], pos, n).len
    OBVIOUS
  <1>3. cnt \in Nat /\ pos + cnt <= Len(w)
    BY <1>1, <1>2, SliceWithin
  <1>4. CASE cnt = 0
    BY <1>2, <1>4, SameSpells DEF AppendString
  <1>5. CASE cnt # 0
    <2>1. PICK m1 : m1 = ReserveSave(m, s, Len(v) + cnt, "grow")
      OBVIOUS
    <2>2. Fine(Len(v), "grow") /\ Fine(Len(w), "grow") /\ Fine(Len(v) + cnt, "grow")
      BY <1>1, <1>3 DEF Fine
    <2>3. Spells(m1, s, v) /\ Room(m1, s, Len(v) + cnt)
      BY <2>1, <2>2, ReserveSaveSpells
    <2>4. Confined(m, m1, s) /\ Shape(m1)
      BY <2>1, ReserveSaveGranted DEF Granted, Confined
    <2>5. PICK p : p = [m1.str[t] EXCEPT !.off = @ + pos, !.len = cnt]
      OBVIOUS
    <2>6. p.blk = m1.str[t].blk /\ p.off = m1.str[t].off + pos /\ p.len = cnt
      <3>1. m1.str[t] \in StrRec
        BY <2>4 DEF Shape
      <3>2. QED
        BY <2>5, <3>1 DEF StrRec
    <2>7. Shows(m1, p.blk, p.off, w, pos, p.len)
      <3>1. CASE s = t
        <4>1. Spells(m1, t, w)
          BY <2>1, <2>2, <3>1, ReserveSaveSpells
        <4>2. Stands(m1, t, pos, w, pos, cnt)
          BY <1>3, <4>1, PartStands
        <4>3. QED
          BY <2>6, <4>2 DEF Stands
      <3>2. CASE s # t
        <4>1. PICK q : q = [blk |-> m.str[t].blk, off |-> m.str[t].off + pos, len |-> cnt]
          OBVIOUS
        <4>2. Source(m, s, q, w, pos)
          BY <1>1, <1>3, <3>2, <4>1, OtherSource
        <4>3. Source(m1, s, q, w, pos)
          BY <2>4, <4>2, SourceStays
        <4>4. m1.str[t] = m.str[t]
          BY <2>4, <3>2 DEF Confined
        <4>5. p.blk = q.blk /\ p.off = q.off /\ p.len = q.len
          BY <2>6, <4>1, <4>4
        <4>6. QED
          BY <4>3, <4>5 DEF Source
      <3>3. QED
        BY <3>1, <3>2
    <2>8. Spells(SetLen(Put(m1, s, Len(v), Read(m1, p)), s, Len(v) + p.len), s, u)
      BY <1>1, <1>2, <2>3, <2>4, <2>6, <2>7, CopiedBehind
    <2>9. AppendString(m, s, t, pos, n) = SetLen(Put(m1, s, Len(v), Read(m1, p)), s, Len(v) + cnt)
      BY <1>1, <1>2, <1>5, <2>1, <2>5 DEF AppendString
    <2>10. QED
      BY <2>6, <2>8, <2>9
  <1>6. QED
    BY <1>4, <1>5

LEMMA ResizeUpSpells ==
  ASSUME NEW m, NEW s, Able(m, s), m.str[s].state # "NONE", NEW v, Spells(m, s, v),
         NEW l, Len(LitText[l]) \in Nat, Fine(Len(v) + Len(LitText[l]), "exact"),
         NEW u, Spliced(u, v, Len(v), 0, LitText[l], 0, Len(LitText[l]))
  PROVE  Spells(ResizeUp(m, s, l), s, u)
  <1>1. s \in Objs /\ Len(v) \in Nat /\ m.str[s].len = Len(v)
    BY AbleApt, SpellsTyped
  <1>2. PICK w : w = LitText[l]
    OBVIOUS
  <1>3. PICK m1 : m1 = ReserveSave(m, s, Len(v) + Len(w), "exact")
    OBVIOUS
  <1>4. Fine(Len(v), "exact")
    BY <1>1, <1>2 DEF Fine
  <1>5. Spells(m1, s, v) /\ Room(m1, s, Len(v) + Len(w))
    BY <1>2, <1>3, <1>4, ReserveSaveSpells
  <1>6. Shape(m1)
    BY <1>3, ReserveSaveGranted DEF Granted, Confined
  <1>7. PICK r : r = Put(m1, s, Len(v), w)
    OBVIOUS
  <1>8. Len(v) + Len(w) <= Len(v) + Len(w)
    BY <1>1, <1>2
  <1>9. /\ Patched(m1, r, m1.str[s].blk, m1.str[s].off + Len(v), Len(w)) /\ Shape(r)
        /\ Stands(r, s, Len(v), w, 0, Len(w))
    BY <1>1, <1>2, <1>5, <1>6, <1>7, <1>8, PutStands
  <1>10. Spells(SetLen(r, s, Len(v) + Len(w)), s, u)
    BY <1>1, <1>2, <1>5, <1>9, PatchedBehind
  <1>11. QED
    BY <1>1, <1>2, <1>3, <1>7, <1>10 DEF ResizeUp

(* One character, or any number of them, over as many.                     *)
LEMMA OverwriteSpells ==
  ASSUME NEW m, NEW s \in Objs, Shape(m), NEW v, Spells(m, s, v), NEW pos, NEW w, Len(w) \in Nat,
         NEW u, Spliced(u, v, pos, Len(w), w, 0, Len(w))
  PROVE  Spells(Put(m, s, pos, w), s, u)
  <1>1. PICK n : n = Len(w)
    OBVIOUS
  <1>2. PICK vl : vl = Len(v)
    OBVIOUS
  <1>3. /\ pos \in Nat /\ n \in Nat /\ vl \in Nat /\ pos + n <= vl /\ Len(u) = vl
        /\ 0 + pos <= vl /\ vl - (pos + n) \in Nat /\ (pos + n) + (vl - (pos + n)) <= vl /\ pos + n \in Nat
    <2>1. /\ pos \in Nat /\ n \in Nat /\ vl \in Nat /\ pos + n <= vl /\ Len(u) = (pos + n) + (vl - (pos + n))
          /\ (pos + n) + (vl - (pos + n)) = vl /\ pos <= vl
      BY <1>1, <1>2, SplicedNumbers
    <2>2. QED
      BY <2>1
  <1>4. PICK r : r = Put(m, s, pos, w)
    OBVIOUS
  <1>5. Room(m, s, vl) /\ m.str[s].len = vl
    BY <1>2 DEF Spells
  <1>6. /\ Patched(m, r, m.str[s].blk, m.str[s].off + pos, n)
        /\ Stands(r, s, pos, w, 0, n)
    BY <1>1, <1>3, <1>4, <1>5, PutStands
  <1>7. Stands(m, s, 0, v, 0, pos) /\ Stands(m, s, pos + n, v, pos + n, vl - (pos + n))
    BY <1>2, <1>3, PartStands
  <1>8. Room(m, s, Len(u))
    BY <1>3, <1>5
  <1>9. Written(r, s, u)
    BY <1>1, <1>2, <1>6, <1>7, <1>8, PatchedWritten
  <1>10. r.str[s].len = Len(u)
    BY <1>3, <1>5, <1>6 DEF Patched
  <1>11. QED
    BY <1>4, <1>9, <1>10 DEF Spells, Written

LEMMA WriteSpells ==
  ASSUME NEW m, NEW s, Able(m, s), m.str[s].state # "NONE", NEW v, Spells(m, s, v),
         NEW pos, NEW w, Len(w) \in Nat, NEW u, Spliced(u, v, pos, Len(w), w, 0, Len(w))
  PROVE  Spells(Put(Detach(m, s), s, pos, w), s, u)
  <1>1. PICK n : n = Detach(m, s)
    OBVIOUS
  <1>2. Spells(n, s, v)
    BY <1>1, DetachSpells
  <1>3. Shape(n) /\ s \in Objs
    BY <1>1, DetachGranted, AbleApt DEF Granted, Confined
  <1>4. QED
    BY <1>1, <1>2, <1>3, OverwriteSpells

(* length(n) for n up to the length.                                       *)
LEMMA TruncateSpells ==
  ASSUME NEW m, NEW s \in Objs, Shape(m), NEW v, Spells(m, s, v), NEW pos, NEW rem, NEW w, NEW from,
         NEW u, Spliced(u, v, pos, rem, w, from, 0), pos + rem = Len(v)
  PROVE  Spells(SetLen(m, s, pos), s, u)
  <1>1. PICK vl : vl = Len(v)
    OBVIOUS
  <1>2. /\ pos \in Nat /\ vl \in Nat /\ pos <= vl /\ Len(u) = pos /\ 0 + pos <= vl
        /\ vl - (pos + rem) = 0 /\ pos + 0 = pos /\ pos <= pos
    <2>1. /\ pos \in Nat /\ rem \in Nat /\ vl \in Nat /\ Len(u) = (pos + 0) + (vl - (pos + rem))
          /\ pos + rem = vl
      BY <1>1, SplicedNumbers
    <2>2. QED
      BY <2>1
  <1>3. Room(m, s, pos)
    BY <1>1, <1>2, RoomLess DEF Spells
  <1>4. Stands(m, s, 0, v, 0, pos)
    BY <1>1, <1>2, PartStands
  <1>5. Stands(m, s, pos, w, from, 0) /\ Stands(m, s, pos + 0, v, pos + rem, vl - (pos + rem))
    BY <1>2, <1>3, NothingStands
  <1>6. Written(m, s, u)
    BY <1>1, <1>2, <1>3, <1>4, <1>5, PartsStand
  <1>7. QED
    BY <1>2, <1>6, SetLenSpells

(* c_str(): a NUL behind the text, which stays.                            *)
LEMMA CStrSpells ==
  ASSUME NEW m, NEW s, Able(m, s), m.str[s].state # "NONE", NEW v, Spells(m, s, v),
         Fine(Len(v) + 1, "exact")
  PROVE  LET n == CStr(m, s) IN
         /\ Spells(n, s, v)
         /\ m.str[s].state # "LITERAL" => Cell(n, n.str[s].blk, n.str[s].off + n.str[s].len + 1) = NUL
  <1>1. s \in Objs /\ Shape(m) /\ Len(v) \in Nat /\ m.str[s].len = Len(v) /\ Room(m, s, Len(v))
        /\ m.str[s].state \in States
    BY AbleApt, SpellsTyped DEF Shape, StrRec
  <1>2. CASE m.str[s].state = "LITERAL"
    BY <1>2 DEF CStr
  <1>3. CASE m.str[s].state # "LITERAL"
    <2>1. PICK l \in Nat : l = Len(v)
      BY <1>1
    <2>2. PICK m1 : m1 = IF Capacity(m, s) <= l THEN ReserveSave(m, s, l + 1, "exact") ELSE m
      OBVIOUS
    <2>3. Spells(m1, s, v) /\ Room(m1, s, l + 1) /\ Shape(m1)
      <3>1. CASE Capacity(m, s) <= l
        <4>1. Fine(l, "exact") /\ Fine(l + 1, "exact")
          BY <2>1 DEF Fine
        <4>2. m1 = ReserveSave(m, s, l + 1, "exact")
          BY <2>2, <3>1
        <4>3. Spells(m1, s, v) /\ Room(m1, s, l + 1)
          BY <2>1, <4>1, <4>2, ReserveSaveSpells
        <4>4. Shape(m1)
          BY <4>2, ReserveSaveGranted DEF Granted, Confined
        <4>5. QED
          BY <4>3, <4>4
      <3>2. CASE ~(Capacity(m, s) <= l)
        <4>1. m1 = m
          BY <2>2, <3>2
        <4>2. Capacity(m, s) = CapacityTail(m, s)
          <5>1. Capacity(m, s) # 0
            BY <2>1, <3>2
          <5>2. m.str[s].state \in Counted \/ m.str[s].state = "SSO"
            BY <1>1, <1>3 DEF States
          <5>3. CASE m.str[s].state \in Counted
            BY <5>1, <5>3 DEF Capacity, Counted
          <5>4. CASE m.str[s].state = "SSO"
            BY <5>4 DEF Capacity, Counted
          <5>5. QED
            BY <5>2, <5>3, <5>4
        <4>3. ~(CapacityTail(m, s) < l + 1)
          <5>1. PICK b \in Nat : b = BlockSize(m, s)
            BY <1>1 DEF Room, BlockSize, Sized
          <5>2. PICK o \in Nat : o = m.str[s].off
            BY <1>1 DEF Room
          <5>3. CapacityTail(m, s) = b - o
            BY <5>1, <5>2 DEF CapacityTail
          <5>4. ~(b - o <= l)
            BY <3>2, <4>2, <5>3
          <5>5. ~(b - o < l + 1)
            BY <5>4
          <5>6. QED
            BY <5>3, <5>5
        <4>4. Room(m, s, l + 1)
          BY <1>1, <2>1, <4>3, TailRoom
        <4>5. QED
          BY <1>1, <4>1, <4>4
      <3>3. QED
        BY <3>1, <3>2
    <2>4. PICK w : w = <<NUL>>
      OBVIOUS
    <2>5. Len(w) = 1 /\ w[1] = NUL /\ Len(w) \in Nat /\ l + Len(w) <= l + 1
      BY <2>1, <2>4
    <2>6. PICK n : n = Put(m1, s, l, w)
      OBVIOUS
    <2>7. /\ Patched(m1, n, m1.str[s].blk, m1.str[s].off + l, 1) /\ Shape(n)
          /\ Room(n, s, l + 1) /\ Stands(n, s, l, w, 0, 1)
      BY <2>1, <2>3, <2>5, <2>6, PutStands
    <2>8. n = CStr(m, s)
      BY <1>1, <1>3, <2>1, <2>2, <2>4, <2>6 DEF CStr
    <2>9. n.str[s] = m1.str[s] /\ m1.str[s].len = l
      BY <2>1, <2>3, <2>7 DEF Patched, Spells
    <2>10. Spells(n, s, v)
      <3>1. l <= l + 1 /\ 0 + l <= l
        BY <2>1
      <3>2. Room(n, s, Len(v))
        BY <2>1, <2>7, <3>1, RoomLess
      <3>3. Stands(m1, s, 0, v, 0, l) /\ m1.str[s].off \in Nat
        BY <2>1, <2>3 DEF Spells, Room
      <3>4. Stands(n, s, 0, v, 0, l)
        BY <2>1, <2>7, <3>1, <3>3, PatchStands
      <3>5. QED
        BY <2>1, <2>9, <3>2, <3>4 DEF Spells
    <2>11. Cell(n, n.str[s].blk, n.str[s].off + n.str[s].len + 1) = NUL
      <3>1. PICK d : d = n.mem[n.str[s].blk]
        OBVIOUS
      <3>2. PICK o \in Nat : o = n.str[s].off
        BY <2>7 DEF Room
      <3>3. Sized(d) /\ (o + l) + 1 <= Len(d) /\ d[(o + l) + 1] = w[0 + 1]
        BY <2>7, <3>1, <3>2 DEF Stands, Shows
      <3>4. (o + l) + 1 \in DOMAIN d
        <4>1. Len(d) \in Nat /\ DOMAIN d = 1..Len(d)
          BY <3>3 DEF Sized
        <4>2. QED
          BY <2>1, <3>2, <3>3, <4>1
      <3>5. n.str[s].off + n.str[s].len + 1 = (o + l) + 1
        BY <2>1, <2>9, <3>2
      <3>6. QED
        BY <2>5, <3>1, <3>3, <3>4, <3>5 DEF Cell
    <2>12. QED
      BY <2>8, <2>10, <2>11
  <1>4. QED
    BY <1>2, <1>3

LEMMA ReleaseAlike ==
  ASSUME NEW m, NEW s, Shape(m), NEW p, p.blk # m.str[s].blk, m.str[s].blk \in DOMAIN m.mem
  PROVE  Alike(m, ReleaseBuffer(m, p), s)
  <1>1. PICK d : d = DecRef(m, p.blk)
    OBVIOUS
  <1>2. d.str = m.str /\ d.mem = m.mem
        /\ d = [str |-> d.str, mem |-> d.mem, ctl |-> d.ctl, held |-> d.held]
    BY <1>1 DEF DecRef, Shape
  <1>3. PICK f : f = FreeBuffer(d, p)
    OBVIOUS
  <1>4. f.str = d.str /\ f.mem = [d.mem EXCEPT ![p.blk] = <<>>]
    BY <1>2, <1>3 DEF FreeBuffer, CallDtor
  <1>5. ReleaseBuffer(m, p) = f \/ ReleaseBuffer(m, p) = d
    BY <1>1, <1>3 DEF ReleaseBuffer
  <1>6. QED
    BY <1>2, <1>4, <1>5 DEF Alike

LEMMA ShrinkSpells ==
  ASSUME NEW m, NEW s, Able(m, s), NEW v, Spells(m, s, v)
  PROVE  Spells(ShrinkToFit(m, s), s, v)
  <1>1. /\ Apt(m, s) /\ s \in Objs /\ Shape(m) /\ Len(v) \in Nat /\ m.str[s].len = Len(v)
        /\ Len(v) <= m.str[s].len
    BY AbleApt, SpellsTyped
  <1>2. PICK p : p = m.str[s]
    OBVIOUS
  <1>3. CASE p.state \in Counted
    <2>1. PICK n : n = DetachStr(m, s, p.len)
      OBVIOUS
    <2>2. Spells(n, s, v) /\ n.str[s].blk # p.blk
      BY <1>1, <1>2, <1>3, <2>1, CountedApart, DetachStrSpells
    <2>3. Shape(n)
      BY <1>1, <2>1, DetachStrRehomes DEF Apt, Rehomed
    <2>4. n.str[s].blk \in DOMAIN n.mem
      BY <2>2 DEF Spells, Room
    <2>5. Spells(ReleaseBuffer(n, p), s, v)
      BY <2>2, <2>3, <2>4, ReleaseAlike, AlikeSpells
    <2>6. Unique(m, s) => Spells(Realloc(m, s, p.len), s, v)
      BY <1>1, <1>2, <1>3, ReallocSpells
    <2>7. QED
      BY <1>2, <2>1, <2>5, <2>6 DEF ShrinkToFit
  <1>4. CASE p.state \notin Counted
    BY <1>2, <1>4 DEF ShrinkToFit
  <1>5. QED
    BY <1>3, <1>4

(***************************************************************************)
(* Construction and assignment.                                            *)
(***************************************************************************)
LEMMA FillSpells ==
  ASSUME NEW m, NEW s \in Objs, Shape(m), NEW w, Len(w) \in Nat, Room(m, s, Len(w))
  PROVE  LET r == Put(m, s, 0, w) IN Shape(r) /\ r.str = m.str /\ Written(r, s, w)
  <1>1. PICK r : r = Put(m, s, 0, w)
    OBVIOUS
  <1>2. 0 + Len(w) <= Len(w)
    OBVIOUS
  <1>3. /\ Patched(m, r, m.str[s].blk, m.str[s].off + 0, Len(w)) /\ Shape(r)
        /\ Room(r, s, Len(w)) /\ Stands(r, s, 0, w, 0, Len(w))
    BY <1>1, <1>2, PutStands
  <1>4. QED
    BY <1>1, <1>3 DEF Written, Patched

LEMMA AssignCharsSpells ==
  ASSUME NEW m, NEW s, Able(m, s), NEW v, m.str[s].state # "NONE", Spells(m, s, v),
         NEW l, Len(LitText[l]) \in Nat
  PROVE  Spells(AssignChars(m, s, l), s, LitText[l])
  <1>1. PICK w : w = LitText[l]
    OBVIOUS
  <1>2. PICK m1 : m1 = ReserveDrop(m, s, Len(w))
    OBVIOUS
  <1>3. Room(m1, s, Len(w)) /\ Shape(m1) /\ s \in Objs
    <2>1. Room(m1, s, Len(w))
      BY <1>1, <1>2, ReserveDropRoom
    <2>2. Shape(m1) /\ s \in Objs
      BY <1>2, ReserveDropGranted, AbleApt DEF Granted, Confined
    <2>3. QED
      BY <2>1, <2>2
  <1>4. PICK r : r = Put(m1, s, 0, w)
    OBVIOUS
  <1>5. Shape(r) /\ Written(r, s, w)
    BY <1>1, <1>3, <1>4, FillSpells
  <1>6. Spells(SetLen(r, s, Len(w)), s, w)
    BY <1>3, <1>5, SetLenSpells
  <1>7. QED
    BY <1>1, <1>2, <1>4, <1>6 DEF AssignChars

LEMMA SetLenKeeps ==
  ASSUME NEW m, NEW s \in Objs, Shape(m), NEW len \in Nat, NEW c, Room(m, s, c)
  PROVE  LET n == SetLen(m, s, len) IN Shape(n) /\ Room(n, s, c) /\ n.str[s].len = len
  <1>1. PICK n : n = SetLen(m, s, len)
    OBVIOUS
  <1>2. PICK p : p = m.str[s]
    OBVIOUS
  <1>3. n.mem = m.mem /\ n.str = [m.str EXCEPT ![s].len = len]
    BY <1>1 DEF SetLen, Shape
  <1>4. n.str[s].blk = p.blk /\ n.str[s].off = p.off /\ n.str[s].state = p.state /\ n.str[s].len = len
    <2>1. p \in StrRec
      BY <1>2 DEF Shape
    <2>2. QED
      BY <1>2, <1>3, <2>1 DEF Shape, StrRec
  <1>5. Room(n, s, c)
    BY <1>2, <1>3, <1>4 DEF Room, BlockSize
  <1>6. Shape(n)
    BY <1>1, SetLenShape
  <1>7. QED
    BY <1>1, <1>4, <1>5, <1>6

LEMMA NewCharsSpells ==
  ASSUME NEW m, NEW s, Apt(m, s), NEW w, Len(w) \in Nat
  PROVE  Spells(Put(SetLen(NewAuto(m, s, Len(w)), s, Len(w)), s, 0, w), s, w)
  <1>1. PICK h : h = NewAuto(m, s, Len(w))
    OBVIOUS
  <1>2. Room(h, s, Len(w)) /\ Shape(h) /\ s \in Objs
    BY <1>1, NewAutoHouses DEF Rehoused, Apt
  <1>3. PICK n : n = SetLen(h, s, Len(w))
    OBVIOUS
  <1>4. Shape(n) /\ Room(n, s, Len(w)) /\ n.str[s].len = Len(w)
    BY <1>2, <1>3, SetLenKeeps
  <1>5. PICK r : r = Put(n, s, 0, w)
    OBVIOUS
  <1>6. r.str = n.str /\ Written(r, s, w)
    BY <1>2, <1>4, <1>5, FillSpells
  <1>7. QED
    BY <1>1, <1>3, <1>4, <1>5, <1>6 DEF Spells, Written

LEMMA LiteralSpells ==
  ASSUME NEW n, NEW s, NEW l \in Literals, LitText[l] \in Seq(Chars), n.str[s] = LiteralRec(l),
         n.mem[l] = Append(LitText[l], NUL), l \in DOMAIN n.mem
  PROVE  Spells(n, s, LitText[l])
  <1>1. PICK r : r = LiteralRec(l)
    OBVIOUS
  <1>2. PICK w \in Seq(Chars) : w = LitText[l]
    OBVIOUS
  <1>3. r.blk = l /\ r.off = 0 /\ r.len = Len(w) /\ r.state = "LITERAL" /\ n.str[s] = r
    BY <1>1, <1>2 DEF LiteralRec
  <1>4. Shows(n, l, 0, w, 0, Len(w))
    <2>1. PICK p : p = Text(l)
      OBVIOUS
    <2>2. p.blk = l /\ p.off = 0 /\ p.len = Len(w)
      BY <1>2, <2>1 DEF Text
    <2>3. Source(n, s, p, w, 0)
      BY <1>2, <2>1, TextSource
    <2>4. QED
      BY <2>2, <2>3 DEF Source
  <1>5. 0 + 0 = 0 /\ Len(w) \in Nat
    OBVIOUS
  <1>6. Stands(n, s, 0, w, 0, Len(w))
    BY <1>3, <1>4, <1>5 DEF Stands, Shows
  <1>7. Room(n, s, Len(w))
    BY <1>3, <1>4, <1>5 DEF Room, BlockSize, Shows
  <1>8. QED
    BY <1>2, <1>3, <1>6, <1>7 DEF Spells

LEMMA FromLiteralSpells ==
  ASSUME NEW m, NEW s \in Objs, Shape(m), NEW l \in Literals, LitText[l] \in Seq(Chars),
         m.mem[l] = Append(LitText[l], NUL), l \in DOMAIN m.mem
  PROVE  Spells(FromLiteral(m, s, l), s, LitText[l])
  <1>1. PICK n : n = FromLiteral(m, s, l)
    OBVIOUS
  <1>2. n.str[s] = LiteralRec(l) /\ n.mem = m.mem
    BY <1>1 DEF FromLiteral, Shape
  <1>3. QED
    BY <1>1, <1>2, LiteralSpells

(* User memory filled with the text of l.                                  *)
LEMMA ExternalSpells ==
  ASSUME NEW n, NEW s, NEW x \in DOMAIN n.mem, NEW e, NEW l, LitText[l] \in Seq(Chars),
         n.str[s] = ExternalRec(x, e, l), n.mem[x] = Overlay(Junks(ExtSize), 0, LitText[l]),
         ExtSize \in Nat, Len(LitText[l]) <= ExtSize
  PROVE  Spells(n, s, LitText[l])
  <1>1. PICK w \in Seq(Chars) : w = LitText[l]
    OBVIOUS
  <1>2. PICK r : r = ExternalRec(x, e, l)
    OBVIOUS
  <1>3. r.blk = x /\ r.off = 0 /\ r.len = Len(w) /\ r.state = "EXTERNAL"
    BY <1>1, <1>2 DEF ExternalRec
  <1>4. PICK j : j = Junks(ExtSize)
    OBVIOUS
  <1>5. Len(j) = ExtSize
    BY <1>4 DEF Junks
  <1>6. PICK d : d = Overlay(j, 0, w)
    OBVIOUS
  <1>7. d = [i \in 1..ExtSize |-> IF i - 0 \in 1..Len(w) THEN w[i - 0] ELSE j[i]]
    BY <1>5, <1>6 DEF Overlay
  <1>8. Sized(d) /\ Len(d) = ExtSize
    BY <1>7 DEF Sized
  <1>9. ASSUME NEW i \in 1..Len(w)
        PROVE  d[(0 + 0) + i] = w[0 + i]
    <2>1. i \in 1..ExtSize /\ i - 0 = i /\ (0 + 0) + i = i /\ 0 + i = i
      BY <1>1
    <2>2. QED
      BY <1>7, <2>1
  <1>10. (0 + 0) \in Nat /\ (0 + 0) + Len(w) <= ExtSize /\ 0 \in Nat /\ 0 + Len(w) <= ExtSize /\ Len(w) \in Nat
    BY <1>1
  <1>11. n.mem[x] = d
    BY <1>1, <1>4, <1>6
  <1>12. Stands(n, s, 0, w, 0, Len(w)) /\ Room(n, s, Len(w))
    BY <1>2, <1>3, <1>8, <1>9, <1>10, <1>11 DEF Stands, Shows, Room, BlockSize
  <1>13. QED
    BY <1>1, <1>2, <1>3, <1>12 DEF Spells

LEMMA NewExternalSpells ==
  ASSUME NEW m, NEW s, Apt(m, s), NEW e, NEW l, LitText[l] \in Seq(Chars), Len(LitText[l]) <= ExtSize
  PROVE  Spells(NewExternal(m, s, e, l), s, LitText[l])
  <1>1. PICK n : n = NewExternal(m, s, e, l)
    OBVIOUS
  <1>2. PICK x : x = AnyFree(m)
    OBVIOUS
  <1>3. x \in Blocks /\ x # s /\ s \in Objs /\ Shape(m) /\ DOMAIN m.mem = Blocks /\ ExtSize \in Nat
    BY <1>2, AnyFreeIsFree DEF Apt, FreeBuffers, Blocks, Assumptions, Housed
  <1>4. PICK r : r = ExternalRec(x, e, l)
    OBVIOUS
  <1>5. PICK d : d = Overlay(Junks(ExtSize), 0, LitText[l])
    OBVIOUS
  <1>6. n.str = [m.str EXCEPT ![s] = r] /\ n.mem = [[m.mem EXCEPT ![x] = d] EXCEPT ![s] = <<>>]
    BY <1>1, <1>2, <1>3, <1>4, <1>5 DEF NewExternal, Shape
  <1>7. n.str[s] = r /\ x \in DOMAIN n.mem /\ n.mem[x] = d
    BY <1>3, <1>6 DEF Shape
  <1>8. QED
    BY <1>1, <1>3, <1>4, <1>5, <1>7, ExternalSpells

LEMMA ReplaceExternalSpells ==
  ASSUME NEW m, NEW s \in Objs, Shape(m), Housed(m), Assumptions, m.str[s].state = "EXTERNAL",
         NEW e, NEW l, LitText[l] \in Seq(Chars), Len(LitText[l]) <= ExtSize
  PROVE  Spells(ReplaceExternal(m, s, e, l), s, LitText[l])
  <1>1. PICK n : n = ReplaceExternal(m, s, e, l)
    OBVIOUS
  <1>2. PICK x : x = m.str[s].blk
    OBVIOUS
  <1>3. x \in Blocks /\ DOMAIN m.mem = Blocks /\ ExtSize \in Nat
    BY <1>2 DEF Shape, Counted, Blocks, Assumptions, Housed
  <1>4. PICK r : r = ExternalRec(x, e, l)
    OBVIOUS
  <1>5. PICK d : d = Overlay(Junks(ExtSize), 0, LitText[l])
    OBVIOUS
  <1>6. n.str = [m.str EXCEPT ![s] = r] /\ n.mem = [m.mem EXCEPT ![x] = d]
    BY <1>1, <1>2, <1>4, <1>5 DEF ReplaceExternal, CallDtor, Shape
  <1>7. n.str[s] = r /\ x \in DOMAIN n.mem /\ n.mem[x] = d
    BY <1>3, <1>6 DEF Shape
  <1>8. QED
    BY <1>1, <1>3, <1>4, <1>5, <1>7, ExternalSpells

(***************************************************************************)
(* Sharing and moving.                                                     *)
(***************************************************************************)
(* u is the n characters of w from position from on.                       *)
Excerpt(u, w, from, n) ==
  /\ from \in Nat /\ n \in Nat /\ from + n <= Len(w) /\ Len(u) = n
  /\ \A i \in 1..n : u[i] = w[from + i]

(* s reads n characters of what t read, from position pos on, where t did   *)
(* or in a copy of its bytes.                                              *)
Mirrors(m, n, s, t, pos, len) ==
  /\ n.str[s].state = m.str[t].state /\ n.str[s].len = len
  /\ n.str[s].off = m.str[t].off + pos
  /\ n.str[s].blk \in DOMAIN n.mem
  /\ n.mem[n.str[s].blk] = m.mem[m.str[t].blk]

LEMMA MirrorSpells ==
  ASSUME NEW m, NEW n, NEW s, NEW t, NEW pos, NEW len, Mirrors(m, n, s, t, pos, len),
         NEW w, Spells(m, t, w), NEW u, Excerpt(u, w, pos, len)
  PROVE  Spells(n, s, u)
  <1>1. PICK d : d = m.mem[m.str[t].blk]
    OBVIOUS
  <1>2. PICK o : o = m.str[t].off
    OBVIOUS
  <1>3. PICK c \in Nat : c = Len(w)
    BY SpellsTyped
  <1>4. /\ o \in Nat /\ Sized(d) /\ o + c <= Len(d) /\ m.str[t].state # "NONE"
        /\ m.str[t].state = "SSO" => Len(d) = MaxSso
    BY <1>1, <1>2, <1>3 DEF Spells, Room, BlockSize
  <1>5. \A i \in 1..c : d[(o + 0) + i] = w[0 + i]
    BY <1>1, <1>2, <1>3 DEF Spells, Stands, Shows
  <1>6. pos \in Nat /\ len \in Nat /\ pos + len <= c /\ Len(u) = len
    BY <1>3 DEF Excerpt
  <1>7. PICK b \in Nat : b = Len(d)
    BY <1>4 DEF Sized
  <1>8. o + pos \in Nat /\ (o + pos) + len <= b /\ (o + pos) + 0 \in Nat /\ ((o + pos) + 0) + len <= b
    BY <1>4, <1>6, <1>7
  <1>9. ASSUME NEW i \in 1..len
        PROVE  d[((o + pos) + 0) + i] = u[0 + i]
    <2>1. /\ pos + i \in 1..c /\ (o + 0) + (pos + i) = ((o + pos) + 0) + i /\ 0 + (pos + i) = pos + i
          /\ 0 + i = i
      BY <1>4, <1>6
    <2>2. d[(o + 0) + (pos + i)] = w[0 + (pos + i)]
      BY <1>5, <2>1
    <2>3. u[i] = w[pos + i]
      BY DEF Excerpt
    <2>4. QED
      BY <2>1, <2>2, <2>3
  <1>10. n.mem[n.str[s].blk] = d /\ n.str[s].off = o + pos /\ n.str[s].len = len
    BY <1>1, <1>2 DEF Mirrors
  <1>11. Room(n, s, len)
    BY <1>4, <1>6, <1>7, <1>8, <1>10 DEF Room, BlockSize, Mirrors
  <1>12. Stands(n, s, 0, u, 0, len)
    BY <1>4, <1>6, <1>7, <1>8, <1>9, <1>10 DEF Stands, Shows
  <1>13. QED
    BY <1>6, <1>10, <1>11, <1>12 DEF Spells

(* The pointer and the length move.                                        *)
LEMMA WindowSpells ==
  ASSUME NEW m, NEW s \in Objs, Shape(m), NEW v, Spells(m, s, v),
         NEW pos, NEW len, NEW u, Excerpt(u, v, pos, len)
  PROVE  Spells(SetLen(PointTo(m, s, m.str[s].off + pos), s, len), s, u)
  <1>1. PICK o \in Nat : o = m.str[s].off
    BY SpellsTyped
  <1>2. o + pos \in Nat /\ len \in Nat
    BY <1>1 DEF Excerpt
  <1>3. PICK h : h = PointTo(m, s, o + pos)
    OBVIOUS
  <1>4. /\ Shape(h) /\ h.str[s].off = o + pos /\ h.str[s].blk = m.str[s].blk
        /\ h.str[s].state = m.str[s].state /\ h.mem = m.mem
    BY <1>2, <1>3, PointToStands
  <1>5. PICK n : n = SetLen(h, s, len)
    OBVIOUS
  <1>6. PICK p : p = h.str[s]
    OBVIOUS
  <1>7. n.mem = h.mem /\ n.str = [h.str EXCEPT ![s].len = len]
    BY <1>4, <1>5 DEF SetLen, Shape
  <1>8. n.str[s].blk = p.blk /\ n.str[s].off = p.off /\ n.str[s].state = p.state /\ n.str[s].len = len
    <2>1. p \in StrRec
      BY <1>4, <1>6 DEF Shape
    <2>2. QED
      BY <1>4, <1>6, <1>7, <2>1 DEF Shape, StrRec
  <1>9. m.str[s].blk \in DOMAIN m.mem
    BY DEF Spells, Room
  <1>10. Mirrors(m, n, s, s, pos, len)
    BY <1>1, <1>4, <1>6, <1>7, <1>8, <1>9 DEF Mirrors
  <1>11. Spells(n, s, u)
    BY <1>10, MirrorSpells
  <1>12. QED
    BY <1>1, <1>3, <1>5, <1>11

(* A block that is neither s nor t, or the bytes of t itself.              *)
LEMMA ReadsElsewhere ==
  ASSUME NEW m, NEW s \in Objs, NEW t \in Objs, s # t, Assumptions, Shape(m), Housed(m),
         m.str[t].state # "NONE"
  PROVE  /\ m.str[t].blk \in Blocks
         /\ m.str[t].state = "SSO" => m.str[t].blk = t
         /\ m.str[t].state # "SSO" => m.str[t].blk # s /\ m.str[t].blk # t
  <1>1. m.str[t].state \in States
    BY DEF Shape, StrRec
  <1>2. QED
    BY <1>1 DEF Shape, Housed, States, Counted, Blocks, Assumptions

LEMMA CowSpells ==
  ASSUME NEW m, NEW s \in Objs, NEW t \in Objs, s # t, Assumptions, Shape(m), Housed(m),
         m.str[t].state # "NONE", NEW w, Spells(m, t, w),
         NEW off, NEW len, NEW u, Excerpt(u, w, off, len)
  PROVE  Spells(Cow(m, s, t, off, len), s, u)
  <1>1. PICK n : n = Cow(m, s, t, off, len)
    OBVIOUS
  <1>2. PICK p : p = Rebased(m, s, t)
    OBVIOUS
  <1>3. PICK r : r = [p EXCEPT !.off = @ + off, !.len = len]
    OBVIOUS
  <1>4. n.str = [m.str EXCEPT ![s] = r] /\ n.mem = [m.mem EXCEPT ![s] = m.mem[t]]
    BY <1>1, <1>2, <1>3 DEF Cow, Shape
  <1>5. p \in StrRec /\ p.state = m.str[t].state /\ p.off = m.str[t].off
        /\ p.blk = IF m.str[t].state = "SSO" THEN s ELSE m.str[t].blk
    BY <1>2, RebasedTyped DEF Rebased, Shape, StrRec
  <1>6. r.state = p.state /\ r.blk = p.blk /\ r.off = p.off + off /\ r.len = len
    BY <1>3, <1>5 DEF StrRec
  <1>7. n.str[s] = r
    BY <1>4 DEF Shape
  <1>8. r.blk \in DOMAIN n.mem /\ n.mem[r.blk] = m.mem[m.str[t].blk]
    <2>1. DOMAIN m.mem = Blocks /\ s \in Blocks
      BY DEF Housed, Blocks
    <2>2. QED
      BY <1>4, <1>5, <1>6, <2>1, ReadsElsewhere
  <1>9. Mirrors(m, n, s, t, off, len)
    BY <1>5, <1>6, <1>7, <1>8 DEF Mirrors
  <1>10. QED
    BY <1>1, <1>9, MirrorSpells

LEMMA WholeExcerpt ==
  ASSUME NEW w, Len(w) \in Nat
  PROVE  Excerpt(w, w, 0, Len(w))
  <1>1. PICK n \in Nat : n = Len(w)
    OBVIOUS
  <1>2. 0 + n <= n /\ 0 \in Nat /\ \A i \in 1..n : 0 + i = i
    OBVIOUS
  <1>3. QED
    BY <1>1, <1>2 DEF Excerpt

(* What a record taken over from t reads.                                  *)
LEMMA RebasedMirrors ==
  ASSUME NEW m, NEW n, NEW s \in Objs, NEW t \in Objs, s # t, Assumptions, Shape(m), Housed(m),
         m.str[t].state # "NONE", n.str[s] = Rebased(m, s, t), DOMAIN n.mem = Blocks,
         n.mem[s] = m.mem[t], \A k \in Blocks \ {s, t} : n.mem[k] = m.mem[k],
         NEW w, Spells(m, t, w)
  PROVE  Spells(n, s, w)
  <1>1. PICK r : r = Rebased(m, s, t)
    OBVIOUS
  <1>2. /\ r \in StrRec /\ r.state = m.str[t].state /\ r.off = m.str[t].off /\ r.len = m.str[t].len
        /\ r.blk = IF m.str[t].state = "SSO" THEN s ELSE m.str[t].blk
    BY <1>1, RebasedTyped DEF Rebased, Shape, StrRec
  <1>3. s \in Blocks /\ m.str[t].off + 0 = m.str[t].off /\ m.str[t].len = Len(w) /\ Len(w) \in Nat
    BY SpellsTyped DEF Blocks
  <1>4. r.blk \in Blocks /\ n.mem[r.blk] = m.mem[m.str[t].blk]
    BY <1>2, <1>3, ReadsElsewhere
  <1>5. Mirrors(m, n, s, t, 0, Len(w))
    BY <1>1, <1>2, <1>3, <1>4 DEF Mirrors
  <1>6. QED
    BY <1>3, <1>5, WholeExcerpt, MirrorSpells

LEMMA MoveFromSpells ==
  ASSUME NEW m, NEW s \in Objs, NEW t \in Objs, s # t, Assumptions, Shape(m), Housed(m),
         m.str[t].state # "NONE", NEW w, Spells(m, t, w),
         m.mem[Terminal] = Append(LitText[Terminal], NUL)
  PROVE  LET n == MoveFrom(m, s, t) IN Spells(n, s, w) /\ Spells(n, t, LitText[Terminal])
  <1>1. PICK n : n = MoveFrom(m, s, t)
    OBVIOUS
  <1>2. PICK r : r = Rebased(m, s, t)
    OBVIOUS
  <1>3. PICK q : q = LiteralRec(Terminal)
    OBVIOUS
  <1>4. BothRewritten(m, n, s, t, r, q, m.mem[t], <<>>)
    BY <1>1, <1>2, <1>3 DEF MoveFrom, Shape, BothRewritten
  <1>5. n.str[s] = r /\ n.str[t] = q
    BY <1>4 DEF BothRewritten, Shape
  <1>6. /\ DOMAIN n.mem = Blocks /\ n.mem[s] = m.mem[t] /\ \A k \in Blocks \ {s, t} : n.mem[k] = m.mem[k]
    BY <1>4 DEF BothRewritten, Housed, Blocks
  <1>7. Spells(n, s, w)
    BY <1>2, <1>5, <1>6, RebasedMirrors
  <1>8. Terminal \in Literals /\ Terminal \in Blocks \ {s, t} /\ LitText[Terminal] \in Seq(Chars)
    BY DEF Assumptions, Blocks
  <1>9. n.mem[Terminal] = Append(LitText[Terminal], NUL) /\ Terminal \in DOMAIN n.mem
    BY <1>6, <1>8
  <1>10. Spells(n, t, LitText[Terminal])
    BY <1>3, <1>5, <1>8, <1>9, LiteralSpells
  <1>11. QED
    BY <1>1, <1>7, <1>10

LEMMA SwapSpells ==
  ASSUME NEW m, NEW s \in Objs, NEW t \in Objs, s # t, Assumptions, Shape(m), Housed(m),
         m.str[s].state # "NONE", NEW v, Spells(m, s, v), m.str[t].state # "NONE", NEW w, Spells(m, t, w)
  PROVE  LET n == SwapStorage(m, s, t) IN Spells(n, s, w) /\ Spells(n, t, v)
  <1>1. PICK n : n = SwapStorage(m, s, t)
    OBVIOUS
  <1>2. PICK r : r = Rebased(m, s, t)
    OBVIOUS
  <1>3. PICK q : q = Rebased(m, t, s)
    OBVIOUS
  <1>4. BothRewritten(m, n, s, t, r, q, m.mem[t], m.mem[s])
    BY <1>1, <1>2, <1>3 DEF SwapStorage, Shape, BothRewritten
  <1>5. n.str[s] = r /\ n.str[t] = q
    BY <1>4 DEF BothRewritten, Shape
  <1>6. /\ DOMAIN n.mem = Blocks /\ n.mem[s] = m.mem[t] /\ n.mem[t] = m.mem[s]
        /\ \A k \in Blocks \ {s, t} : n.mem[k] = m.mem[k]
        /\ \A k \in Blocks \ {t, s} : n.mem[k] = m.mem[k]
    BY <1>4 DEF BothRewritten, Housed, Blocks
  <1>7. Spells(n, s, w)
    BY <1>2, <1>5, <1>6, RebasedMirrors
  <1>8. Spells(n, t, v)
    BY <1>3, <1>5, <1>6, RebasedMirrors
  <1>9. QED
    BY <1>1, <1>7, <1>8

(***************************************************************************)
(* Splitting a string in two.                                              *)
(***************************************************************************)
LEMMA FrontShows ==
  ASSUME NEW m, NEW p, NEW v, Shows(m, p.blk, p.off, v, 0, p.len), NEW pos \in Nat, pos <= p.len
  PROVE  LET f == Front(p, pos) IN
         f.blk = p.blk /\ f.len = pos /\ f.off = p.off /\ Shows(m, f.blk, f.off, v, 0, f.len)
  <1>1. PICK f : f = Front(p, pos)
    OBVIOUS
  <1>2. p.len \in Nat /\ p.off \in Nat
    BY DEF Shows
  <1>3. p.off + 0 = p.off /\ 0 + 0 = 0 /\ p.len - 0 = p.len /\ 0 + pos <= p.len /\ 0 \in Nat /\ ~(pos > p.len)
    BY <1>2
  <1>4. f.blk = p.blk /\ f.off = p.off /\ f.len = pos
    BY <1>1, <1>3 DEF Front, Slice
  <1>5. Shows(m, p.blk, p.off + 0, v, 0 + 0, pos)
    BY <1>3, ShowsPart
  <1>6. QED
    BY <1>1, <1>3, <1>4, <1>5

LEMMA BackShows ==
  ASSUME NEW m, NEW p, NEW v, Shows(m, p.blk, p.off, v, 0, p.len), NEW pos \in Nat, pos <= p.len
  PROVE  LET b == Back(p, pos) IN
         b.blk = p.blk /\ b.len = p.len - pos /\ b.off = p.off + pos /\ Shows(m, b.blk, b.off, v, pos, b.len)
  <1>1. PICK b : b = Back(p, pos)
    OBVIOUS
  <1>2. p.len \in Nat /\ p.off \in Nat
    BY DEF Shows
  <1>3. /\ p.len - pos \in Nat /\ pos + (p.len - pos) <= p.len /\ 0 + pos = pos
        /\ (IF p.len > p.len - pos THEN p.len - pos ELSE p.len) = p.len - pos
    BY <1>2
  <1>4. b.blk = p.blk /\ b.off = p.off + pos /\ b.len = p.len - pos
    BY <1>1, <1>3 DEF Back, Slice
  <1>5. Shows(m, p.blk, p.off + pos, v, 0 + pos, p.len - pos)
    BY <1>3, ShowsPart
  <1>6. QED
    BY <1>1, <1>3, <1>4, <1>5

(* The front of v, a gap of ins characters, and v behind pos + rem.        *)
Split(m, s, v, pos, rem, ins) ==
  /\ Room(m, s, (Len(v) - rem) + ins)
  /\ Stands(m, s, 0, v, 0, pos)
  /\ Stands(m, s, pos + ins, v, pos + rem, Len(v) - (pos + rem))

(* The places a gap divides.                                               *)
Gap(v, pos, rem, ins) ==
  pos \in Nat /\ rem \in Nat /\ ins \in Nat /\ Len(v) \in Nat /\ pos + rem <= Len(v)

LEMMA GapNumbers ==
  ASSUME NEW v, NEW pos, NEW rem, NEW ins, Gap(v, pos, rem, ins)
  PROVE  /\ pos \in Nat /\ rem \in Nat /\ ins \in Nat /\ Len(v) \in Nat
         /\ pos + rem \in Nat /\ pos + rem <= Len(v) /\ pos <= Len(v) /\ 0 + pos <= pos + ins
         /\ Len(v) - (pos + rem) \in Nat /\ (pos + rem) + (Len(v) - (pos + rem)) <= Len(v)
         /\ pos + ins \in Nat
         /\ (Len(v) - rem) + ins \in Nat
         /\ (pos + ins) + (Len(v) - (pos + rem)) = (Len(v) - rem) + ins
         /\ 0 + pos <= (Len(v) - rem) + ins
         /\ pos + ins <= (Len(v) - rem) + ins
         /\ 0 + pos <= Len(v)
  BY DEF Gap

LEMMA CopySplits ==
  ASSUME NEW h, Shape(h), NEW s, NEW v, NEW pos, NEW rem, NEW ins, Gap(v, pos, rem, ins),
         Room(h, s, (Len(v) - rem) + ins),
         NEW p, NEW x, Shows(x, p.blk, p.off, v, 0, p.len), p.len = Len(v),
         NEW y, Shows(y, p.blk, p.off, v, 0, p.len)
  PROVE  LET q == Put(h, s, 0, Read(x, Front(p, pos)))
             r == Put(q, s, pos + ins, Read(y, Back(p, pos + rem)))
         IN  Shape(r) /\ r.str = h.str /\ Split(r, s, v, pos, rem, ins)
  <1>1. PICK l : l = Len(v)
    OBVIOUS
  <1>2. PICK c : c = (l - rem) + ins
    OBVIOUS
  <1>3. /\ pos \in Nat /\ pos + rem \in Nat /\ pos + rem <= l /\ pos <= l /\ l - (pos + rem) \in Nat
        /\ pos + ins \in Nat /\ c \in Nat /\ (pos + ins) + (l - (pos + rem)) = c /\ 0 + pos <= pos + ins
        /\ 0 + pos <= c /\ pos <= p.len /\ pos + rem <= p.len
    BY <1>1, <1>2, GapNumbers
  <1>4. PICK f : f = Front(p, pos)
    OBVIOUS
  <1>5. f.len = pos /\ Shows(x, f.blk, f.off, v, 0, f.len)
    <2>1. pos \in Nat /\ pos <= p.len
      BY <1>3
    <2>2. QED
      BY <1>4, <2>1, FrontShows
  <1>6. PICK b : b = Back(p, pos + rem)
    OBVIOUS
  <1>7. b.len = l - (pos + rem) /\ Shows(y, b.blk, b.off, v, pos + rem, b.len)
    <2>1. pos + rem \in Nat /\ pos + rem <= p.len
      BY <1>3
    <2>2. b.len = p.len - (pos + rem) /\ Shows(y, b.blk, b.off, v, pos + rem, b.len)
      BY <1>6, <2>1, BackShows
    <2>3. QED
      BY <1>1, <2>2
  <1>8. PICK q : q = Put(h, s, 0, Read(x, f))
    OBVIOUS
  <1>9. /\ Patched(h, q, h.str[s].blk, h.str[s].off + 0, f.len) /\ Shape(q)
        /\ Room(q, s, c) /\ Stands(q, s, 0, v, 0, f.len)
    BY <1>1, <1>2, <1>3, <1>5, <1>8, CopyStands
  <1>10. PICK r : r = Put(q, s, pos + ins, Read(y, b))
    OBVIOUS
  <1>11. (pos + ins) + b.len <= c
    BY <1>3, <1>7
  <1>12. /\ Patched(q, r, q.str[s].blk, q.str[s].off + (pos + ins), b.len) /\ Shape(r)
         /\ Room(r, s, c) /\ Stands(r, s, pos + ins, v, pos + rem, b.len)
    BY <1>3, <1>7, <1>9, <1>10, <1>11, CopyStands
  <1>13. Stands(r, s, 0, v, 0, pos)
    <2>1. q.str[s].off \in Nat /\ b.len \in Nat /\ 0 \in Nat
      BY <1>3, <1>7, <1>9 DEF Room
    <2>2. QED
      BY <1>3, <1>5, <1>9, <1>12, <2>1, PatchStands
  <1>14. r.str = h.str
    BY <1>9, <1>12 DEF Patched
  <1>15. QED
    BY <1>1, <1>2, <1>4, <1>6, <1>7, <1>8, <1>10, <1>12, <1>13, <1>14 DEF Split

(* In storage of its own, copied from p, a block that is left alone.       *)
LEMMA NewSplits ==
  ASSUME NEW h, Shape(h), NEW s, NEW v, NEW pos, NEW rem, NEW ins, Gap(v, pos, rem, ins),
         Room(h, s, (Len(v) - rem) + ins),
         NEW p, Shows(h, p.blk, p.off, v, 0, p.len), p.len = Len(v),
         p.blk \in DOMAIN h.mem, p.blk # h.str[s].blk
  PROVE  LET q == Put(h, s, 0, Read(h, Front(p, pos)))
             r == Put(q, s, pos + ins, Read(q, Back(p, pos + rem)))
         IN  Shape(r) /\ r.str = h.str /\ Split(r, s, v, pos, rem, ins)
  <1>1. PICK l : l = Len(v)
    OBVIOUS
  <1>2. /\ pos \in Nat /\ pos + rem \in Nat /\ pos + rem <= l /\ pos <= l
        /\ (l - rem) + ins \in Nat /\ 0 + pos <= (l - rem) + ins
    BY <1>1, GapNumbers
  <1>3. PICK f : f = Front(p, pos)
    OBVIOUS
  <1>4. f.len = pos /\ Shows(h, f.blk, f.off, v, 0, f.len)
    BY <1>1, <1>2, <1>3, FrontShows
  <1>5. PICK q : q = Put(h, s, 0, Read(h, f))
    OBVIOUS
  <1>6. Patched(h, q, h.str[s].blk, h.str[s].off + 0, f.len)
    BY <1>1, <1>2, <1>4, <1>5, CopyStands
  <1>7. Shows(q, p.blk, p.off, v, 0, p.len)
    BY <1>6, PatchKeepsOthers
  <1>8. PICK r : r = Put(q, s, pos + ins, Read(q, Back(p, pos + rem)))
    OBVIOUS
  <1>9. Shape(r) /\ r.str = h.str /\ Split(r, s, v, pos, rem, ins)
    BY <1>3, <1>5, <1>7, <1>8, CopySplits
  <1>10. QED
    BY <1>3, <1>5, <1>8, <1>9

LEMMA PointToPart ==
  ASSUME NEW m, NEW s \in Objs, Shape(m), m.str[s].off \in Nat, NEW d \in Nat,
         NEW a \in Nat, NEW v, NEW from, NEW l, Stands(m, s, d + a, v, from, l)
  PROVE  Stands(PointTo(m, s, m.str[s].off + d), s, a, v, from, l)
  <1>1. PICK o \in Nat : o = m.str[s].off
    OBVIOUS
  <1>2. o + d \in Nat /\ (o + d) + a = o + (d + a)
    OBVIOUS
  <1>3. PICK n : n = PointTo(m, s, o + d)
    OBVIOUS
  <1>4. n.str[s].off = o + d /\ n.str[s].blk = m.str[s].blk /\ n.mem = m.mem
    BY <1>2, <1>3, PointToStands
  <1>5. QED
    BY <1>1, <1>2, <1>3, <1>4 DEF Stands, Shows

LEMMA PointToRoom ==
  ASSUME NEW m, NEW s \in Objs, Shape(m), NEW d \in Nat, NEW c \in Nat, Room(m, s, d + c)
  PROVE  Room(PointTo(m, s, m.str[s].off + d), s, c)
  <1>1. PICK o \in Nat : o = m.str[s].off
    BY DEF Room
  <1>2. PICK b : b = BlockSize(m, s)
    OBVIOUS
  <1>3. b \in Nat /\ o + (d + c) <= b
    BY <1>1, <1>2 DEF Room, Sized, BlockSize
  <1>4. o + d \in Nat /\ (o + d) + c <= b
    BY <1>3
  <1>5. PICK n : n = PointTo(m, s, o + d)
    OBVIOUS
  <1>6. n.str[s].off = o + d /\ n.str[s].blk = m.str[s].blk /\ n.str[s].state = m.str[s].state /\ n.mem = m.mem
    BY <1>4, <1>5, PointToStands
  <1>7. QED
    BY <1>1, <1>2, <1>4, <1>5, <1>6 DEF Room, BlockSize

LEMMA EraseInPlaceWritten ==
  ASSUME NEW m, NEW s \in Objs, Shape(m), NEW v, Spells(m, s, v), NEW pos, NEW n, NEW w, NEW from, NEW u,
         Spliced(u, v, pos, n, w, from, 0)
  PROVE  LET r == EraseInPlace(m, s, pos, n) IN Shape(r) /\ Written(r, s, u)
  <1>1. PICK l : l = Len(v)
    OBVIOUS
  <1>2. PICK p : p = m.str[s]
    OBVIOUS
  <1>3. /\ pos \in Nat /\ n \in Nat /\ l \in Nat /\ pos + n <= l /\ pos <= l /\ Len(u) = l - n /\ l - n \in Nat
        /\ pos + n \in Nat /\ l - (pos + n) \in Nat /\ pos + (l - (pos + n)) = l - n /\ pos <= l - n
        /\ pos + 0 = pos /\ n + pos \in Nat /\ n + pos <= pos + n /\ n + pos <= l /\ n + pos = pos + n
        /\ 0 + pos <= l /\ (pos + n) + (l - (pos + n)) <= l /\ 0 + pos <= pos /\ n + (l - n) = l
        /\ pos + (l - (pos + n)) <= l /\ l - n <= l /\ n + 0 = n
    <2>1. pos \in Nat /\ n \in Nat /\ l \in Nat /\ pos + n <= l /\ Len(u) = (pos + 0) + (l - (pos + n))
      BY <1>1, SplicedNumbers
    <2>2. QED
      BY <2>1
  <1>4. /\ p.len = l /\ p.off \in Nat /\ Room(m, s, l)
        /\ Shows(m, p.blk, p.off, v, 0, p.len)
    BY <1>1, <1>2, SpellsTyped
  <1>5. Stands(m, s, 0, v, 0, pos) /\ Stands(m, s, pos + n, v, pos + n, l - (pos + n))
    BY <1>1, <1>3, PartStands
  <1>6. CASE pos >= p.len - n - pos
    <2>1. PICK b : b = Back(p, pos + n)
      OBVIOUS
    <2>2. b.len = l - (pos + n) /\ Shows(m, b.blk, b.off, v, pos + n, b.len)
      <3>1. pos + n \in Nat /\ pos + n <= p.len
        BY <1>3, <1>4
      <3>2. b.len = p.len - (pos + n) /\ Shows(m, b.blk, b.off, v, pos + n, b.len)
        BY <1>4, <2>1, <3>1, BackShows
      <3>3. QED
        BY <1>4, <3>2
    <2>3. PICK r : r = Put(m, s, pos, Read(m, b))
      OBVIOUS
    <2>4. /\ Patched(m, r, p.blk, p.off + pos, b.len) /\ Shape(r)
          /\ Room(r, s, l) /\ Stands(r, s, pos, v, pos + n, b.len)
      <3>1. pos \in Nat /\ pos + b.len <= l
        BY <1>3, <2>2
      <3>2. QED
        BY <1>2, <1>4, <2>2, <2>3, <3>1, CopyStands
    <2>5. Stands(r, s, 0, v, 0, pos)
      <3>1. 0 \in Nat /\ pos \in Nat /\ b.len \in Nat /\ 0 + pos <= pos /\ m.str[s].off \in Nat
        BY <1>2, <1>3, <1>4, <2>2
      <3>2. QED
        BY <1>2, <1>5, <2>4, <3>1, PatchStands
    <2>6. Room(r, s, Len(u))
      BY <1>3, <2>4, RoomLess
    <2>7. Stands(r, s, pos, w, from, 0)
      BY <1>3, <2>6, NothingStands
    <2>8. Stands(r, s, pos + 0, v, pos + n, Len(v) - (pos + n))
      BY <1>1, <1>3, <2>2, <2>4
    <2>9. Written(r, s, u)
      BY <2>5, <2>6, <2>7, <2>8, PartsStand
    <2>10. r = EraseInPlace(m, s, pos, n)
      BY <1>2, <1>6, <2>1, <2>3 DEF EraseInPlace
    <2>11. QED
      BY <2>4, <2>9, <2>10
  <1>7. CASE ~(pos >= p.len - n - pos)
    <2>1. PICK f : f = Front(p, pos)
      OBVIOUS
    <2>2. f.len = pos /\ Shows(m, f.blk, f.off, v, 0, f.len)
      <3>1. pos \in Nat /\ pos <= p.len
        BY <1>3, <1>4
      <3>2. QED
        BY <1>4, <2>1, <3>1, FrontShows
    <2>3. PICK r : r = Put(m, s, n, Read(m, f))
      OBVIOUS
    <2>4. /\ Patched(m, r, p.blk, p.off + n, f.len) /\ Shape(r)
          /\ Room(r, s, l) /\ Stands(r, s, n, v, 0, f.len)
      <3>1. n \in Nat /\ n + f.len <= l
        BY <1>3, <2>2
      <3>2. QED
        BY <1>2, <1>4, <2>2, <2>3, <3>1, CopyStands
    <2>5. Stands(r, s, pos + n, v, pos + n, l - (pos + n))
      <3>1. n \in Nat /\ pos + n \in Nat /\ f.len \in Nat /\ n + f.len <= pos + n /\ m.str[s].off \in Nat
        BY <1>2, <1>3, <1>4, <2>2
      <3>2. QED
        BY <1>2, <1>5, <2>4, <3>1, PatchStands
    <2>6. r.str[s] = p
      BY <1>2, <2>4 DEF Patched
    <2>7. PICK q : q = PointTo(r, s, r.str[s].off + n)
      OBVIOUS
    <2>8. r.str[s].off \in Nat /\ n \in Nat /\ 0 \in Nat /\ pos \in Nat /\ l - n \in Nat
      BY <1>3, <1>4, <2>6
    <2>9. Stands(q, s, 0, v, 0, pos)
      <3>1. Stands(r, s, n + 0, v, 0, pos)
        BY <1>3, <2>2, <2>4
      <3>2. QED
        BY <2>4, <2>7, <2>8, <3>1, PointToPart
    <2>10. Stands(q, s, pos, v, pos + n, l - (pos + n))
      <3>1. Stands(r, s, n + pos, v, pos + n, l - (pos + n))
        BY <1>3, <2>5
      <3>2. QED
        BY <2>4, <2>7, <2>8, <3>1, PointToPart
    <2>11. Room(q, s, l - n)
      <3>1. Room(r, s, n + (l - n))
        BY <1>3, <2>4
      <3>2. QED
        BY <2>4, <2>7, <2>8, <3>1, PointToRoom
    <2>12. Stands(q, s, pos, w, from, 0)
      BY <1>3, <2>11, NothingStands
    <2>13. Stands(q, s, pos + 0, v, pos + n, Len(v) - (pos + n))
      BY <1>1, <1>3, <2>10
    <2>14. Room(q, s, Len(u))
      BY <1>3, <2>11
    <2>15. Written(q, s, u)
      BY <2>9, <2>12, <2>13, <2>14, PartsStand
    <2>16. Shape(q)
      <3>1. r.str[s].off + n \in Nat
        BY <2>8
      <3>2. QED
        BY <2>4, <2>7, <3>1, PointToStands
    <2>17. q = EraseInPlace(m, s, pos, n)
      BY <1>2, <1>7, <2>1, <2>3, <2>6, <2>7 DEF EraseInPlace
    <2>18. QED
      BY <2>15, <2>16, <2>17
  <1>8. QED
    BY <1>6, <1>7

(* Where the text of s stands while s takes new storage: what s shares is   *)
(* given up first.                                                         *)
LEMMA SharedOrLiteral ==
  ASSUME NEW m, NEW s, Able(m, s), m.str[s].state # "NONE", ~Alone(m, s)
  PROVE  LET d == IF m.str[s].state \in Counted THEN DecRef(m, m.str[s].blk) ELSE m
         IN  Apt(d, s) /\ Elsewhere(d, s) /\ Alike(m, d, s)
  <1>1. Apt(m, s) /\ m.str[s].state \in States
    BY AbleApt DEF Shape, StrRec
  <1>2. CASE m.str[s].state \in Counted
    <2>1. ~Unique(m, s)
      BY <1>2 DEF Alone
    <2>2. QED
      BY <1>2, <2>1, SharedApart
  <1>3. CASE m.str[s].state \notin Counted
    <2>1. m.str[s].state = "LITERAL"
      BY <1>1, <1>3 DEF Alone, States
    <2>2. Elsewhere(m, s)
      BY <2>1, LiteralApart
    <2>3. Alike(m, m, s)
      BY <1>1, <2>2 DEF Alike, Elsewhere, Apt, Housed
    <2>4. QED
      BY <1>1, <1>3, <2>2, <2>3
  <1>4. QED
    BY <1>2, <1>3

LEMMA AlikeShows ==
  ASSUME NEW m, NEW n, NEW s, Alike(m, n, s), NEW v, Spells(m, s, v)
  PROVE  Shows(n, m.str[s].blk, m.str[s].off, v, 0, m.str[s].len)
  BY AlikeSpells, SpellsTyped DEF Alike

(* New storage for s does not touch the block its text stands in.          *)
LEMMA RehousedShows ==
  ASSUME NEW m, NEW n, NEW s, Elsewhere(m, s), NEW cap, Rehoused(m, n, s, cap), NEW v, Spells(m, s, v)
  PROVE  /\ Shows(n, m.str[s].blk, m.str[s].off, v, 0, m.str[s].len)
         /\ m.str[s].blk \in DOMAIN n.mem /\ Shape(n) /\ Room(n, s, cap)
  <1>1. Shows(m, m.str[s].blk, m.str[s].off, v, 0, m.str[s].len)
    BY SpellsTyped
  <1>2. m.str[s].blk \in Blocks /\ n.mem[m.str[s].blk] = m.mem[m.str[s].blk]
    BY DEF Elsewhere, Rehoused
  <1>3. QED
    BY <1>1, <1>2 DEF Shows, Rehoused

LEMMA SplitWritten ==
  ASSUME NEW m, NEW s, NEW u, NEW v, NEW pos, NEW rem, NEW w, NEW from,
         Spliced(u, v, pos, rem, w, from, 0), Split(m, s, v, pos, rem, 0)
  PROVE  Written(m, s, u)
  <1>1. PICK l : l = Len(v)
    OBVIOUS
  <1>2. (l - rem) + 0 = Len(u) /\ pos \in Nat /\ pos <= Len(u)
    <2>1. /\ pos \in Nat /\ rem \in Nat /\ l \in Nat /\ pos + rem <= l
          /\ Len(u) = (pos + 0) + (l - (pos + rem)) /\ pos <= Len(u)
      BY <1>1, SplicedNumbers
    <2>2. QED
      BY <2>1
  <1>3. Room(m, s, Len(u))
    BY <1>1, <1>2 DEF Split
  <1>4. Stands(m, s, pos, w, from, 0)
    BY <1>2, <1>3, NothingStands
  <1>5. QED
    BY <1>3, <1>4, PartsStand DEF Split

LEMMA SplicedGap ==
  ASSUME NEW u, NEW v, NEW pos, NEW rem, NEW w, NEW from, NEW n, Spliced(u, v, pos, rem, w, from, n)
  PROVE  Gap(v, pos, rem, n) /\ (Len(v) - rem) + n = Len(u)
  BY DEF Gap, Spliced

LEMMA EraseElsewhereWritten ==
  ASSUME NEW m, NEW s, Able(m, s), m.str[s].state # "NONE", ~Alone(m, s), NEW v, Spells(m, s, v),
         NEW pos, NEW n, NEW w, NEW from, NEW u, Spliced(u, v, pos, n, w, from, 0)
  PROVE  LET r == EraseElsewhere(m, s, pos, n) IN Shape(r) /\ Written(r, s, u)
  <1>1. PICK d : d = IF m.str[s].state \in Counted THEN DecRef(m, m.str[s].blk) ELSE m
    OBVIOUS
  <1>2. Apt(d, s) /\ Elsewhere(d, s) /\ Alike(m, d, s)
    BY <1>1, SharedOrLiteral
  <1>3. Spells(d, s, v) /\ d.str[s] = m.str[s] /\ m.str[s].len = Len(v) /\ Len(v) \in Nat
    BY <1>2, AlikeSpells, SpellsTyped DEF Alike
  <1>4. PICK c : c = Len(v) - n
    OBVIOUS
  <1>5. Gap(v, pos, n, 0) /\ c \in Nat /\ (Len(v) - n) + 0 = c /\ pos + 0 = pos
    BY <1>4, SplicedGap DEF Gap
  <1>6. PICK h : h = NewAuto(d, s, c)
    OBVIOUS
  <1>7. PICK p : p = m.str[s]
    OBVIOUS
  <1>8. Rehoused(d, h, s, c)
    BY <1>2, <1>5, <1>6, NewAutoHouses
  <1>9. Shows(h, p.blk, p.off, v, 0, p.len) /\ Shape(h) /\ Room(h, s, c)
    BY <1>2, <1>3, <1>7, <1>8, RehousedShows
  <1>10. Room(h, s, (Len(v) - n) + 0) /\ p.len = Len(v)
    BY <1>3, <1>5, <1>7, <1>9
  <1>11. PICK r : r = Put(Put(h, s, 0, Read(h, Front(p, pos))), s, pos + 0, Read(h, Back(p, pos + n)))
    OBVIOUS
  <1>12. Shape(r) /\ Split(r, s, v, pos, n, 0)
    BY <1>5, <1>9, <1>10, <1>11, CopySplits
  <1>13. Written(r, s, u)
    BY <1>12, SplitWritten
  <1>14. r = EraseElsewhere(m, s, pos, n)
    BY <1>1, <1>3, <1>4, <1>5, <1>6, <1>7, <1>11 DEF EraseElsewhere
  <1>15. QED
    BY <1>12, <1>13, <1>14

LEMMA EraseSpells ==
  ASSUME NEW m, NEW s, Able(m, s), m.str[s].state # "NONE", NEW v, Spells(m, s, v),
         NEW pos \in Nat, pos <= Len(v), NEW n \in Nat, NEW w, NEW from, NEW u,
         Spliced(u, v, pos, IF n > Len(v) - pos THEN Len(v) - pos ELSE n, w, from, 0)
  PROVE  Spells(Erase(m, s, pos, n), s, u)
  <1>1. PICK l : l = Len(v)
    OBVIOUS
  <1>2. PICK p : p = m.str[s]
    OBVIOUS
  <1>3. s \in Objs /\ Shape(m) /\ l \in Nat /\ p.len = l /\ p.off \in Nat /\ p.state \in States
    BY <1>1, <1>2, AbleApt, SpellsTyped DEF Shape, StrRec
  <1>4. CASE n > l - pos
    <2>1. Spliced(u, v, pos, l - pos, w, from, 0) /\ pos + (l - pos) = Len(v)
      BY <1>1, <1>3, <1>4
    <2>2. Spells(SetLen(m, s, pos), s, u)
      BY <1>3, <2>1, TruncateSpells
    <2>3. QED
      BY <1>2, <1>3, <1>4, <2>2 DEF Erase
  <1>5. CASE ~(n > l - pos)
    <2>1. Spliced(u, v, pos, n, w, from, 0)
      BY <1>1, <1>5
    <2>2. Len(u) = l - n /\ l - n \in Nat /\ n <= l - pos
      <3>1. pos + n <= l /\ Len(u) = (l - n) + 0
        BY <1>1, <2>1 DEF Spliced
      <3>2. QED
        BY <1>3, <3>1
    <2>3. CASE pos = 0
      <3>1. Excerpt(u, v, n, l - n)
        <4>1. \A i \in 1..(l - (0 + n)) : u[(0 + 0) + i] = v[(0 + n) + i]
          BY <1>1, <2>1, <2>3 DEF Spliced
        <4>2. l - (0 + n) = l - n /\ 0 + n = n /\ n + (l - n) <= l
          BY <1>3, <2>2
        <4>3. \A i \in 1..(l - n) : (0 + 0) + i = i
          BY <2>2
        <4>4. QED
          BY <1>1, <2>2, <4>1, <4>2, <4>3 DEF Excerpt
      <3>2. Spells(SetLen(PointTo(m, s, m.str[s].off + n), s, l - n), s, u)
        BY <1>3, <3>1, WindowSpells
      <3>3. QED
        BY <1>2, <1>3, <1>5, <2>2, <2>3, <3>2 DEF Erase
    <2>4. CASE pos # 0
      <3>1. PICK r : r = IF Alone(m, s) THEN EraseInPlace(m, s, pos, n) ELSE EraseElsewhere(m, s, pos, n)
        OBVIOUS
      <3>2. Shape(r) /\ Written(r, s, u)
        <4>1. CASE Alone(m, s)
          BY <1>3, <2>1, <3>1, <4>1, EraseInPlaceWritten
        <4>2. CASE ~Alone(m, s)
          BY <2>1, <3>1, <4>2, EraseElsewhereWritten
        <4>3. QED
          BY <4>1, <4>2
      <3>3. Spells(SetLen(r, s, l - n), s, u)
        BY <1>3, <2>2, <3>2, SetLenSpells
      <3>4. Erase(m, s, pos, n) = SetLen(r, s, l - n)
        BY <1>2, <1>3, <1>5, <2>2, <2>4, <3>1 DEF Erase, Alone
      <3>5. QED
        BY <3>3, <3>4
    <2>5. QED
      BY <2>3, <2>4
  <1>6. QED
    BY <1>4, <1>5

(* s is split at pos, with its new length.                                 *)
LEMMA MiddleNewSplits ==
  ASSUME NEW m, NEW s, Apt(m, s), Elsewhere(m, s), NEW v, Spells(m, s, v),
         NEW pos, NEW rem, NEW ins, Gap(v, pos, rem, ins)
  PROVE  LET r == ReserveMiddleNew(m, s, pos, rem, ins) IN
         Shape(r) /\ Split(r, s, v, pos, rem, ins) /\ r.str[s].blk # m.str[s].blk
  <1>1. PICK p : p = m.str[s]
    OBVIOUS
  <1>2. p.len = Len(v) /\ Len(v) \in Nat
    BY <1>1, SpellsTyped
  <1>3. PICK c : c = p.len + ins - rem
    OBVIOUS
  <1>4. c \in Nat /\ (Len(v) - rem) + ins = c
    BY <1>2, <1>3 DEF Gap
  <1>5. PICK h : h = NewAuto(m, s, c)
    OBVIOUS
  <1>6. Rehoused(m, h, s, c)
    BY <1>4, <1>5, NewAutoHouses
  <1>7. /\ Shows(h, p.blk, p.off, v, 0, p.len) /\ Shape(h) /\ Room(h, s, c)
        /\ p.blk \in DOMAIN h.mem /\ p.blk # h.str[s].blk
    <2>1. /\ Shows(h, m.str[s].blk, m.str[s].off, v, 0, m.str[s].len)
          /\ m.str[s].blk \in DOMAIN h.mem /\ Shape(h) /\ Room(h, s, c)
      BY <1>6, RehousedShows
    <2>2. m.str[s].blk # h.str[s].blk
      BY <1>6 DEF Rehoused, Elsewhere
    <2>3. QED
      BY <1>1, <2>1, <2>2
  <1>8. Room(h, s, (Len(v) - rem) + ins)
    BY <1>4, <1>7
  <1>9. PICK q : q = Put(h, s, 0, Read(h, Front(p, pos)))
    OBVIOUS
  <1>10. PICK r : r = Put(q, s, pos + ins, Read(q, Back(p, pos + rem)))
    OBVIOUS
  <1>11. Shape(r) /\ r.str = h.str /\ Split(r, s, v, pos, rem, ins)
    BY <1>2, <1>7, <1>8, <1>9, <1>10, NewSplits
  <1>12. r = ReserveMiddleNew(m, s, pos, rem, ins)
    BY <1>1, <1>3, <1>5, <1>9, <1>10 DEF ReserveMiddleNew
  <1>13. QED
    BY <1>1, <1>7, <1>11, <1>12

LEMMA FromSsoMiddleSplits ==
  ASSUME NEW m, NEW s, Apt(m, s), NEW v, Spells(m, s, v),
         NEW pos, NEW rem, NEW ins, Gap(v, pos, rem, ins)
  PROVE  LET r == NewInternalFromSsoMiddle(m, s, pos, rem, ins) IN
         Shape(r) /\ Split(r, s, v, pos, rem, ins)
  <1>1. PICK p : p = m.str[s]
    OBVIOUS
  <1>2. p.len = Len(v) /\ Len(v) \in Nat /\ Shows(m, p.blk, p.off, v, 0, p.len)
    BY <1>1, SpellsTyped
  <1>3. PICK c : c = p.len + ins - rem
    OBVIOUS
  <1>4. c \in Nat /\ (Len(v) - rem) + ins = c
    BY <1>2, <1>3 DEF Gap
  <1>5. PICK h : h = NewBuffer(m, s, c)
    OBVIOUS
  <1>6. Shape(h) /\ Room(h, s, (Len(v) - rem) + ins)
    BY <1>4, <1>5, NewBufferHouses DEF Rehoused
  <1>7. PICK q : q = Put(h, s, 0, Read(m, Front(p, pos)))
    OBVIOUS
  <1>8. PICK r : r = Put(q, s, pos + ins, Read(m, Back(p, pos + rem)))
    OBVIOUS
  <1>9. Shape(r) /\ Split(r, s, v, pos, rem, ins)
    BY <1>2, <1>6, <1>7, <1>8, CopySplits
  <1>10. r = NewInternalFromSsoMiddle(m, s, pos, rem, ins)
    BY <1>1, <1>3, <1>5, <1>7, <1>8 DEF NewInternalFromSsoMiddle
  <1>11. QED
    BY <1>9, <1>10

(* The back moves, the front stays.                                        *)
LEMMA ShiftTailSplits ==
  ASSUME NEW m, NEW s \in Objs, Shape(m), NEW v, Spells(m, s, v),
         NEW pos, NEW rem, NEW ins, Gap(v, pos, rem, ins), Room(m, s, (Len(v) - rem) + ins)
  PROVE  LET r == ShiftTail(m, s, pos, rem, ins) IN
         Shape(r) /\ Split(r, s, v, pos, rem, ins)
  <1>1. PICK l : l = Len(v)
    OBVIOUS
  <1>2. PICK c : c = (l - rem) + ins
    OBVIOUS
  <1>3. /\ pos \in Nat /\ pos + rem \in Nat /\ pos + rem <= l /\ l - (pos + rem) \in Nat
        /\ pos + ins \in Nat /\ (pos + ins) + (l - (pos + rem)) <= c /\ 0 + pos <= pos + ins /\ 0 + pos <= l
    <2>1. (pos + ins) + (l - (pos + rem)) = c /\ c \in Nat
      BY <1>1, <1>2, GapNumbers
    <2>2. QED
      BY <1>1, <2>1, GapNumbers
  <1>4. PICK p : p = m.str[s]
    OBVIOUS
  <1>5. p.len = l /\ p.off \in Nat /\ Shows(m, p.blk, p.off, v, 0, p.len)
    BY <1>1, <1>4, SpellsTyped
  <1>6. PICK b : b = Back(p, pos + rem)
    OBVIOUS
  <1>7. b.len = l - (pos + rem) /\ Shows(m, b.blk, b.off, v, pos + rem, b.len)
    <2>1. pos + rem \in Nat /\ pos + rem <= p.len
      BY <1>3, <1>5
    <2>2. b.len = p.len - (pos + rem) /\ Shows(m, b.blk, b.off, v, pos + rem, b.len)
      BY <1>5, <1>6, <2>1, BackShows
    <2>3. QED
      BY <1>5, <2>2
  <1>8. PICK r : r = Put(m, s, pos + ins, Read(m, b))
    OBVIOUS
  <1>9. /\ Patched(m, r, m.str[s].blk, m.str[s].off + (pos + ins), b.len) /\ Shape(r)
        /\ Room(r, s, c) /\ Stands(r, s, pos + ins, v, pos + rem, b.len)
    <2>1. pos + ins \in Nat /\ (pos + ins) + b.len <= c /\ Room(m, s, c)
      BY <1>1, <1>2, <1>3, <1>7
    <2>2. QED
      BY <1>7, <1>8, <2>1, CopyStands
  <1>10. Stands(r, s, 0, v, 0, pos)
    <2>1. 0 \in Nat /\ pos \in Nat /\ pos + ins \in Nat /\ b.len \in Nat /\ m.str[s].off \in Nat
      BY <1>3, <1>4, <1>5, <1>7
    <2>2. Stands(m, s, 0, v, 0, pos)
      BY <1>1, <1>3, <2>1, PartStands
    <2>3. QED
      BY <1>3, <1>9, <2>1, <2>2, PatchStands
  <1>11. r = ShiftTail(m, s, pos, rem, ins)
    BY <1>4, <1>6, <1>8 DEF ShiftTail
  <1>12. QED
    BY <1>1, <1>2, <1>7, <1>9, <1>10, <1>11 DEF Split

(* The front moves to offset to of the block, the back stays or has moved.  *)
LEMMA HeadSplits ==
  ASSUME NEW m, NEW s \in Objs, Shape(m), NEW v, NEW pos, NEW rem, NEW ins, Gap(v, pos, rem, ins),
         NEW to \in Nat, m.str[s].blk \in DOMAIN m.mem, Sized(m.mem[m.str[s].blk]),
         to + ((Len(v) - rem) + ins) <= Len(m.mem[m.str[s].blk]),
         m.str[s].state # "NONE", m.str[s].state = "SSO" => Len(m.mem[m.str[s].blk]) = MaxSso,
         Shows(m, m.str[s].blk, to, v, 0, pos),
         Shows(m, m.str[s].blk, to + (pos + ins), v, pos + rem, Len(v) - (pos + rem))
  PROVE  LET n == PointTo(m, s, to) IN Shape(n) /\ Split(n, s, v, pos, rem, ins)
  <1>1. PICK n : n = PointTo(m, s, to)
    OBVIOUS
  <1>2. /\ Shape(n) /\ n.str[s].off = to /\ n.str[s].blk = m.str[s].blk
        /\ n.str[s].state = m.str[s].state /\ n.mem = m.mem
    BY <1>1, PointToStands
  <1>3. (Len(v) - rem) + ins \in Nat /\ to + 0 = to
    BY GapNumbers
  <1>4. Room(n, s, (Len(v) - rem) + ins)
    BY <1>2, <1>3 DEF Room, BlockSize
  <1>5. Stands(n, s, 0, v, 0, pos)
    BY <1>2, <1>3 DEF Stands, Shows
  <1>6. Stands(n, s, pos + ins, v, pos + rem, Len(v) - (pos + rem))
    BY <1>2 DEF Stands, Shows
  <1>7. QED
    BY <1>1, <1>2, <1>4, <1>5, <1>6 DEF Split

(* Where the parts of v stand in the block of s.                           *)
LEMMA PartsShown ==
  ASSUME NEW m, NEW p, NEW v, NEW pos, NEW rem, NEW ins, Gap(v, pos, rem, ins),
         p.len = Len(v), Shows(m, p.blk, p.off, v, 0, p.len)
  PROVE  LET f == Front(p, pos)
             b == Back(p, pos + rem)
         IN  /\ f.blk = p.blk /\ f.len = pos /\ f.off = p.off
             /\ Shows(m, p.blk, p.off, v, 0, pos)
             /\ b.blk = p.blk /\ b.len = Len(v) - (pos + rem) /\ b.off = p.off + (pos + rem)
             /\ Shows(m, p.blk, p.off + (pos + rem), v, pos + rem, Len(v) - (pos + rem))
  <1>1. pos \in Nat /\ pos <= p.len /\ pos + rem \in Nat /\ pos + rem <= p.len
    BY GapNumbers
  <1>2. PICK f : f = Front(p, pos)
    OBVIOUS
  <1>3. f.blk = p.blk /\ f.len = pos /\ f.off = p.off /\ Shows(m, f.blk, f.off, v, 0, f.len)
    BY <1>1, <1>2, FrontShows
  <1>4. PICK b : b = Back(p, pos + rem)
    OBVIOUS
  <1>5. /\ b.blk = p.blk /\ b.len = p.len - (pos + rem) /\ b.off = p.off + (pos + rem)
        /\ Shows(m, b.blk, b.off, v, pos + rem, b.len)
    BY <1>1, <1>4, BackShows
  <1>6. QED
    BY <1>2, <1>3, <1>4, <1>5

LEMMA ShiftHeadSplits ==
  ASSUME NEW m, NEW s \in Objs, Shape(m), NEW v, Spells(m, s, v),
         NEW pos, NEW rem, NEW ins, Gap(v, pos, rem, ins), ins - rem > 0, m.str[s].off >= ins - rem
  PROVE  LET r == ShiftHead(m, s, pos, ins - rem) IN Shape(r) /\ Split(r, s, v, pos, rem, ins)
  <1>1. PICK p : p = m.str[s]
    OBVIOUS
  <1>2. p.len = Len(v) /\ Shows(m, p.blk, p.off, v, 0, p.len) /\ Room(m, s, Len(v)) /\ p.off \in Nat
    BY <1>1, SpellsTyped
  <1>3. PICK b \in Nat : b = Len(m.mem[p.blk])
    BY <1>1, <1>2 DEF Room, Sized
  <1>4. PICK l \in Nat : l = Len(v)
    BY DEF Gap
  <1>5. PICK o \in Nat : o = p.off
    BY <1>2
  <1>6. /\ p.blk \in DOMAIN m.mem /\ Sized(m.mem[p.blk]) /\ o + l <= b /\ p.state # "NONE"
        /\ p.state = "SSO" => b = MaxSso
    BY <1>1, <1>2, <1>3, <1>4, <1>5 DEF Room, BlockSize
  <1>7. PICK at : at = o - (ins - rem)
    OBVIOUS
  <1>8. /\ at \in Nat /\ o + -(ins - rem) = at /\ at + pos <= b /\ at + pos <= o + (pos + rem)
        /\ at + (pos + ins) = o + (pos + rem) /\ at + ((l - rem) + ins) <= b
        /\ pos \in Nat /\ l - (pos + rem) \in Nat
    <2>1. /\ o >= ins - rem /\ ins - rem > 0 /\ pos \in Nat /\ rem \in Nat /\ ins \in Nat
          /\ pos + rem <= l
      BY <1>1, <1>4, <1>5 DEF Gap
    <2>2. QED
      BY <1>6, <1>7, <2>1
  <1>9. PICK f : f = Front(p, pos)
    OBVIOUS
  <1>10. f.blk = p.blk /\ f.len = pos /\ f.off = o /\ Shows(m, p.blk, o, v, 0, pos)
         /\ Shows(m, p.blk, o + (pos + rem), v, pos + rem, l - (pos + rem))
    <2>1. f.blk = p.blk /\ f.len = pos /\ f.off = p.off /\ Shows(m, p.blk, p.off, v, 0, pos)
      <3>1. pos \in Nat /\ pos <= p.len
        BY <1>2, GapNumbers
      <3>2. f.blk = p.blk /\ f.len = pos /\ f.off = p.off /\ Shows(m, f.blk, f.off, v, 0, f.len)
        BY <1>2, <1>9, <3>1, FrontShows
      <3>3. QED
        BY <3>2
    <2>2. Shows(m, p.blk, p.off + (pos + rem), v, pos + rem, Len(v) - (pos + rem))
      BY <1>2, PartsShown
    <2>3. QED
      BY <1>4, <1>5, <2>1, <2>2
  <1>11. PICK r : r = PutAt(m, p.blk, at, Read(m, f))
    OBVIOUS
  <1>12. Patched(m, r, p.blk, at, pos) /\ Shows(r, p.blk, at, v, 0, pos)
    <2>1. Shows(m, f.blk, f.off, v, 0, f.len) /\ at + f.len <= Len(m.mem[p.blk])
      BY <1>3, <1>8, <1>10
    <2>2. QED
      BY <1>6, <1>8, <1>10, <1>11, <2>1, CopyShows
  <1>13. Shape(r) /\ r.str = m.str
    BY <1>11, <1>12, PutAtShape DEF Patched
  <1>14. Shows(r, p.blk, o + (pos + rem), v, pos + rem, l - (pos + rem))
    BY <1>8, <1>10, <1>12, PatchKeeps
  <1>15. /\ p.blk \in DOMAIN r.mem /\ Sized(r.mem[p.blk]) /\ Len(r.mem[p.blk]) = b
    BY <1>3, <1>6, <1>12 DEF Patched
  <1>16. PICK n : n = PointTo(r, s, at)
    OBVIOUS
  <1>17. Shape(n) /\ Split(n, s, v, pos, rem, ins)
    <2>1. r.str[s] = p /\ at + ((Len(v) - rem) + ins) <= Len(r.mem[p.blk])
      BY <1>1, <1>4, <1>8, <1>13, <1>15
    <2>2. Shows(r, p.blk, at + (pos + ins), v, pos + rem, Len(v) - (pos + rem))
      BY <1>4, <1>8, <1>14
    <2>3. QED
      BY <1>6, <1>8, <1>12, <1>13, <1>15, <1>16, <2>1, <2>2, HeadSplits
  <1>18. n = ShiftHead(m, s, pos, ins - rem)
    BY <1>1, <1>5, <1>7, <1>8, <1>9, <1>11, <1>16 DEF ShiftHead, Put
  <1>19. QED
    BY <1>17, <1>18

(* Both parts move to the start of the block.                              *)
LEMMA ToStartSplits ==
  ASSUME NEW m, NEW s \in Objs, Shape(m), NEW v, Spells(m, s, v),
         NEW pos, NEW rem, NEW ins, Gap(v, pos, rem, ins),
         (Len(v) - rem) + ins <= BlockSize(m, s)
  PROVE  LET p == m.str[s]
             q == PutAt(m, p.blk, 0, Read(m, Front(p, pos)))
             r == PutAt(q, p.blk, pos + ins, Read(q, Back(p, pos + rem)))
             n == PointTo(r, s, 0)
         IN  Shape(n) /\ Split(n, s, v, pos, rem, ins)
  <1>1. PICK p : p = m.str[s]
    OBVIOUS
  <1>2. p.len = Len(v) /\ Shows(m, p.blk, p.off, v, 0, p.len) /\ Room(m, s, Len(v)) /\ p.off \in Nat
    BY <1>1, SpellsTyped
  <1>3. PICK b \in Nat : b = Len(m.mem[p.blk])
    BY <1>1, <1>2 DEF Room, Sized
  <1>4. PICK l \in Nat : l = Len(v)
    BY DEF Gap
  <1>5. PICK o \in Nat : o = p.off
    BY <1>2
  <1>6. /\ p.blk \in DOMAIN m.mem /\ Sized(m.mem[p.blk]) /\ o + l <= b /\ p.state # "NONE"
        /\ p.state = "SSO" => b = MaxSso
    BY <1>1, <1>2, <1>3, <1>4, <1>5 DEF Room, BlockSize
  <1>7. /\ 0 + pos <= b /\ 0 + pos <= o + (pos + rem) /\ pos + ins \in Nat
        /\ (pos + ins) + (l - (pos + rem)) <= b /\ 0 + ((l - rem) + ins) <= b
        /\ pos \in Nat /\ l - (pos + rem) \in Nat /\ 0 \in Nat /\ 0 + pos <= pos + ins
        /\ 0 + (pos + ins) = pos + ins
    <2>1. pos \in Nat /\ rem \in Nat /\ ins \in Nat /\ pos + rem <= l /\ (l - rem) + ins <= b
      BY <1>1, <1>3, <1>4 DEF Gap, BlockSize
    <2>2. QED
      BY <1>6, <2>1
  <1>8. PICK f : f = Front(p, pos)
    OBVIOUS
  <1>9. PICK k : k = Back(p, pos + rem)
    OBVIOUS
  <1>10. /\ f.blk = p.blk /\ f.len = pos /\ f.off = o /\ Shows(m, p.blk, o, v, 0, pos)
         /\ Shows(m, p.blk, o + (pos + rem), v, pos + rem, l - (pos + rem))
    <2>1. f.blk = p.blk /\ f.len = pos /\ f.off = p.off /\ Shows(m, p.blk, p.off, v, 0, pos)
      <3>1. pos \in Nat /\ pos <= p.len
        BY <1>2, GapNumbers
      <3>2. f.blk = p.blk /\ f.len = pos /\ f.off = p.off /\ Shows(m, f.blk, f.off, v, 0, f.len)
        BY <1>2, <1>8, <3>1, FrontShows
      <3>3. QED
        BY <3>2
    <2>2. Shows(m, p.blk, p.off + (pos + rem), v, pos + rem, Len(v) - (pos + rem))
      BY <1>2, PartsShown
    <2>3. QED
      BY <1>4, <1>5, <2>1, <2>2
  <1>11. k.blk = p.blk /\ k.len = l - (pos + rem) /\ k.off = o + (pos + rem)
    <2>1. k.blk = p.blk /\ k.len = Len(v) - (pos + rem) /\ k.off = p.off + (pos + rem)
      BY <1>2, <1>9, PartsShown
    <2>2. QED
      BY <1>4, <1>5, <2>1
  <1>12. PICK q : q = PutAt(m, p.blk, 0, Read(m, f))
    OBVIOUS
  <1>13. Patched(m, q, p.blk, 0, pos) /\ Shows(q, p.blk, 0, v, 0, pos)
    <2>1. Shows(m, f.blk, f.off, v, 0, f.len) /\ 0 + f.len <= Len(m.mem[p.blk])
      BY <1>3, <1>7, <1>10
    <2>2. QED
      BY <1>6, <1>7, <1>10, <1>12, <2>1, CopyShows
  <1>14. Shows(q, p.blk, o + (pos + rem), v, pos + rem, l - (pos + rem))
    BY <1>7, <1>10, <1>13, PatchKeeps
  <1>15. Shape(q) /\ q.str = m.str /\ p.blk \in DOMAIN q.mem /\ Sized(q.mem[p.blk]) /\ Len(q.mem[p.blk]) = b
    BY <1>3, <1>6, <1>12, <1>13, PutAtShape DEF Patched
  <1>16. PICK r : r = PutAt(q, p.blk, pos + ins, Read(q, k))
    OBVIOUS
  <1>17. /\ Patched(q, r, p.blk, pos + ins, l - (pos + rem))
         /\ Shows(r, p.blk, pos + ins, v, pos + rem, l - (pos + rem))
    <2>1. Shows(q, k.blk, k.off, v, pos + rem, k.len) /\ (pos + ins) + k.len <= Len(q.mem[p.blk])
      BY <1>7, <1>11, <1>14, <1>15
    <2>2. QED
      BY <1>7, <1>11, <1>15, <1>16, <2>1, CopyShows
  <1>18. Shows(r, p.blk, 0, v, 0, pos)
    BY <1>7, <1>13, <1>17, PatchKeeps
  <1>19. /\ Shape(r) /\ r.str = m.str /\ p.blk \in DOMAIN r.mem /\ Sized(r.mem[p.blk]) /\ Len(r.mem[p.blk]) = b
    BY <1>15, <1>16, <1>17, PutAtShape DEF Patched
  <1>20. PICK n : n = PointTo(r, s, 0)
    OBVIOUS
  <1>21. Shape(n) /\ Split(n, s, v, pos, rem, ins)
    <2>1. r.str[s] = p /\ 0 + ((Len(v) - rem) + ins) <= Len(r.mem[p.blk])
      BY <1>1, <1>4, <1>7, <1>19
    <2>2. Shows(r, p.blk, 0 + (pos + ins), v, pos + rem, Len(v) - (pos + rem))
      BY <1>4, <1>7, <1>17
    <2>3. QED
      BY <1>6, <1>7, <1>18, <1>19, <1>20, <2>1, <2>2, HeadSplits
  <1>22. QED
    BY <1>1, <1>8, <1>9, <1>12, <1>16, <1>20, <1>21

(* s alone owns its block and the block is large enough.                    *)
LEMMA MiddleMoveSplits ==
  ASSUME NEW m, NEW s \in Objs, Shape(m), NEW v, Spells(m, s, v),
         NEW pos, NEW rem, NEW ins, Gap(v, pos, rem, ins),
         (Len(v) - rem) + ins <= BlockSize(m, s)
  PROVE  LET r == ReserveMiddleMove(m, s, pos, rem, ins) IN
         Shape(r) /\ Split(r, s, v, pos, rem, ins)
  <1>1. PICK p : p = m.str[s]
    OBVIOUS
  <1>2. p.len = Len(v) /\ Room(m, s, Len(v)) /\ p.off \in Nat
    BY <1>1, SpellsTyped
  <1>3. PICK b \in Nat : b = BlockSize(m, s)
    BY <1>1, <1>2 DEF Room, Sized, BlockSize
  <1>4. PICK l \in Nat : l = Len(v)
    BY DEF Gap
  <1>5. PICK o \in Nat : o = p.off
    BY <1>2
  <1>6. PICK c \in Nat : c = (Len(v) - rem) + ins
    BY GapNumbers
  <1>7. rem \in Nat /\ ins \in Nat /\ c = (l - rem) + ins /\ o + l <= b
    BY <1>1, <1>2, <1>3, <1>4, <1>5, <1>6 DEF Gap, Room
  <1>8. CapacityTail(m, s) = b - o
    BY <1>1, <1>3, <1>5 DEF CapacityTail
  <1>9. PICK d : d = ins - rem
    OBVIOUS
  <1>10. d <= 0 => o + c <= b
    BY <1>3, <1>4, <1>5, <1>6, <1>7, <1>9
  <1>11. (b - o) - l >= d => o + c <= b
    BY <1>3, <1>4, <1>5, <1>6, <1>7, <1>9
  <1>12. o + c <= b => Room(m, s, c)
    BY <1>1, <1>2, <1>3, <1>5, <1>6 DEF Room
  <1>13. PICK tail : tail = ShiftTail(m, s, pos, rem, ins)
    OBVIOUS
  <1>14. o + c <= b => Shape(tail) /\ Split(tail, s, v, pos, rem, ins)
    BY <1>6, <1>12, <1>13, ShiftTailSplits
  <1>15. PICK head : head = ShiftHead(m, s, pos, ins - rem)
    OBVIOUS
  <1>16. d > 0 /\ o >= d => Shape(head) /\ Split(head, s, v, pos, rem, ins)
    BY <1>1, <1>5, <1>9, <1>15, ShiftHeadSplits
  <1>17. PICK q : q = PutAt(m, p.blk, 0, Read(m, Front(p, pos)))
    OBVIOUS
  <1>18. PICK all : all = PointTo(PutAt(q, p.blk, pos + ins, Read(q, Back(p, pos + rem))), s, 0)
    OBVIOUS
  <1>19. Shape(all) /\ Split(all, s, v, pos, rem, ins)
    BY <1>1, <1>17, <1>18, ToStartSplits
  <1>20. PICK r : r = ReserveMiddleMove(m, s, pos, rem, ins)
    OBVIOUS
  <1>21. \/ r = tail /\ d <= 0
         \/ r = tail /\ (b - o) - l >= d
         \/ r = head /\ d > 0 /\ o >= d
         \/ r = all
    BY <1>1, <1>2, <1>4, <1>5, <1>8, <1>9, <1>13, <1>15, <1>17, <1>18, <1>20 DEF ReserveMiddleMove
  <1>22. QED
    BY <1>10, <1>11, <1>14, <1>16, <1>19, <1>20, <1>21

LEMMA AlikeSplit ==
  ASSUME NEW m, NEW n, NEW s, Alike(m, n, s), NEW v, NEW pos, NEW rem, NEW ins, Split(m, s, v, pos, rem, ins)
  PROVE  Split(n, s, v, pos, rem, ins)
  BY AlikeRoom, AlikeStands DEF Split

LEMMA SetLenSplit ==
  ASSUME NEW m, NEW s \in Objs, Shape(m), NEW v, NEW pos, NEW rem, NEW ins, Split(m, s, v, pos, rem, ins),
         NEW len \in Nat
  PROVE  LET n == SetLen(m, s, len) IN
         Shape(n) /\ Split(n, s, v, pos, rem, ins) /\ n.str[s].len = len
  <1>1. PICK n : n = SetLen(m, s, len)
    OBVIOUS
  <1>2. Shape(n) /\ Room(n, s, (Len(v) - rem) + ins) /\ n.str[s].len = len
    BY <1>1, SetLenKeeps DEF Split
  <1>3. PICK p : p = m.str[s]
    OBVIOUS
  <1>4. n.mem = m.mem /\ n.str = [m.str EXCEPT ![s].len = len]
    BY <1>1 DEF SetLen, Shape
  <1>5. n.str[s].blk = p.blk /\ n.str[s].off = p.off
    <2>1. p \in StrRec
      BY <1>3 DEF Shape
    <2>2. QED
      BY <1>3, <1>4, <2>1 DEF Shape, StrRec
  <1>6. QED
    BY <1>1, <1>2, <1>3, <1>4, <1>5 DEF Split, Stands, Shows

LEMMA MiddleReleased ==
  ASSUME NEW m, NEW s, Able(m, s), m.str[s].state \in Counted, NEW pos, NEW rem, NEW ins
  PROVE  Shape(ReleaseBuffer(ReserveMiddleNew(m, s, pos, rem, ins), m.str[s]))
  <1>1. PICK n : n = ReserveMiddleNew(m, s, pos, rem, ins)
    OBVIOUS
  <1>2. Rehomed(m, n, s) /\ Granted(m, n, s)
    BY <1>1, AbleApt, ReserveMiddleNewRehomes, NewStorageGranted DEF Apt
  <1>3. Granted(m, ReleaseBuffer(n, m.str[s]), s)
    BY <1>2, OldReleased
  <1>4. QED
    BY <1>1, <1>3 DEF Granted, Confined

LEMMA ReserveMiddleSplits ==
  ASSUME NEW m, NEW s, Able(m, s), m.str[s].state # "NONE", NEW v, Spells(m, s, v),
         NEW pos, NEW rem, NEW ins, Gap(v, pos, rem, ins)
  PROVE  LET n == ReserveMiddle(m, s, pos, rem, ins) IN
         Shape(n) /\ Split(n, s, v, pos, rem, ins) /\ n.str[s].len = (Len(v) - rem) + ins
  <1>1. Apt(m, s) /\ Shape(m) /\ Housed(m) /\ s \in Objs /\ m.str[s].state \in States
    BY AbleApt DEF Shape, StrRec
  <1>2. PICK p : p = m.str[s]
    OBVIOUS
  <1>3. p.len = Len(v) /\ Room(m, s, Len(v)) /\ Len(v) \in Nat
    BY <1>2, SpellsTyped
  <1>4. PICK c \in Nat : c = (Len(v) - rem) + ins
    BY GapNumbers
  <1>5. p.len + ins - rem = c
    BY <1>3, <1>4 DEF Gap
  <1>6. PICK b \in Nat : b = BlockSize(m, s)
    BY <1>3 DEF Room, Sized, BlockSize
  <1>7. PICK n : n = ReserveMiddle(m, s, pos, rem, ins)
    OBVIOUS
  <1>8. SUFFICES \E r : n = SetLen(r, s, c) /\ Shape(r) /\ Split(r, s, v, pos, rem, ins)
    BY <1>1, <1>4, <1>7, SetLenSplit
  <1>9. CASE p.state \in Counted /\ ~Unique(m, s)
    <2>1. PICK d : d = DecRef(m, p.blk)
      OBVIOUS
    <2>2. Elsewhere(d, s) /\ Apt(d, s) /\ Alike(m, d, s)
      BY <1>2, <1>9, <2>1, SharedApart
    <2>3. Spells(d, s, v)
      BY <2>2, AlikeSpells
    <2>4. PICK r : r = ReserveMiddleNew(d, s, pos, rem, ins)
      OBVIOUS
    <2>5. Shape(r) /\ Split(r, s, v, pos, rem, ins)
      BY <2>2, <2>3, <2>4, MiddleNewSplits
    <2>6. n = SetLen(r, s, c)
      BY <1>2, <1>5, <1>7, <1>9, <2>1, <2>4 DEF ReserveMiddle, Counted
    <2>7. QED
      BY <2>5, <2>6
  <1>10. CASE p.state \in Counted /\ Unique(m, s) /\ c > b
    <2>1. PICK h : h = ReserveMiddleNew(m, s, pos, rem, ins)
      OBVIOUS
    <2>2. Shape(h) /\ Split(h, s, v, pos, rem, ins) /\ h.str[s].blk # p.blk
      BY <1>1, <1>2, <1>10, <2>1, CountedApart, MiddleNewSplits
    <2>3. PICK r : r = ReleaseBuffer(h, p)
      OBVIOUS
    <2>4. Alike(h, r, s)
      BY <2>2, <2>3, ReleaseAlike DEF Split, Room
    <2>5. Split(r, s, v, pos, rem, ins)
      BY <2>2, <2>4, AlikeSplit
    <2>6. Shape(r)
      BY <1>1, <1>2, <1>10, <2>1, <2>3, MiddleReleased
    <2>7. n = SetLen(r, s, c)
      BY <1>2, <1>5, <1>6, <1>7, <1>10, <2>1, <2>3 DEF ReserveMiddle, Counted
    <2>8. QED
      BY <2>5, <2>6, <2>7
  <1>11. CASE p.state = "LITERAL"
    <2>1. PICK r : r = ReserveMiddleNew(m, s, pos, rem, ins)
      OBVIOUS
    <2>2. Shape(r) /\ Split(r, s, v, pos, rem, ins)
      BY <1>1, <1>2, <1>11, <2>1, LiteralApart, MiddleNewSplits
    <2>3. n = SetLen(r, s, c)
      BY <1>2, <1>5, <1>7, <1>11, <2>1 DEF ReserveMiddle, Counted
    <2>4. QED
      BY <2>2, <2>3
  <1>12. CASE p.state = "SSO" /\ c > MaxSso
    <2>1. PICK r : r = NewInternalFromSsoMiddle(m, s, pos, rem, ins)
      OBVIOUS
    <2>2. Shape(r) /\ Split(r, s, v, pos, rem, ins)
      BY <1>1, <2>1, FromSsoMiddleSplits
    <2>3. n = SetLen(r, s, c)
      BY <1>2, <1>5, <1>7, <1>12, <2>1 DEF ReserveMiddle, Counted
    <2>4. QED
      BY <2>2, <2>3
  <1>13. CASE \/ p.state \in Counted /\ Unique(m, s) /\ ~(c > b)
              \/ p.state = "SSO" /\ ~(c > MaxSso)
    <2>1. PICK r : r = ReserveMiddleMove(m, s, pos, rem, ins)
      OBVIOUS
    <2>2. c <= b
      <3>1. p.state = "SSO" => b = MaxSso
        BY <1>2, <1>3, <1>6 DEF Room
      <3>2. QED
        BY <1>4, <1>6, <1>13, <3>1
    <2>3. Shape(r) /\ Split(r, s, v, pos, rem, ins)
      BY <1>1, <1>4, <1>6, <2>1, <2>2, MiddleMoveSplits
    <2>4. n = SetLen(r, s, c)
      BY <1>2, <1>5, <1>6, <1>7, <1>13, <2>1 DEF ReserveMiddle, Counted
    <2>5. QED
      BY <2>3, <2>4
  <1>14. QED
    BY <1>1, <1>2, <1>9, <1>10, <1>11, <1>12, <1>13 DEF States, Counted

(* The characters before pos.                                              *)
Begin(v, pos) == [i \in 1..pos |-> v[i]]

LEMMA BeginSpliced ==
  ASSUME NEW v, NEW pos, NEW w, NEW from, NEW n, NEW u, Spliced(u, v, pos, Len(v) - pos, w, from, n)
  PROVE  /\ Len(Begin(v, pos)) = pos
         /\ Spliced(Begin(v, pos), v, pos, Len(v) - pos, w, from, 0)
         /\ Spliced(u, Begin(v, pos), pos, 0, w, from, n)
  <1>1. PICK l \in Nat : l = Len(v)
    BY DEF Spliced
  <1>2. /\ pos \in Nat /\ l - pos \in Nat /\ n \in Nat /\ Len(u) \in Nat /\ Len(u) = pos + n
        /\ pos + (l - pos) <= l /\ (l - (l - pos)) + 0 = pos
        /\ l - (pos + (l - pos)) = 0 /\ pos - (pos + 0) = 0 /\ pos + 0 <= pos /\ (pos - 0) + n = pos + n
    <2>1. /\ pos \in Nat /\ l - pos \in Nat /\ n \in Nat /\ Len(u) \in Nat
          /\ Len(u) = (l - (l - pos)) + n
      BY <1>1 DEF Spliced
    <2>2. QED
      BY <2>1
  <1>3. PICK b : b = Begin(v, pos)
    OBVIOUS
  <1>4. Len(b) = pos /\ \A i \in 1..pos : b[i] = v[i]
    BY <1>2, <1>3 DEF Begin
  <1>5. 0 \in Nat /\ 1..0 = {}
    OBVIOUS
  <1>6. Spliced(b, v, pos, l - pos, w, from, 0)
    BY <1>1, <1>2, <1>4, <1>5 DEF Spliced
  <1>7. (\A i \in 1..pos : u[i] = v[i]) /\ (\A i \in 1..n : u[pos + i] = w[from + i])
    BY DEF Spliced
  <1>8. Spliced(u, b, pos, 0, w, from, n)
    BY <1>2, <1>4, <1>5, <1>7 DEF Spliced
  <1>9. QED
    BY <1>1, <1>3, <1>4, <1>6, <1>8

(* The tail is cut off, then the source appended.                          *)
LEMMA ReplaceTailSpells ==
  ASSUME NEW m, NEW s, Able(m, s), m.str[s].state # "NONE", NEW v, Spells(m, s, v), NEW pos,
         NEW p, NEW w, NEW from, Source(m, s, p, w, from),
         NEW u, Spliced(u, v, pos, Len(v) - pos, w, from, p.len)
  PROVE  Spells(AppendChars(SetLen(m, s, pos), s, p), s, u)
  <1>1. PICK b : b = Begin(v, pos)
    OBVIOUS
  <1>2. Len(b) = pos /\ Spliced(b, v, pos, Len(v) - pos, w, from, 0) /\ Spliced(u, b, pos, 0, w, from, p.len)
    BY <1>1, BeginSpliced
  <1>3. s \in Objs /\ Shape(m) /\ Housed(m) /\ Balanced(m) /\ Assumptions /\ FreeBuffers(m) # {}
        /\ pos \in Nat /\ pos + (Len(v) - pos) = Len(v)
    <2>1. pos \in Nat /\ Len(v) \in Nat
      BY DEF Spliced
    <2>2. QED
      BY <2>1, AbleApt DEF Apt
  <1>4. PICK c : c = SetLen(m, s, pos)
    OBVIOUS
  <1>5. Spells(c, s, b)
    BY <1>2, <1>3, <1>4, TruncateSpells
  <1>6. Confined(m, c, s) /\ c.str[s].state = m.str[s].state
    BY <1>3, <1>4, SetLenConfined
  <1>7. Able(c, s)
    BY <1>3, <1>4, <1>6, LengthFirst DEF Able, Ready, Confined
  <1>8. Source(c, s, p, w, from)
    BY <1>6, SourceStays
  <1>9. Spliced(u, b, Len(b), 0, w, from, p.len)
    BY <1>2
  <1>10. QED
    BY <1>4, <1>5, <1>6, <1>7, <1>8, <1>9, AppendCharsSpells

(* Room is made in the middle, then the source written there.              *)
LEMMA ReplaceMiddleSpells ==
  ASSUME NEW m, NEW s, Able(m, s), m.str[s].state # "NONE", NEW v, Spells(m, s, v), NEW pos, NEW rem,
         NEW p, NEW w, NEW from, Source(m, s, p, w, from),
         NEW u, Spliced(u, v, pos, rem, w, from, p.len)
  PROVE  LET r == ReserveMiddle(m, s, pos, rem, p.len) IN Spells(Put(r, s, pos, Read(r, p)), s, u)
  <1>1. Gap(v, pos, rem, p.len) /\ (Len(v) - rem) + p.len = Len(u) /\ s \in Objs /\ m.str[s].len = Len(v)
    BY SplicedGap, AbleApt, SpellsTyped
  <1>2. PICK r : r = ReserveMiddle(m, s, pos, rem, p.len)
    OBVIOUS
  <1>3. Shape(r) /\ Split(r, s, v, pos, rem, p.len) /\ r.str[s].len = Len(u)
    BY <1>1, <1>2, ReserveMiddleSplits
  <1>4. Granted(m, r, s)
    <2>1. pos \in Nat /\ rem \in Nat /\ p.len \in Nat /\ rem <= m.str[s].len - pos
      BY <1>1 DEF Gap
    <2>2. QED
      BY <1>2, <2>1, ReserveMiddleGranted
  <1>5. Shows(r, p.blk, p.off, w, from, p.len)
    BY <1>4, SourceStays DEF Granted, Source
  <1>6. pos \in Nat /\ pos + p.len <= Len(u) /\ Room(r, s, Len(u))
    BY <1>1, <1>3, SplicedNumbers DEF Split
  <1>7. PICK n : n = Put(r, s, pos, Read(r, p))
    OBVIOUS
  <1>8. /\ Patched(r, n, r.str[s].blk, r.str[s].off + pos, p.len)
        /\ Stands(n, s, pos, w, from, p.len)
    BY <1>1, <1>3, <1>5, <1>6, <1>7, CopyStands
  <1>9. Written(n, s, u)
    BY <1>3, <1>6, <1>8, PatchedWritten DEF Split
  <1>10. n.str[s].len = Len(u)
    BY <1>3, <1>8 DEF Patched
  <1>11. QED
    BY <1>2, <1>7, <1>9, <1>10 DEF Written, Spells

LEMMA ReplaceSpells ==
  ASSUME NEW m, NEW s, Able(m, s), m.str[s].state # "NONE", NEW v, Spells(m, s, v),
         NEW pos \in Nat, pos <= Len(v), NEW rem \in Nat,
         NEW p, NEW w, NEW from, Source(m, s, p, w, from), NEW u,
         Spliced(u, v, pos, IF rem > Len(v) - pos THEN Len(v) - pos ELSE rem, w, from, p.len)
  PROVE  Spells(Replace(m, s, pos, rem, p), s, u)
  <1>1. PICK l \in Nat : l = Len(v)
    BY SpellsTyped
  <1>2. m.str[s].len = l /\ p.len \in Nat
    BY <1>1, SpellsTyped DEF Source, Shows
  <1>3. CASE pos = l
    <2>1. (IF rem > Len(v) - pos THEN Len(v) - pos ELSE rem) = 0
      BY <1>1, <1>3
    <2>2. Spliced(u, v, Len(v), 0, w, from, p.len)
      BY <1>1, <1>3, <2>1
    <2>3. QED
      BY <1>2, <1>3, <2>2, AppendCharsSpells DEF Replace
  <1>4. CASE pos < l /\ rem >= l - pos
    <2>1. (IF rem > Len(v) - pos THEN Len(v) - pos ELSE rem) = Len(v) - pos
      BY <1>1, <1>4
    <2>2. Spliced(u, v, pos, Len(v) - pos, w, from, p.len)
      BY <2>1
    <2>3. Spells(AppendChars(SetLen(m, s, pos), s, p), s, u)
      BY <2>2, ReplaceTailSpells
    <2>4. QED
      BY <1>1, <1>2, <1>4, <2>3 DEF Replace
  <1>5. CASE pos < l /\ rem < l - pos
    <2>1. Spliced(u, v, pos, rem, w, from, p.len)
      <3>1. (IF rem > Len(v) - pos THEN Len(v) - pos ELSE rem) = rem
        BY <1>1, <1>5
      <3>2. QED
        BY <3>1
    <2>2. CASE p.len = 0 /\ rem = 0
      <3>1. Spells(m, s, u)
        BY <2>1, <2>2, SameSpells
      <3>2. QED
        BY <1>2, <1>5, <2>2, <3>1 DEF Replace
    <2>3. CASE p.len = 0 /\ rem # 0
      <3>1. Spells(Erase(m, s, pos, rem), s, u)
        BY <2>3, EraseSpells
      <3>2. QED
        BY <1>1, <1>2, <1>5, <2>3, <3>1 DEF Replace
    <2>4. CASE p.len # 0
      <3>1. PICK r : r = ReserveMiddle(m, s, pos, rem, p.len)
        OBVIOUS
      <3>2. Spells(Put(r, s, pos, Read(r, p)), s, u)
        BY <2>1, <3>1, ReplaceMiddleSpells
      <3>3. QED
        BY <1>1, <1>2, <1>5, <2>4, <3>1, <3>2 DEF Replace
    <2>5. QED
      BY <2>2, <2>3, <2>4
  <1>6. QED
    BY <1>1, <1>3, <1>4, <1>5

LEMMA SpellsAlive ==
  ASSUME NEW m, NEW s, NEW v, Spells(m, s, v)
  PROVE  m.str[s].state # "NONE"
  BY DEF Spells, Room

(* An object that a call leaves alone goes on reading what it read.         *)
LEMMA UntouchedSpells ==
  ASSUME NEW m, NEW n, NEW S, Untouched(m, n, S), Shape(m), NEW t \in Objs \ S,
         NEW w, Spells(m, t, w)
  PROVE  Spells(n, t, w)
  <1>1. n.str[t] = m.str[t] /\ n.mem[m.str[t].blk] = m.mem[m.str[t].blk]
    BY SpellsAlive DEF Untouched
  <1>2. m.str[t].blk \in DOMAIN n.mem
    BY DEF Untouched, Housed, Shape, StrRec, Blocks
  <1>3. Alike(m, n, t)
    BY <1>1, <1>2 DEF Alike
  <1>4. QED
    BY <1>3, AlikeSpells

LEMMA SliceSource ==
  ASSUME NEW m, NEW s, NEW t \in Objs, Shape(m), Housed(m), s # t,
         NEW w, Spells(m, t, w), NEW pos \in Nat, pos <= Len(w), NEW n \in Nat
  PROVE  Source(m, s, Slice(m.str[t], pos, n), w, pos)
  <1>1. PICK p : p = m.str[t]
    OBVIOUS
  <1>2. p.len = Len(w) /\ p.len \in Nat /\ p.state # "NONE"
    BY <1>1, SpellsTyped, SpellsAlive
  <1>3. PICK k : k = Slice(p, pos, n).len
    OBVIOUS
  <1>4. k \in Nat /\ pos + k <= Len(w)
    BY <1>2, <1>3, SliceWithin
  <1>5. Slice(p, pos, n) = [blk |-> p.blk, off |-> p.off + pos, len |-> k]
    BY <1>3 DEF Slice
  <1>6. QED
    BY <1>1, <1>2, <1>4, <1>5, OtherSource

LEMMA CopyInTmp ==
  ASSUME NEW m, NEW s \in Strings, Able(m, s), m.str[Tmp].state = "NONE"
  PROVE  LET c == Cow(m, Tmp, s, 0, m.str[s].len) IN
         /\ Able(c, s) /\ Shape(c) /\ Housed(c)
         /\ Confined(m, c, Tmp) /\ c.str[s] = m.str[s] /\ c.str[Tmp].len = m.str[s].len
  <1>1. /\ s \in Objs /\ Tmp \in Objs /\ Tmp # s /\ Shape(m) /\ Housed(m) /\ Balanced(m)
        /\ Assumptions /\ FreeBuffers(m) # {} /\ m.str[s].len \in Nat
    BY AbleApt, FieldsTyped DEF Objs, Assumptions, Apt
  <1>2. PICK c : c = Cow(m, Tmp, s, 0, m.str[s].len)
    OBVIOUS
  <1>3. Outcome(m, c, Tmp) /\ c.str[s] = m.str[s] /\ c.str[Tmp].len = m.str[s].len
        /\ FreeBuffers(m) \subseteq FreeBuffers(c)
    BY <1>1, <1>2, CowGood DEF Counted
  <1>4. Confined(m, c, Tmp)
    BY <1>1, <1>2, CowConfined DEF Counted
  <1>5. Able(c, s) /\ Shape(c) /\ Housed(c)
    BY <1>1, <1>3, <1>4 DEF Able, Ready, Outcome, Confined
  <1>6. QED
    BY <1>2, <1>3, <1>4, <1>5

LEMMA ReplaceStringSpells ==
  ASSUME NEW m, NEW s \in Strings, Able(m, s), m.str[s].state # "NONE", NEW v, Spells(m, s, v),
         m.str[Tmp].state = "NONE", NEW t \in Strings, NEW w, Spells(m, t, w),
         NEW pos \in Nat, pos <= Len(v), NEW rem \in Nat, NEW pos2 \in Nat, pos2 <= Len(w), NEW n2 \in Nat,
         NEW u, Spliced(u, v, pos, IF rem > Len(v) - pos THEN Len(v) - pos ELSE rem,
                        w, pos2, Slice(m.str[t], pos2, n2).len)
  PROVE  Spells(ReplaceString(m, s, pos, rem, t, pos2, n2), s, u)
  <1>1. /\ s \in Objs /\ t \in Objs /\ Tmp \in Objs /\ Tmp # s /\ Tmp # t
        /\ Shape(m) /\ Housed(m) /\ Balanced(m) /\ Assumptions /\ FreeBuffers(m) # {}
    BY AbleApt DEF Objs, Assumptions, Apt
  <1>2. CASE s # t
    <2>1. PICK p : p = Slice(m.str[t], pos2, n2)
      OBVIOUS
    <2>2. Source(m, s, p, w, pos2)
      BY <1>1, <1>2, <2>1, SliceSource
    <2>3. Spells(Replace(m, s, pos, rem, p), s, u)
      BY <2>1, <2>2, ReplaceSpells
    <2>4. QED
      BY <1>2, <2>1, <2>3 DEF ReplaceString
  <1>3. CASE s = t
    <2>1. PICK c : c = Cow(m, Tmp, s, 0, m.str[s].len)
      OBVIOUS
    <2>2. m.str[s].len = Len(v) /\ m.str[s].len \in Nat /\ m.str[t].len = Len(w)
      BY SpellsTyped
    <2>3. /\ Able(c, s) /\ Shape(c) /\ Housed(c)
          /\ Confined(m, c, Tmp) /\ c.str[s] = m.str[s] /\ c.str[Tmp].len = m.str[s].len
      BY <2>1, CopyInTmp
    <2>4. Spells(c, Tmp, w)
      <3>1. Excerpt(w, w, 0, m.str[s].len)
        BY <1>3, <2>2, WholeExcerpt
      <3>2. QED
        BY <1>1, <1>3, <2>1, <3>1, CowSpells
    <2>5. Spells(c, s, v)
      <3>1. Untouched(m, c, {Tmp})
        BY <1>1, <2>3, ConfinedUntouched
      <3>2. QED
        BY <1>1, <3>1, UntouchedSpells
    <2>6. PICK p : p = Slice(c.str[Tmp], pos2, n2)
      OBVIOUS
    <2>7. Source(c, s, p, w, pos2)
      BY <1>1, <2>3, <2>4, <2>6, SliceSource
    <2>8. p.len = Slice(m.str[t], pos2, n2).len /\ p.len \in Nat
      <3>1. p.len = Slice(m.str[t], pos2, n2).len
        BY <1>3, <2>3, <2>6 DEF Slice
      <3>2. QED
        BY <2>7, <3>1 DEF Source, Shows
    <2>9. PICK r : r = Replace(c, s, pos, rem, p)
      OBVIOUS
    <2>10. Spells(r, s, u)
      BY <2>3, <2>5, <2>7, <2>8, <2>9, ReplaceSpells
    <2>11. pos <= c.str[s].len /\ c.str[s].state # "NONE"
      BY <2>2, <2>3
    <2>12. Confined(c, r, s)
      BY <2>3, <2>8, <2>9, <2>11, ReplaceConfined
    <2>13. Balanced(r)
      BY <2>3, <2>8, <2>9, <2>11, ReplaceGood DEF Able, Outcome
    <2>14. PICK z : z = Release(r, Tmp)
      OBVIOUS
    <2>15. Confined(r, z, Tmp)
      BY <1>1, <2>12, <2>13, <2>14, ReleaseConfined DEF Confined
    <2>16. Spells(z, s, u)
      <3>1. Shape(r) /\ Housed(r)
        BY <2>12 DEF Confined
      <3>2. Untouched(r, z, {Tmp})
        BY <2>15, <3>1, ConfinedUntouched
      <3>3. QED
        BY <1>1, <2>10, <3>1, <3>2, UntouchedSpells
    <2>17. z = ReplaceString(m, s, pos, rem, t, pos2, n2)
      BY <1>3, <2>1, <2>6, <2>9, <2>14 DEF ReplaceString
    <2>18. QED
      BY <2>16, <2>17
  <1>4. QED
    BY <1>2, <1>3

(***************************************************************************)
(* The operators of StringValue, character by character.                   *)
(***************************************************************************)
Clip(v, pos, n) == IF n > Len(v) - pos THEN Len(v) - pos ELSE n

LEMMA ClipTyped ==
  ASSUME NEW v, Len(v) \in Nat, NEW pos \in Nat, pos <= Len(v), NEW n \in Nat
  PROVE  /\ Clip(v, pos, n) \in Nat /\ pos + Clip(v, pos, n) <= Len(v)
         /\ (IF n > Len(v) - pos THEN Len(v) ELSE pos + n) = pos + Clip(v, pos, n)
  BY DEF Clip

LEMMA PartOfSeq ==
  ASSUME NEW v \in Seq(Chars), NEW a \in Nat, NEW n \in Nat, a + n <= Len(v)
  PROVE  LET x == SubSeq(v, a + 1, a + n) IN
         x \in Seq(Chars) /\ Len(x) = n /\ \A i \in 1..n : x[i] = v[a + i]
  <1>1. PICK l \in Nat : l = Len(v)
    OBVIOUS
  <1>2. PICK x : x = SubSeq(v, a + 1, a + n)
    OBVIOUS
  <1>3. a + 1 \in Int /\ a + n \in Int /\ (a + n) - (a + 1) + 1 = n
    OBVIOUS
  <1>4. Len(x) = n
    BY <1>2, <1>3
  <1>5. \A i \in 1..n : x[i] = v[(a + 1) + i - 1]
    BY <1>2, <1>3
  <1>6. \A i \in 1..n : (a + 1) + i - 1 = a + i
    OBVIOUS
  <1>7. x \in Seq(Chars)
    BY <1>2
  <1>8. QED
    BY <1>2, <1>4, <1>5, <1>6, <1>7

LEMMA Joined ==
  ASSUME NEW x \in Seq(Chars), NEW y \in Seq(Chars), NEW a \in Nat, a = Len(x), NEW b \in Nat, b = Len(y)
  PROVE  LET z == x \o y IN
         /\ z \in Seq(Chars) /\ Len(z) = a + b
         /\ \A i \in 1..a : z[i] = x[i]
         /\ \A i \in 1..b : z[a + i] = y[i]
  <1>1. PICK z : z = x \o y
    OBVIOUS
  <1>2. z \in Seq(Chars) /\ Len(z) = a + b
    BY <1>1
  <1>3. \A i \in 1..a : z[i] = x[i]
    BY <1>1
  <1>4. ASSUME NEW i \in 1..b
        PROVE  z[a + i] = y[i]
    <2>1. a + i \in 1..(a + b) /\ ~(a + i <= a) /\ (a + i) - a = i
      OBVIOUS
    <2>2. PICK j \in Nat : j = a + i
      OBVIOUS
    <2>3. z[j] = y[j - a]
      BY <1>1, <2>1, <2>2
    <2>4. QED
      BY <2>1, <2>2, <2>3
  <1>5. QED
    BY <1>1, <1>2, <1>3, <1>4

LEMMA SpliceSpliced ==
  ASSUME NEW v \in Seq(Chars), NEW w \in Seq(Chars), NEW pos \in Nat, pos <= Len(v), NEW n \in Nat
  PROVE  LET u == Std!Splice(v, pos, n, w) IN
         u \in Seq(Chars) /\ Spliced(u, v, pos, Clip(v, pos, n), w, 0, Len(w))
  <1>1. PICK l \in Nat : l = Len(v)
    OBVIOUS
  <1>2. PICK k : k = Clip(v, pos, n)
    OBVIOUS
  <1>3. k \in Nat /\ pos + k <= l /\ (IF n > Len(v) - pos THEN Len(v) ELSE pos + n) = pos + k
    BY <1>1, <1>2, ClipTyped
  <1>4. PICK x : x = SubSeq(v, 1, pos)
    OBVIOUS
  <1>5. x \in Seq(Chars) /\ Len(x) = pos /\ \A i \in 1..pos : x[i] = v[i]
    <2>1. 0 + 1 = 1 /\ 0 + pos = pos /\ \A i \in 1..pos : 0 + i = i
      OBVIOUS
    <2>2. x = SubSeq(v, 0 + 1, 0 + pos)
      BY <1>4, <2>1
    <2>3. 0 + pos <= Len(v)
      BY <2>1
    <2>4. x \in Seq(Chars) /\ Len(x) = pos /\ \A i \in 1..pos : x[i] = v[0 + i]
      BY <2>2, <2>3, PartOfSeq
    <2>5. QED
      BY <2>1, <2>4
  <1>6. PICK d \in Nat : d = l - (pos + k)
    BY <1>3
  <1>7. PICK y : y = SubSeq(v, (pos + k) + 1, l)
    OBVIOUS
  <1>8. y \in Seq(Chars) /\ Len(y) = d /\ \A i \in 1..d : y[i] = v[(pos + k) + i]
    <2>1. (pos + k) + d = l /\ pos + k \in Nat
      BY <1>3, <1>6
    <2>2. y = SubSeq(v, (pos + k) + 1, (pos + k) + d)
      BY <1>7, <2>1
    <2>3. (pos + k) + d <= Len(v)
      BY <1>1, <2>1
    <2>4. QED
      BY <2>1, <2>2, <2>3, PartOfSeq
  <1>9. PICK u : u = x \o w \o y
    OBVIOUS
  <1>10. u = Std!Splice(v, pos, n, w)
    BY <1>1, <1>3, <1>4, <1>7, <1>9 DEF Std!Splice
  <1>11. PICK e \in Nat : e = Len(w)
    OBVIOUS
  <1>12. PICK z : z = x \o w
    OBVIOUS
  <1>13. /\ z \in Seq(Chars) /\ Len(z) = pos + e
         /\ \A i \in 1..pos : z[i] = x[i]
         /\ \A i \in 1..e : z[pos + i] = w[i]
    <2>1. x \in Seq(Chars) /\ pos = Len(x) /\ e = Len(w)
      BY <1>5, <1>11
    <2>2. QED
      BY <1>12, <2>1, Joined
  <1>14. /\ u \in Seq(Chars) /\ Len(u) = (pos + e) + d
         /\ \A i \in 1..(pos + e) : u[i] = z[i]
         /\ \A i \in 1..d : u[(pos + e) + i] = y[i]
    <2>1. z \in Seq(Chars) /\ y \in Seq(Chars) /\ pos + e = Len(z) /\ d = Len(y) /\ pos + e \in Nat
      BY <1>8, <1>13
    <2>2. u = z \o y
      BY <1>5, <1>8, <1>9, <1>12
    <2>3. PICK a \in Nat : a = pos + e
      BY <2>1
    <2>4. /\ u \in Seq(Chars) /\ Len(u) = a + d
          /\ \A i \in 1..a : u[i] = z[i]
          /\ \A i \in 1..d : u[a + i] = y[i]
      <3>1. z \in Seq(Chars) /\ y \in Seq(Chars) /\ a = Len(z) /\ d = Len(y)
        BY <2>1, <2>3
      <3>2. QED
        BY <2>2, <3>1, Joined
    <2>5. QED
      BY <2>3, <2>4
  <1>15. \A i \in 1..pos : u[i] = v[i]
    BY <1>5, <1>13, <1>14
  <1>16. \A i \in 1..e : u[pos + i] = w[0 + i]
    <2>1. \A i \in 1..e : pos + i \in 1..(pos + e) /\ 0 + i = i
      OBVIOUS
    <2>2. QED
      BY <1>13, <1>14, <2>1
  <1>17. \A i \in 1..d : u[(pos + e) + i] = v[(pos + k) + i]
    BY <1>8, <1>14
  <1>18. Len(u) = (l - k) + e /\ Len(u) \in Nat
    BY <1>3, <1>6, <1>14
  <1>19. Spliced(u, v, pos, k, w, 0, e)
    BY <1>1, <1>3, <1>6, <1>15, <1>16, <1>17, <1>18 DEF Spliced
  <1>20. QED
    BY <1>2, <1>10, <1>11, <1>14, <1>19

LEMMA SubExcerpt ==
  ASSUME NEW w \in Seq(Chars), NEW pos \in Nat, pos <= Len(w), NEW n \in Nat
  PROVE  LET u == Std!Sub(w, pos, n) IN
         u \in Seq(Chars) /\ Excerpt(u, w, pos, Clip(w, pos, n))
  <1>1. PICK k : k = Clip(w, pos, n)
    OBVIOUS
  <1>2. /\ k \in Nat /\ pos + k <= Len(w)
        /\ (IF n > Len(w) - pos THEN Len(w) ELSE pos + n) = pos + k
    BY <1>1, ClipTyped
  <1>3. PICK u : u = SubSeq(w, pos + 1, pos + k)
    OBVIOUS
  <1>4. u \in Seq(Chars) /\ Len(u) = k /\ \A i \in 1..k : u[i] = w[pos + i]
    BY <1>2, <1>3, PartOfSeq
  <1>5. u = Std!Sub(w, pos, n)
    BY <1>2, <1>3 DEF Std!Sub
  <1>6. QED
    BY <1>1, <1>2, <1>4, <1>5 DEF Excerpt

(* Replacing by a part of w.                                               *)
LEMMA SpliceExcerpt ==
  ASSUME NEW u, NEW v, NEW pos, NEW rem, NEW x, NEW w, NEW from, NEW n,
         Excerpt(x, w, from, n), Spliced(u, v, pos, rem, x, 0, Len(x))
  PROVE  Spliced(u, v, pos, rem, w, from, n)
  <1>1. Len(x) = n /\ n \in Nat /\ \A i \in 1..n : x[i] = w[from + i]
    BY DEF Excerpt
  <1>2. \A i \in 1..n : 0 + i = i
    BY <1>1
  <1>3. \A i \in 1..n : u[pos + i] = w[from + i]
    BY <1>1, <1>2 DEF Spliced
  <1>4. QED
    BY <1>1, <1>3 DEF Spliced

LEMMA SliceClip ==
  ASSUME NEW p, NEW w, p.len = Len(w), NEW pos, NEW n
  PROVE  Slice(p, pos, n).len = Clip(w, pos, n)
  BY DEF Slice, Clip

(***************************************************************************)
(* Between calls every string reads as its value.                          *)
(***************************************************************************)
Valued(s) ==
  IF Alive(s)
  THEN val[s] \in Seq(Chars) /\ Len(val[s]) <= MaxLen /\ Spells(Memory, s, val[s])
  ELSE val[s] = Gone

Values == val = [s \in Strings |-> val[s]] /\ \A s \in Strings : Valued(s)

(* Forgetting what no string covers takes nothing from what a string reads. *)
LEMMA SettledSpells ==
  ASSUME NEW n, NEW M, M.str = n.str, M.mem = Settled(n), NEW s \in Strings, NEW v, Spells(n, s, v),
         n.str[s].blk \in Blocks
  PROVE  Spells(M, s, v)
  <1>1. PICK p : p = n.str[s]
    OBVIOUS
  <1>2. PICK d : d = n.mem[p.blk]
    OBVIOUS
  <1>3. PICK e : e = M.mem[p.blk]
    OBVIOUS
  <1>4. PICK l \in Nat : l = Len(v)
    BY SpellsTyped
  <1>5. PICK o \in Nat : o = p.off
    BY <1>1, SpellsTyped
  <1>6. /\ Sized(d) /\ o + l <= Len(d) /\ p.len = l /\ p.state # "NONE"
        /\ p.state = "SSO" => Len(d) = MaxSso
    BY <1>1, <1>2, <1>4, <1>5 DEF Spells, Room, BlockSize
  <1>7. \A i \in 1..l : d[(o + 0) + i] = v[0 + i]
    BY <1>1, <1>2, <1>4, <1>5 DEF Spells, Stands, Shows
  <1>8. PICK b \in Nat : b = Len(d)
    BY <1>6 DEF Sized
  <1>9. DOMAIN d = 1..b
    BY <1>6, <1>8 DEF Sized
  <1>10. p.blk \in DOMAIN M.mem /\ DOMAIN e = 1..b /\ Len(e) = b
         /\ \A j \in 1..b : Covered(n, p.blk, j) => e[j] = d[j]
    <2>1. p.blk \in DOMAIN M.mem
      BY <1>1 DEF Settled, Blocks
    <2>2. CASE p.blk \in Literals
      BY <1>1, <1>2, <1>3, <1>8, <1>9, <2>1, <2>2 DEF Settled, Blocks
    <2>3. CASE p.blk \notin Literals
      <3>1. e = [j \in 1..b |-> IF Covered(n, p.blk, j) THEN d[j] ELSE Junk]
        BY <1>1, <1>2, <1>3, <1>9, <2>3 DEF Settled, Blocks
      <3>2. QED
        BY <2>1, <3>1
    <2>4. QED
      BY <2>2, <2>3
  <1>11. ASSUME NEW i \in 1..l
         PROVE  (o + 0) + i \in 1..b /\ Covered(n, p.blk, (o + 0) + i)
    <2>1. (o + 0) + i \in 1..b /\ ((o + 0) + i) - o = i
      BY <1>6, <1>8
    <2>2. QED
      BY <1>1, <1>5, <1>6, <2>1 DEF Covered
  <1>12. \A i \in 1..l : e[(o + 0) + i] = v[0 + i]
    BY <1>7, <1>10, <1>11
  <1>13. M.str[s] = p /\ Sized(e)
    BY <1>1, <1>8, <1>10 DEF Sized
  <1>14. Room(M, s, l)
    BY <1>3, <1>5, <1>6, <1>8, <1>10, <1>13 DEF Room, BlockSize
  <1>15. Stands(M, s, 0, v, 0, l)
    <2>1. o + 0 \in Nat /\ (o + 0) + l <= b
      BY <1>6, <1>8
    <2>2. QED
      BY <1>3, <1>4, <1>5, <1>8, <1>10, <1>12, <1>13, <2>1 DEF Stands, Shows
  <1>16. QED
    BY <1>4, <1>6, <1>13, <1>14, <1>15 DEF Spells

LEMMA BecomesSpells ==
  ASSUME IInv', NEW n, Becomes(n), NEW s \in Strings, NEW v, Spells(n, s, v)
  PROVE  Spells(Memory, s, v)' /\ Alive(s)'
  <1>1. PICK M : M = Memory'
    OBVIOUS
  <1>2. M.str = n.str /\ M.mem = Settled(n) /\ str' = n.str
    BY <1>1 DEF Becomes, Memory
  <1>3. Shape(M)
    BY <1>1 DEF IInv, Owned, Balanced, Shape
  <1>4. n.str[s].blk \in Blocks
    BY <1>2, <1>3 DEF Shape, StrRec, Blocks, Objs
  <1>5. Spells(M, s, v)
    BY <1>2, <1>4, SettledSpells
  <1>6. Spells(Memory, s, v)'
    BY <1>1, <1>5 DEF Spells, Room, Stands, Shows, Sized, BlockSize
  <1>7. Alive(s)'
    BY <1>2, SpellsAlive DEF Alive
  <1>8. QED
    BY <1>6, <1>7

LEMMA BecomesValued ==
  ASSUME IInv', NEW n, Becomes(n), NEW s \in Strings, NEW u, val'[s] = u,
         u \in Seq(Chars), Len(u) <= MaxLen, Spells(n, s, u)
  PROVE  Valued(s)'
  <1>1. Spells(Memory, s, u)' /\ Alive(s)'
    BY BecomesSpells
  <1>2. Spells(Memory, s, val[s])'
    BY <1>1 DEF Spells, Room, Stands, Shows, Sized, BlockSize
  <1>3. QED
    BY <1>1, <1>2 DEF Valued

(* The strings a call leaves alone.                                        *)
LEMMA LeadsValued ==
  ASSUME Assumptions, Apartness, IInv', Values, NEW S, Leads(S), NEW t \in Strings \ S, val'[t] = val[t]
  PROVE  Valued(t)'
  <1>1. PICK n : Becomes(n) /\ Untouched(Memory, n, S)
    BY DEF Leads
  <1>2. t \in Strings /\ t \in Objs \ S /\ Shape(Memory) /\ Memory.str = str
    BY There DEF Objs
  <1>3. n.str[t] = str[t] /\ str' = n.str
    BY <1>1, <1>2 DEF Untouched, Becomes
  <1>4. CASE Alive(t)
    <2>1. PICK u : u = val[t]
      OBVIOUS
    <2>2. u \in Seq(Chars) /\ Len(u) <= MaxLen /\ Spells(Memory, t, u)
      BY <1>2, <1>4, <2>1 DEF Values, Valued
    <2>3. Spells(n, t, u)
      BY <1>1, <1>2, <2>2, UntouchedSpells
    <2>4. QED
      BY <1>1, <1>2, <2>1, <2>2, <2>3, BecomesValued
  <1>5. CASE ~Alive(t)
    <2>1. val'[t] = Gone /\ ~Alive(t)'
      BY <1>2, <1>3, <1>5 DEF Values, Valued, Alive
    <2>2. QED
      BY <2>1 DEF Valued
  <1>6. QED
    BY <1>4, <1>5

(* What the step on StringValue makes of the values.                       *)
LEMMA StdSteps ==
  ASSUME val = [s \in Strings |-> val[s]], NEW s \in Strings, NEW t \in Strings, NEW v, NEW pos, NEW n
  PROVE  /\ Std!Construct(s, v) \/ Std!Assign(s, v) =>
              /\ val'[s] = v /\ Len(v) <= MaxLen
              /\ \A r \in Strings \ {s} : val'[r] = val[r]
         /\ Std!Destroy(s) => val'[s] = Gone /\ \A r \in Strings \ {s} : val'[r] = val[r]
         /\ Std!Edit(s, pos, n, v) =>
              /\ val'[s] = Std!Splice(val[s], pos, n, v) /\ Len(val'[s]) <= MaxLen
              /\ \A r \in Strings \ {s} : val'[r] = val[r]
         /\ Std!MoveTo(s, t) =>
              /\ s # t /\ val'[s] = val[t] /\ val'[t] = <<>>
              /\ \A r \in Strings \ {s, t} : val'[r] = val[r]
         /\ s # t /\ Std!Swap(s, t) =>
              /\ val'[s] = val[t] /\ val'[t] = val[s]
              /\ \A r \in Strings \ {s, t} : val'[r] = val[r]
         /\ Std!Keep(s) => val' = val
  <1>1. PICK f : f = val
    OBVIOUS
  <1>2. f = [r \in Strings |-> f[r]]
    BY <1>1
  <1>3. QED
    BY <1>1, <1>2
       DEF Std!Construct, Std!Assign, Std!Destroy, Std!Edit, Std!MoveTo, Std!Swap, Std!Keep

(* A string that is alive, its value and what a call may assume.           *)
LEMMA Holding ==
  ASSUME Assumptions, Apartness, Values, NEW s \in Strings, Alive(s)
  PROVE  /\ val[s] \in Seq(Chars) /\ Len(val[s]) \in Nat /\ Len(val[s]) <= MaxLen /\ MaxLen \in Nat
         /\ Spells(Memory, s, val[s]) /\ str[s].len = Len(val[s]) /\ Memory.str[s].len = Len(val[s])
         /\ Memory.str[s].state # "NONE"
  <1>1. Memory.str = str
    BY There
  <1>2. val[s] \in Seq(Chars) /\ Len(val[s]) <= MaxLen /\ Spells(Memory, s, val[s])
    BY DEF Values, Valued
  <1>3. MaxLen \in Nat
    BY DEF Assumptions
  <1>4. Len(val[s]) \in Nat /\ Memory.str[s].len = Len(val[s]) /\ Memory.str[s].state # "NONE"
    BY <1>2, SpellsTyped, SpellsAlive
  <1>5. QED
    BY <1>1, <1>2, <1>3, <1>4

LEMMA TextThere ==
  ASSUME Assumptions, Apartness, NEW l \in Literals
  PROVE  /\ LitText[l] \in Seq(Chars) /\ Len(LitText[l]) \in Nat /\ Text(l).len = Len(LitText[l])
         /\ Memory.mem[l] = Append(LitText[l], NUL) /\ l \in DOMAIN Memory.mem
         /\ \A s : Source(Memory, s, Text(l), LitText[l], 0)
  <1>1. LitText[l] \in Seq(Chars)
    BY DEF Assumptions
  <1>2. Memory.mem[l] = Append(LitText[l], NUL) /\ l \in DOMAIN Memory.mem
    BY DEF Apartness, LiteralsIntact, Memory, Housed, Blocks
  <1>3. \A s : Source(Memory, s, Text(l), LitText[l], 0)
    BY <1>1, <1>2, TextSource
  <1>4. QED
    BY <1>1, <1>2, <1>3 DEF Text

LEMMA ConstructsValued ==
  ASSUME Assumptions, Apartness, IInv', Values, HeapHasRoom, NEW s \in Strings
  PROVE  /\ \A l \in Literals : NewLiteral(s, l) \/ NewChars(s, l) => Valued(s)'
         /\ \A e \in Ext, l \in Literals : AdoptNew(s, e, l) => Valued(s)'
         /\ \A t \in Strings, c \in Spans : NewCopy(s, t, c[1], c[2]) => Valued(s)'
  <1>1. s \in Objs /\ Apt(Memory, s) /\ Shape(Memory) /\ Housed(Memory) /\ Memory.str = str
    BY There
  <1>2. ASSUME NEW l \in Literals, NEW u, u = LitText[l], Std!Construct(s, LitText[l]),
               NEW n, Becomes(n), Spells(n, s, u)
        PROVE  Valued(s)'
    <2>1. val'[s] = u /\ Len(u) <= MaxLen
      BY <1>2, StdSteps DEF Values
    <2>2. u \in Seq(Chars)
      BY <1>2, TextThere
    <2>3. QED
      BY <1>2, <2>1, <2>2, BecomesValued
  <1>3. ASSUME NEW l \in Literals, NewLiteral(s, l)
        PROVE  Valued(s)'
    <2>1. PICK n : n = FromLiteral(Memory, s, l)
      OBVIOUS
    <2>2. Spells(n, s, LitText[l])
      BY <1>1, <2>1, TextThere, FromLiteralSpells
    <2>3. QED
      BY <1>2, <1>3, <2>1, <2>2 DEF NewLiteral
  <1>4. ASSUME NEW l \in Literals, NewChars(s, l)
        PROVE  Valued(s)'
    <2>1. PICK u : u = LitText[l]
      OBVIOUS
    <2>2. PICK n : n = Put(SetLen(NewAuto(Memory, s, Len(u)), s, Len(u)), s, 0, u)
      OBVIOUS
    <2>3. Spells(n, s, u)
      BY <1>1, <2>1, <2>2, TextThere, NewCharsSpells
    <2>4. QED
      BY <1>2, <1>4, <2>1, <2>2, <2>3 DEF NewChars
  <1>5. ASSUME NEW e \in Ext, NEW l \in Literals, AdoptNew(s, e, l)
        PROVE  Valued(s)'
    <2>1. PICK n : n = NewExternal(Memory, s, e, l)
      OBVIOUS
    <2>2. Spells(n, s, LitText[l])
      BY <1>1, <1>5, <2>1, TextThere, NewExternalSpells DEF AdoptNew
    <2>3. QED
      BY <1>2, <1>5, <2>1, <2>2 DEF AdoptNew
  <1>6. ASSUME NEW t \in Strings, NEW pos \in Nat, NEW c \in Nat, NewCopy(s, t, pos, c)
        PROVE  Valued(s)'
    <2>1. Alive(t) /\ pos <= str[t].len /\ s # t /\ Std!Construct(s, Std!Sub(val[t], pos, c))
      BY <1>6 DEF NewCopy
    <2>2. PICK w \in Seq(Chars) : w = val[t]
      BY <2>1, Holding
    <2>3. Spells(Memory, t, w) /\ str[t].len = Len(w) /\ Memory.str[t].state # "NONE" /\ pos <= Len(w)
      BY <2>1, <2>2, Holding
    <2>4. PICK u : u = Std!Sub(w, pos, c)
      OBVIOUS
    <2>5. u \in Seq(Chars) /\ Excerpt(u, w, pos, Clip(w, pos, c))
      BY <2>3, <2>4, SubExcerpt
    <2>6. Slice(str[t], pos, c).len = Clip(w, pos, c)
      BY <2>3, SliceClip
    <2>7. PICK n : n = CowOffset(Memory, s, t, pos, c)
      OBVIOUS
    <2>8. n = Cow(Memory, s, t, pos, Clip(w, pos, c))
      BY <1>1, <2>6, <2>7 DEF CowOffset
    <2>9. Spells(n, s, u)
      BY <1>1, <2>1, <2>3, <2>5, <2>8, CowSpells DEF Objs
    <2>10. val'[s] = u /\ Len(u) <= MaxLen
      BY <2>1, <2>2, <2>4, StdSteps DEF Values
    <2>11. Becomes(n)
      BY <1>6, <2>7 DEF NewCopy
    <2>12. QED
      BY <2>5, <2>9, <2>10, <2>11, BecomesValued
  <1>7. QED
    BY <1>3, <1>4, <1>5, <1>6, SpansTyped

LEMMA AssignsValued ==
  ASSUME Assumptions, Apartness, IInv', Values, HeapHasRoom, NEW s \in Strings
  PROVE  /\ \A l \in Literals : SetLiteral(s, l) \/ SetChars(s, l) => Valued(s)'
         /\ \A e \in Ext, l \in Literals : Adopt(s, e, l) => Valued(s)'
         /\ \A t \in Strings, c \in Spans : Copy(s, t, c[1], c[2]) => Valued(s)'
  <1>1. /\ s \in Objs /\ Able(Memory, s) /\ Shape(Memory) /\ Balanced(Memory) /\ Housed(Memory) /\ Memory.str = str
        /\ Memory.held = held
    BY There
  <1>2. PICK m : m = Release(Memory, s)
    OBVIOUS
  <1>3. /\ Apt(m, s) /\ Shape(m) /\ Housed(m) /\ Untouched(Memory, m, {s})
        /\ \A l \in Literals : m.mem[l] = Memory.mem[l] /\ l \in DOMAIN m.mem
    <2>1. Balanced(m) /\ FreeBuffers(m) # {}
      BY <1>2, Released DEF Apartness
    <2>2. Confined(Memory, m, s) /\ Housed(m) /\ Shape(m)
      BY <1>1, <1>2, ReleaseConfined DEF Confined
    <2>3. Untouched(Memory, m, {s})
      BY <1>1, <2>2, ConfinedUntouched
    <2>4. OthersInUse(m, s)
      BY <1>1, <2>1, AllInUse
    <2>5. QED
      BY <1>1, <2>1, <2>2, <2>3, <2>4 DEF Apt, Untouched, Housed, Blocks
  <1>4. ASSUME NEW l \in Literals, NEW u, u = LitText[l], Std!Assign(s, LitText[l]),
               NEW n, Becomes(n), Spells(n, s, u)
        PROVE  Valued(s)'
    <2>1. val'[s] = u /\ Len(u) <= MaxLen
      BY <1>4, StdSteps DEF Values
    <2>2. u \in Seq(Chars)
      BY <1>4, TextThere
    <2>3. QED
      BY <1>4, <2>1, <2>2, BecomesValued
  <1>5. ASSUME NEW l \in Literals, SetLiteral(s, l)
        PROVE  Valued(s)'
    <2>1. PICK n : n = FromLiteral(m, s, l)
      OBVIOUS
    <2>2. Spells(n, s, LitText[l])
      <3>1. m.mem[l] = Append(LitText[l], NUL) /\ l \in DOMAIN m.mem /\ LitText[l] \in Seq(Chars)
        BY <1>3, TextThere
      <3>2. QED
        BY <1>1, <1>3, <2>1, <3>1, FromLiteralSpells
    <2>3. QED
      BY <1>2, <1>4, <1>5, <2>1, <2>2 DEF SetLiteral
  <1>6. ASSUME NEW l \in Literals, SetChars(s, l)
        PROVE  Valued(s)'
    <2>1. PICK n : n = AssignChars(Memory, s, l)
      OBVIOUS
    <2>2. Spells(n, s, LitText[l])
      <3>1. PICK v : v = val[s]
        OBVIOUS
      <3>2. Spells(Memory, s, v) /\ Memory.str[s].state # "NONE"
        BY <1>6, <3>1, Holding DEF SetChars
      <3>3. Len(LitText[l]) \in Nat
        BY TextThere
      <3>4. QED
        BY <1>1, <2>1, <3>2, <3>3, AssignCharsSpells
    <2>3. QED
      BY <1>4, <1>6, <2>1, <2>2 DEF SetChars
  <1>7. ASSUME NEW e \in Ext, NEW l \in Literals, Adopt(s, e, l)
        PROVE  Valued(s)'
    <2>1. PICK n : n = AssignExternal(Memory, s, e, l)
      OBVIOUS
    <2>2. LitText[l] \in Seq(Chars) /\ Len(LitText[l]) <= ExtSize
      BY <1>7, TextThere DEF Adopt
    <2>3. Spells(NewExternal(m, s, e, l), s, LitText[l])
      BY <1>3, <2>2, NewExternalSpells
    <2>4. Memory.str[s].state = "EXTERNAL" => Spells(ReplaceExternal(Memory, s, e, l), s, LitText[l])
      BY <1>1, <2>2, ReplaceExternalSpells
    <2>5. Spells(n, s, LitText[l])
      BY <1>2, <2>1, <2>3, <2>4 DEF AssignExternal
    <2>6. QED
      BY <1>4, <1>7, <2>1, <2>5 DEF Adopt
  <1>8. ASSUME NEW t \in Strings, NEW pos \in Nat, NEW c \in Nat, Copy(s, t, pos, c)
        PROVE  Valued(s)'
    <2>1. Alive(t) /\ pos <= str[t].len /\ Std!Assign(s, Std!Sub(val[t], pos, c))
      BY <1>8 DEF Copy
    <2>2. PICK w \in Seq(Chars) : w = val[t]
      BY <2>1, Holding
    <2>3. Spells(Memory, t, w) /\ str[t].len = Len(w) /\ Memory.str[t].state # "NONE" /\ pos <= Len(w)
      BY <2>1, <2>2, Holding
    <2>4. PICK u : u = Std!Sub(w, pos, c)
      OBVIOUS
    <2>5. u \in Seq(Chars) /\ Excerpt(u, w, pos, Clip(w, pos, c))
      BY <2>3, <2>4, SubExcerpt
    <2>6. Slice(str[t], pos, c).len = Clip(w, pos, c)
      BY <2>3, SliceClip
    <2>7. PICK n : n = AssignSub(Memory, s, t, pos, c)
      OBVIOUS
    <2>8. Spells(n, s, u)
      <3>1. CASE s = t
        <4>1. n = SetLen(PointTo(Memory, s, Memory.str[s].off + pos), s, Clip(w, pos, c))
          BY <1>1, <2>6, <2>7, <3>1 DEF AssignSub
        <4>2. QED
          BY <1>1, <2>3, <2>5, <3>1, <4>1, WindowSpells
      <3>2. CASE s # t
        <4>1. m.str[t] = str[t] /\ Spells(m, t, w) /\ t \in Objs
          <5>1. t \in Objs \ {s}
            BY <3>2 DEF Objs
          <5>2. Spells(m, t, w)
            BY <1>1, <1>3, <2>3, <5>1, UntouchedSpells
          <5>3. QED
            BY <1>1, <1>3, <5>1, <5>2 DEF Untouched
        <4>2. n = Cow(m, s, t, pos, Clip(w, pos, c))
          BY <1>2, <2>6, <2>7, <3>2, <4>1 DEF AssignSub, CowOffset
        <4>3. m.str[t].state # "NONE" /\ Assumptions
          BY <4>1, SpellsAlive
        <4>4. QED
          BY <1>1, <1>3, <2>5, <3>2, <4>1, <4>2, <4>3, CowSpells
      <3>3. QED
        BY <3>1, <3>2
    <2>9. val'[s] = u /\ Len(u) <= MaxLen
      BY <2>1, <2>2, <2>4, StdSteps DEF Values
    <2>10. Becomes(n)
      BY <1>8, <2>7 DEF Copy
    <2>11. QED
      BY <2>5, <2>8, <2>9, <2>10, BecomesValued
  <1>9. QED
    BY <1>5, <1>6, <1>7, <1>8, SpansTyped

(* The move leaves its source the empty text, whatever it was.             *)
LEMMA PairValued ==
  ASSUME Assumptions, Apartness, IInv', Values, HeapHasRoom, NEW s \in Strings, NEW t \in Strings,
         NewMoved(s, t) \/ Move(s, t) \/ Exchange(s, t)
  PROVE  /\ Valued(s)' /\ Valued(t)'
         /\ \A r \in Strings \ {s, t} : val'[r] = val[r]
  <1>1. /\ s \in Objs /\ t \in Objs /\ s # t /\ Shape(Memory) /\ Balanced(Memory) /\ Housed(Memory)
        /\ Memory.str = str
    BY There DEF NewMoved, Move, Exchange
  <1>2. Alive(t)
    BY DEF NewMoved, Move, Exchange
  <1>3. PICK w \in Seq(Chars) : w = val[t]
    BY <1>2, Holding
  <1>4. Spells(Memory, t, w) /\ Memory.str[t].state # "NONE" /\ Len(w) <= MaxLen
    BY <1>2, <1>3, Holding
  <1>5. PICK e : e = LitText[Terminal]
    OBVIOUS
  <1>6. /\ e \in Seq(Chars) /\ e = <<>> /\ Len(e) <= MaxLen /\ Terminal \in Literals
        /\ Memory.mem[Terminal] = Append(LitText[Terminal], NUL)
    <2>1. e = <<>> /\ Terminal \in Literals /\ MaxLen \in Nat
      BY <1>5 DEF Assumptions
    <2>2. Memory.mem[Terminal] = Append(LitText[Terminal], NUL) /\ e \in Seq(Chars)
      BY <1>5, <2>1, TextThere
    <2>3. QED
      BY <2>1, <2>2
  <1>7. ASSUME NEW n, Becomes(n), Spells(n, s, w), Spells(n, t, e), Std!MoveTo(s, t)
        PROVE  /\ Valued(s)' /\ Valued(t)'
               /\ \A r \in Strings \ {s, t} : val'[r] = val[r]
    <2>1. val'[s] = w /\ val'[t] = e /\ \A r \in Strings \ {s, t} : val'[r] = val[r]
      BY <1>3, <1>6, <1>7, StdSteps DEF Values
    <2>2. Valued(s)'
      BY <1>4, <1>7, <2>1, BecomesValued
    <2>3. Valued(t)'
      BY <1>6, <1>7, <2>1, BecomesValued
    <2>4. QED
      BY <2>1, <2>2, <2>3
  <1>8. CASE NewMoved(s, t)
    <2>1. PICK n : n = MoveFrom(Memory, s, t)
      OBVIOUS
    <2>2. Spells(n, s, w) /\ Spells(n, t, e)
      BY <1>1, <1>4, <1>5, <1>6, <2>1, MoveFromSpells
    <2>3. QED
      BY <1>7, <1>8, <2>1, <2>2 DEF NewMoved
  <1>9. CASE Move(s, t)
    <2>1. PICK m : m = Release(Memory, s)
      OBVIOUS
    <2>2. Confined(Memory, m, s)
      BY <1>1, <2>1, ReleaseConfined
    <2>3. Shape(m) /\ Housed(m) /\ Untouched(Memory, m, {s})
      BY <1>1, <2>2, ConfinedUntouched DEF Confined
    <2>4. Spells(m, t, w)
      BY <1>1, <1>4, <2>3, UntouchedSpells
    <2>5. m.mem[Terminal] = Append(LitText[Terminal], NUL)
      BY <1>6, <2>3 DEF Untouched
    <2>6. m.str[t].state # "NONE"
      BY <2>4, SpellsAlive
    <2>7. PICK n : n = MoveFrom(m, s, t)
      OBVIOUS
    <2>8. Spells(n, s, w) /\ Spells(n, t, e)
      BY <1>1, <1>5, <2>3, <2>4, <2>5, <2>6, <2>7, MoveFromSpells
    <2>9. QED
      BY <1>7, <1>9, <2>1, <2>7, <2>8 DEF Move
  <1>10. CASE Exchange(s, t)
    <2>1. Alive(s) /\ Std!Swap(s, t)
      BY <1>10 DEF Exchange
    <2>2. PICK v \in Seq(Chars) : v = val[s]
      BY <2>1, Holding
    <2>3. Spells(Memory, s, v) /\ Memory.str[s].state # "NONE" /\ Len(v) <= MaxLen
      BY <2>1, <2>2, Holding
    <2>4. PICK n : n = SwapStorage(Memory, s, t)
      OBVIOUS
    <2>5. Spells(n, s, w) /\ Spells(n, t, v)
      BY <1>1, <1>4, <2>3, <2>4, SwapSpells
    <2>6. val'[s] = w /\ val'[t] = v /\ \A r \in Strings \ {s, t} : val'[r] = val[r]
      BY <1>1, <1>3, <2>1, <2>2, StdSteps DEF Values
    <2>7. Becomes(n)
      BY <1>10, <2>4 DEF Exchange
    <2>8. Valued(s)'
      BY <1>4, <2>5, <2>6, <2>7, BecomesValued
    <2>9. Valued(t)'
      BY <2>3, <2>5, <2>6, <2>7, BecomesValued
    <2>10. QED
      BY <2>6, <2>8, <2>9
  <1>11. QED
    BY <1>8, <1>9, <1>10

(* A step of an Edit: the value becomes the splice, and the memory must     *)
(* spell it.                                                               *)
LEMMA EditValued ==
  ASSUME Assumptions, Apartness, IInv', Values, NEW s \in Strings, Alive(s),
         NEW pos \in Nat, pos <= Len(val[s]), NEW n \in Nat, NEW x \in Seq(Chars), Std!Edit(s, pos, n, x),
         NEW m, Becomes(m),
         \A u : Spliced(u, val[s], pos, Clip(val[s], pos, n), x, 0, Len(x)) => Spells(m, s, u)
  PROVE  Valued(s)'
  <1>1. PICK v \in Seq(Chars) : v = val[s]
    BY Holding
  <1>2. PICK u : u = Std!Splice(v, pos, n, x)
    OBVIOUS
  <1>3. u \in Seq(Chars) /\ Spliced(u, v, pos, Clip(v, pos, n), x, 0, Len(x))
    BY <1>1, <1>2, SpliceSpliced
  <1>4. val'[s] = u /\ Len(u) <= MaxLen
    BY <1>1, <1>2, StdSteps DEF Values
  <1>5. Spells(m, s, u)
    BY <1>1, <1>3
  <1>6. QED
    BY <1>3, <1>4, <1>5, BecomesValued

(* Under Exact no call is granted less than it asks for.                   *)
LEMMA ExactFine ==
  ASSUME Assumptions, Exact
  PROVE  /\ \A n \in Nat : n <= MaxLen => Fine(n, "exact") /\ Fine(n + 1, "exact")
         /\ \A cap \in Reserves : Fine(cap, "exact")
  <1>1. MaxLen \in Nat /\ \A cap \in Reserves : cap \in Nat
    BY DEF Assumptions
  <1>2. PICK P : P = 2^FloatBits
    OBVIOUS
  <1>3. P \in Nat /\ MaxLen + 1 < P /\ \A cap \in Reserves : cap < P
    BY <1>2 DEF Exact
  <1>4. \A n \in Nat : n <= MaxLen => n < P /\ n + 1 < P /\ n + 1 \in Nat
    BY <1>1, <1>3
  <1>5. QED
    BY <1>1, <1>2, <1>3, <1>4 DEF Fine

LEMMA ClipNone ==
  ASSUME NEW v, Len(v) \in Nat
  PROVE  /\ Clip(v, Len(v), 0) = 0
         /\ \A i \in Nat : i < Len(v) => Clip(v, i, 1) = 1
         /\ \A pos \in Nat, n \in Nat : pos <= Len(v) /\ Len(v) <= n => pos + Clip(v, pos, n) = Len(v)
  BY DEF Clip

LEMMA NoText ==
  ASSUME Assumptions
  PROVE  <<>> \in Seq(Chars) /\ Len(<<>>) = 0
  BY DEF Assumptions

(* Appending and replacing by a literal, erasing, truncating, writing.     *)
LEMMA OwnEditsValued ==
  ASSUME Assumptions, Apartness, IInv', Values, HeapHasRoom, NEW s \in Strings
  PROVE  /\ \A l \in Literals : AppendText(s, l) => Valued(s)'
         /\ \A pos \in Nat, n \in Nat : EraseAt(s, pos, n) => Valued(s)'
         /\ \A pos \in Nat, n \in Nat, l \in Literals : ReplaceText(s, pos, n, l) => Valued(s)'
         /\ \A n \in Nat : Truncate(s, n) => Valued(s)'
         /\ \A i \in Nat, l \in Literals : WriteChar(s, i, l) => Valued(s)'
  <1>1. s \in Objs /\ Able(Memory, s) /\ Memory.str = str /\ Shape(Memory)
    BY There
  <1>2. ASSUME Alive(s)
        PROVE  /\ val[s] \in Seq(Chars) /\ Len(val[s]) \in Nat /\ Len(val[s]) <= MaxLen /\ MaxLen \in Nat
               /\ Spells(Memory, s, val[s]) /\ str[s].len = Len(val[s]) /\ Memory.str[s].len = Len(val[s])
               /\ Memory.str[s].state # "NONE"
    BY <1>2, Holding
  <1>3. ASSUME NEW l \in Literals, AppendText(s, l)
        PROVE  Valued(s)'
    <2>1. Alive(s) /\ Std!Edit(s, Len(val[s]), 0, LitText[l])
      BY <1>2, <1>3 DEF AppendText
    <2>2. PICK v : v = val[s]
      OBVIOUS
    <2>3. PICK x \in Seq(Chars) : x = LitText[l]
      BY TextThere
    <2>4. PICK m : m = AppendChars(Memory, s, Text(l))
      OBVIOUS
    <2>5. ASSUME NEW u, Spliced(u, v, Len(v), 0, x, 0, Len(x))
          PROVE  Spells(m, s, u)
      BY <1>1, <1>2, <2>1, <2>2, <2>3, <2>4, <2>5, TextThere, AppendCharsSpells
    <2>6. \A u : Spliced(u, val[s], Len(val[s]), Clip(val[s], Len(val[s]), 0), x, 0, Len(x)) => Spells(m, s, u)
      BY <1>2, <2>1, <2>2, <2>5, ClipNone
    <2>7. Becomes(m) /\ Len(val[s]) \in Nat /\ Len(val[s]) <= Len(val[s]) /\ 0 \in Nat
      BY <1>2, <1>3, <2>1, <2>4 DEF AppendText
    <2>8. QED
      BY <2>1, <2>3, <2>6, <2>7, EditValued
  <1>4. ASSUME NEW pos \in Nat, NEW n \in Nat, EraseAt(s, pos, n)
        PROVE  Valued(s)'
    <2>1. Alive(s) /\ Std!Edit(s, pos, n, <<>>) /\ pos <= Len(val[s])
      BY <1>2, <1>4 DEF EraseAt
    <2>2. PICK v : v = val[s]
      OBVIOUS
    <2>3. PICK x \in Seq(Chars) : x = <<>>
      BY NoText
    <2>4. PICK m : m = Erase(Memory, s, pos, n)
      OBVIOUS
    <2>5. ASSUME NEW u, Spliced(u, v, pos, Clip(v, pos, n), x, 0, 0)
          PROVE  Spells(m, s, u)
      <3>1. Spliced(u, v, pos, IF n > Len(v) - pos THEN Len(v) - pos ELSE n, x, 0, 0)
        BY <2>5 DEF Clip
      <3>2. QED
        BY <1>1, <1>2, <2>1, <2>2, <2>4, <3>1, EraseSpells
    <2>6. \A u : Spliced(u, val[s], pos, Clip(val[s], pos, n), x, 0, Len(x)) => Spells(m, s, u)
      BY <2>2, <2>3, <2>5
    <2>7. Becomes(m) /\ Std!Edit(s, pos, n, x)
      BY <1>4, <2>1, <2>3, <2>4 DEF EraseAt
    <2>8. QED
      BY <2>1, <2>6, <2>7, EditValued
  <1>5. ASSUME NEW pos \in Nat, NEW n \in Nat, NEW l \in Literals, ReplaceText(s, pos, n, l)
        PROVE  Valued(s)'
    <2>1. Alive(s) /\ Std!Edit(s, pos, n, LitText[l]) /\ pos <= Len(val[s])
      BY <1>2, <1>5 DEF ReplaceText
    <2>2. PICK v : v = val[s]
      OBVIOUS
    <2>3. PICK x \in Seq(Chars) : x = LitText[l]
      BY TextThere
    <2>4. PICK m : m = Replace(Memory, s, pos, n, Text(l))
      OBVIOUS
    <2>5. ASSUME NEW u, Spliced(u, v, pos, Clip(v, pos, n), x, 0, Len(x))
          PROVE  Spells(m, s, u)
      <3>1. Spliced(u, v, pos, IF n > Len(v) - pos THEN Len(v) - pos ELSE n, x, 0, Text(l).len)
        <4>1. Text(l).len = Len(x)
          BY <2>3, TextThere
        <4>2. QED
          BY <2>5, <4>1 DEF Clip
      <3>2. Source(Memory, s, Text(l), x, 0)
        BY <2>3, TextThere
      <3>3. QED
        BY <1>1, <1>2, <2>1, <2>2, <2>4, <3>1, <3>2, ReplaceSpells
    <2>6. \A u : Spliced(u, val[s], pos, Clip(val[s], pos, n), x, 0, Len(x)) => Spells(m, s, u)
      BY <2>2, <2>5
    <2>7. Becomes(m)
      BY <1>5, <2>4 DEF ReplaceText
    <2>8. QED
      BY <2>1, <2>3, <2>6, <2>7, EditValued
  <1>6. ASSUME NEW n \in Nat, Truncate(s, n)
        PROVE  Valued(s)'
    <2>1. Alive(s) /\ Std!Edit(s, n, MaxLen, <<>>) /\ n <= Len(val[s])
      BY <1>2, <1>6 DEF Truncate
    <2>2. PICK v : v = val[s]
      OBVIOUS
    <2>3. PICK x \in Seq(Chars) : x = <<>>
      BY NoText
    <2>4. PICK m : m = SetLen(Memory, s, n)
      OBVIOUS
    <2>5. ASSUME NEW u, Spliced(u, v, n, Clip(v, n, MaxLen), x, 0, 0)
          PROVE  Spells(m, s, u)
      <3>1. n + Clip(v, n, MaxLen) = Len(v)
        BY <1>2, <2>1, <2>2, ClipNone
      <3>2. QED
        BY <1>1, <1>2, <2>1, <2>2, <2>4, <2>5, <3>1, TruncateSpells
    <2>6. \A u : Spliced(u, val[s], n, Clip(val[s], n, MaxLen), x, 0, Len(x)) => Spells(m, s, u)
      BY <2>2, <2>3, <2>5
    <2>7. Becomes(m) /\ Std!Edit(s, n, MaxLen, x) /\ MaxLen \in Nat
      BY <1>2, <1>6, <2>1, <2>3, <2>4 DEF Truncate
    <2>8. QED
      BY <2>1, <2>6, <2>7, EditValued
  <1>7. ASSUME NEW i \in Nat, NEW l \in Literals, WriteChar(s, i, l)
        PROVE  Valued(s)'
    <2>1. Alive(s) /\ Std!Edit(s, i, 1, LitText[l]) /\ i < Len(val[s]) /\ Len(LitText[l]) = 1
      BY <1>2, <1>7 DEF WriteChar
    <2>2. PICK v : v = val[s]
      OBVIOUS
    <2>3. PICK x \in Seq(Chars) : x = LitText[l]
      BY TextThere
    <2>4. PICK m : m = Put(Detach(Memory, s), s, i, x)
      OBVIOUS
    <2>5. ASSUME NEW u, Spliced(u, v, i, Clip(v, i, 1), x, 0, Len(x))
          PROVE  Spells(m, s, u)
      <3>1. Clip(v, i, 1) = Len(x) /\ Len(x) \in Nat
        <4>1. Len(v) \in Nat /\ i < Len(v)
          BY <1>2, <2>1, <2>2
        <4>2. Clip(v, i, 1) = 1
          BY <4>1, ClipNone
        <4>3. Len(x) = 1
          BY <2>1, <2>3, Zenon
        <4>4. 1 \in Nat
          OBVIOUS
        <4>5. QED
          BY <4>2, <4>3, <4>4, Zenon
      <3>2. QED
        BY <1>1, <1>2, <2>1, <2>2, <2>4, <2>5, <3>1, WriteSpells
    <2>6. \A u : Spliced(u, val[s], i, Clip(val[s], i, 1), x, 0, Len(x)) => Spells(m, s, u)
      BY <2>2, <2>5
    <2>7. Becomes(m) /\ i <= Len(val[s]) /\ 1 \in Nat
      BY <1>2, <1>7, <2>1, <2>3, <2>4 DEF WriteChar
    <2>8. QED
      BY <2>1, <2>3, <2>6, <2>7, EditValued
  <1>8. QED
    BY <1>3, <1>4, <1>5, <1>6, <1>7

(* Appending and replacing by another string, or by itself.                *)
LEMMA OtherEditsValued ==
  ASSUME Assumptions, Apartness, IInv', Values, HeapHasRoom, NEW s \in Strings, NEW t \in Strings
  PROVE  /\ \A pos \in Nat, n \in Nat : AppendOther(s, t, pos, n) => Valued(s)'
         /\ \A pos \in Nat, n \in Nat, pos2 \in Nat, n2 \in Nat :
              ReplaceOther(s, pos, n, t, pos2, n2) => Valued(s)'
  <1>1. s \in Objs /\ t \in Objs /\ Able(Memory, s) /\ Memory.str = str /\ Shape(Memory)
    BY There
  <1>2. ASSUME NEW r \in Strings, Alive(r)
        PROVE  /\ val[r] \in Seq(Chars) /\ Len(val[r]) \in Nat /\ Len(val[r]) <= MaxLen
               /\ Spells(Memory, r, val[r]) /\ str[r].len = Len(val[r]) /\ Memory.str[r].len = Len(val[r])
               /\ Memory.str[r].state # "NONE"
    BY <1>2, Holding
  <1>3. ASSUME NEW pos \in Nat, NEW n \in Nat, AppendOther(s, t, pos, n)
        PROVE  Valued(s)'
    <2>1. /\ Alive(s) /\ Alive(t) /\ pos <= Len(val[t]) /\ pos <= Memory.str[t].len
          /\ Std!Edit(s, Len(val[s]), 0, Std!Sub(val[t], pos, n))
      BY <1>1, <1>2, <1>3 DEF AppendOther
    <2>2. PICK w \in Seq(Chars) : w = val[t]
      BY <1>2, <2>1
    <2>3. PICK v : v = val[s]
      OBVIOUS
    <2>4. PICK x : x = Std!Sub(w, pos, n)
      OBVIOUS
    <2>5. x \in Seq(Chars) /\ Excerpt(x, w, pos, Clip(w, pos, n))
      BY <2>1, <2>2, <2>4, SubExcerpt
    <2>6. Slice(Memory.str[t], pos, n).len = Clip(w, pos, n)
      BY <1>2, <2>1, <2>2, SliceClip
    <2>7. PICK m : m = AppendString(Memory, s, t, pos, n)
      OBVIOUS
    <2>8. ASSUME NEW u, Spliced(u, v, Len(v), 0, x, 0, Len(x))
          PROVE  Spells(m, s, u)
      <3>1. Spliced(u, v, Len(v), 0, w, pos, Slice(Memory.str[t], pos, n).len)
        BY <2>5, <2>6, <2>8, SpliceExcerpt
      <3>2. QED
        BY <1>1, <1>2, <2>1, <2>2, <2>3, <2>7, <3>1, AppendStringSpells
    <2>9. \A u : Spliced(u, val[s], Len(val[s]), Clip(val[s], Len(val[s]), 0), x, 0, Len(x)) => Spells(m, s, u)
      BY <1>2, <2>1, <2>3, <2>8, ClipNone
    <2>10. /\ Becomes(m) /\ Len(val[s]) \in Nat /\ Len(val[s]) <= Len(val[s]) /\ 0 \in Nat
           /\ Std!Edit(s, Len(val[s]), 0, x)
      BY <1>2, <1>3, <2>1, <2>2, <2>4, <2>7 DEF AppendOther
    <2>11. QED
      BY <2>1, <2>5, <2>9, <2>10, EditValued
  <1>4. ASSUME NEW pos \in Nat, NEW n \in Nat, NEW pos2 \in Nat, NEW n2 \in Nat,
               ReplaceOther(s, pos, n, t, pos2, n2)
        PROVE  Valued(s)'
    <2>1. /\ Alive(s) /\ Alive(t) /\ pos <= Len(val[s]) /\ pos2 <= Len(val[t])
          /\ Std!Edit(s, pos, n, Std!Sub(val[t], pos2, n2))
      BY <1>2, <1>4 DEF ReplaceOther
    <2>2. PICK w \in Seq(Chars) : w = val[t]
      BY <1>2, <2>1
    <2>3. PICK v : v = val[s]
      OBVIOUS
    <2>4. PICK x : x = Std!Sub(w, pos2, n2)
      OBVIOUS
    <2>5. x \in Seq(Chars) /\ Excerpt(x, w, pos2, Clip(w, pos2, n2))
      BY <2>1, <2>2, <2>4, SubExcerpt
    <2>6. Slice(Memory.str[t], pos2, n2).len = Clip(w, pos2, n2)
      BY <1>2, <2>1, <2>2, SliceClip
    <2>7. PICK m : m = ReplaceString(Memory, s, pos, n, t, pos2, n2)
      OBVIOUS
    <2>8. Memory.str[Tmp].state = "NONE"
      BY <1>1 DEF Apartness, IInv, Owned
    <2>9. ASSUME NEW u, Spliced(u, v, pos, Clip(v, pos, n), x, 0, Len(x))
          PROVE  Spells(m, s, u)
      <3>1. Spliced(u, v, pos, Clip(v, pos, n), w, pos2, Slice(Memory.str[t], pos2, n2).len)
        BY <2>5, <2>6, <2>9, SpliceExcerpt
      <3>2. Spliced(u, v, pos, IF n > Len(v) - pos THEN Len(v) - pos ELSE n,
                    w, pos2, Slice(Memory.str[t], pos2, n2).len)
        BY <3>1 DEF Clip
      <3>3. pos <= Len(v) /\ pos2 <= Len(w) /\ Spells(Memory, s, v) /\ Spells(Memory, t, w)
            /\ Memory.str[s].state # "NONE"
        BY <1>2, <2>1, <2>2, <2>3
      <3>4. QED
        BY <1>1, <2>7, <2>8, <3>2, <3>3, ReplaceStringSpells
    <2>10. \A u : Spliced(u, val[s], pos, Clip(val[s], pos, n), x, 0, Len(x)) => Spells(m, s, u)
      BY <2>3, <2>9
    <2>11. Becomes(m) /\ Std!Edit(s, pos, n, x)
      BY <1>4, <2>1, <2>2, <2>4, <2>7 DEF ReplaceOther
    <2>12. QED
      BY <2>1, <2>5, <2>10, <2>11, EditValued
  <1>5. QED
    BY <1>3, <1>4

LEMMA ResizeValued ==
  ASSUME Assumptions, Exact, Apartness, IInv', Values, HeapHasRoom, NEW s \in Strings, NEW l \in Literals,
         Resize(s, l)
  PROVE  Valued(s)'
  <1>1. Able(Memory, s) /\ Alive(s) /\ Std!Edit(s, str[s].len, 0, LitText[l])
    BY There DEF Resize
  <1>2. /\ val[s] \in Seq(Chars) /\ Len(val[s]) \in Nat /\ Len(val[s]) <= MaxLen /\ MaxLen \in Nat
        /\ Spells(Memory, s, val[s]) /\ str[s].len = Len(val[s]) /\ Memory.str[s].state # "NONE"
    BY <1>1, Holding
  <1>3. PICK v \in Seq(Chars) : v = val[s]
    BY <1>2
  <1>4. PICK x \in Seq(Chars) : x = LitText[l]
    BY TextThere
  <1>5. PICK a \in Nat : a = Len(v)
    BY <1>2, <1>3
  <1>6. Std!Edit(s, a, 0, x) /\ a <= Len(v) /\ a <= Len(val[s]) /\ 0 \in Nat
    BY <1>1, <1>2, <1>3, <1>4, <1>5
  <1>7. Clip(v, a, 0) = 0
    BY <1>5, ClipNone
  <1>8. PICK b \in Nat : b = Len(x)
    BY <1>4, TextThere
  <1>9. PICK c : c = a + b
    OBVIOUS
  <1>10. c \in Nat /\ c <= MaxLen
    <2>1. PICK u : u = Std!Splice(v, a, 0, x)
      OBVIOUS
    <2>2. Spliced(u, v, a, 0, x, 0, Len(x))
      BY <1>6, <1>7, <2>1, SpliceSpliced
    <2>3. Len(u) <= MaxLen
      <3>1. val'[s] = u /\ Len(val'[s]) <= MaxLen
        BY <1>3, <1>6, <2>1, StdSteps DEF Values
      <3>2. QED
        BY <3>1
    <2>4. Len(u) = (a - 0) + b
      BY <1>5, <1>8, <2>2 DEF Spliced
    <2>5. QED
      BY <1>9, <2>3, <2>4
  <1>11. Fine(Len(v) + Len(x), "exact")
    BY <1>5, <1>8, <1>9, <1>10, ExactFine
  <1>12. PICK m : m = ResizeUp(Memory, s, l)
    OBVIOUS
  <1>13. ASSUME NEW u, Spliced(u, v, Len(v), 0, x, 0, Len(x))
         PROVE  Spells(m, s, u)
    BY <1>1, <1>2, <1>3, <1>4, <1>8, <1>11, <1>12, <1>13, ResizeUpSpells
  <1>14. \A u : Spliced(u, val[s], a, Clip(val[s], a, 0), x, 0, Len(x)) => Spells(m, s, u)
    BY <1>3, <1>5, <1>7, <1>13
  <1>15. Becomes(m)
    BY <1>12 DEF Resize
  <1>16. QED
    BY <1>1, <1>6, <1>14, <1>15, EditValued

(* A call that keeps the value, and leaves a memory that spells it.        *)
LEMMA KeptValued ==
  ASSUME Assumptions, Apartness, IInv', Values, NEW s \in Strings, Alive(s), Std!Keep(s),
         NEW n, Becomes(n), Spells(n, s, val[s])
  PROVE  Valued(s)'
  <1>1. PICK v : v = val[s]
    OBVIOUS
  <1>2. val'[s] = v /\ v \in Seq(Chars) /\ Len(v) <= MaxLen
    BY <1>1, Holding DEF Std!Keep
  <1>3. QED
    BY <1>1, <1>2, BecomesValued

LEMMA StoresValued ==
  ASSUME Assumptions, Exact, Apartness, IInv', Values, HeapHasRoom, NEW s \in Strings, Stores(s)
  PROVE  Valued(s)'
  <1>1. Able(Memory, s) /\ Alive(s) /\ Std!Keep(s)
    BY There DEF Stores, Reserve, Shrink, CallCStr, Buf, SharedBuf
  <1>2. /\ Len(val[s]) \in Nat /\ Len(val[s]) <= MaxLen /\ Spells(Memory, s, val[s])
        /\ Memory.str[s].state # "NONE"
    BY <1>1, Holding
  <1>3. Fine(Len(val[s]), "exact") /\ Fine(Len(val[s]) + 1, "exact") /\ \A cap \in Reserves : Fine(cap, "exact")
    BY <1>2, ExactFine
  <1>4. ASSUME NEW cap \in Reserves, Reserve(s, cap)
        PROVE  Valued(s)'
    <2>1. PICK n : n = ReserveSave(Memory, s, cap, "exact")
      OBVIOUS
    <2>2. Spells(n, s, val[s])
      BY <1>1, <1>2, <1>3, <2>1, ReserveSaveSpells
    <2>3. QED
      BY <1>1, <1>4, <2>1, <2>2, KeptValued DEF Reserve
  <1>5. CASE Shrink(s)
    BY <1>1, <1>2, <1>5, ShrinkSpells, KeptValued DEF Shrink
  <1>6. CASE CallCStr(s)
    <2>1. PICK n : n = CStr(Memory, s)
      OBVIOUS
    <2>2. Spells(n, s, val[s])
      BY <1>1, <1>2, <1>3, <2>1, CStrSpells
    <2>3. QED
      BY <1>1, <1>6, <2>1, <2>2, KeptValued DEF CallCStr
  <1>7. CASE Buf(s) \/ SharedBuf(s)
    BY <1>1, <1>2, <1>7, DetachSpells, KeptValued DEF Buf, SharedBuf
  <1>8. QED
    BY <1>4, <1>5, <1>6, <1>7 DEF Stores

LEMMA DestructValued ==
  ASSUME Assumptions, Apartness, IInv', Values, NEW s \in Strings, Destruct(s)
  PROVE  Valued(s)'
  <1>1. PICK n : n = Release(Memory, s)
    OBVIOUS
  <1>2. s \in Objs /\ Memory.str = str /\ Shape(Memory)
    BY There
  <1>3. n.str[s].state = "NONE"
    <2>1. n.str = [Memory.str EXCEPT ![s] = Void] /\ Memory.str \in [Objs -> StrRec]
      BY <1>1, <1>2, There, ReleaseGood DEF Shape
    <2>2. QED
      BY <1>2, <2>1 DEF Void
  <1>4. ~Alive(s)'
    BY <1>1, <1>3 DEF Destruct, Becomes, Alive
  <1>5. val'[s] = Gone
    BY StdSteps DEF Destruct, Values
  <1>6. QED
    BY <1>4, <1>5 DEF Valued

(* A step of StringValue on the object s alone.                            *)
Lone(s) == val' = [r \in Strings |-> val'[r]] /\ \A r \in Strings \ {s} : val'[r] = val[r]

LEMMA LoneSteps ==
  ASSUME val = [r \in Strings |-> val[r]], NEW s \in Strings
  PROVE  /\ \A v : Std!Construct(s, v) \/ Std!Assign(s, v) => Lone(s)
         /\ Std!Destroy(s) \/ Std!Keep(s) => Lone(s)
         /\ \A pos, n, v : Std!Edit(s, pos, n, v) => Lone(s)
         /\ \A t \in Strings : Std!MoveTo(s, t) \/ Std!Swap(s, t) => val' = [r \in Strings |-> val'[r]]
  <1>1. PICK f : f = val
    OBVIOUS
  <1>2. PICK g : g = val'
    OBVIOUS
  <1>3. f = [r \in Strings |-> f[r]]
    BY <1>1
  <1>4. ASSUME NEW v, g = [f EXCEPT ![s] = v]
        PROVE  g = [r \in Strings |-> g[r]] /\ \A r \in Strings \ {s} : g[r] = f[r]
    <2>1. g = [r \in Strings |-> IF r = s THEN v ELSE f[r]]
      BY <1>3, <1>4
    <2>2. QED
      BY <2>1
  <1>5. ASSUME NEW v, val' = [val EXCEPT ![s] = v]
        PROVE  Lone(s)
    BY <1>1, <1>2, <1>4, <1>5 DEF Lone
  <1>6. ASSUME NEW v, Std!Construct(s, v) \/ Std!Assign(s, v)
        PROVE  Lone(s)
    BY <1>5, <1>6 DEF Std!Construct, Std!Assign
  <1>7. ASSUME Std!Destroy(s)
        PROVE  Lone(s)
    BY <1>5, <1>7 DEF Std!Destroy
  <1>8. ASSUME Std!Keep(s)
        PROVE  Lone(s)
    BY <1>1, <1>2, <1>3, <1>8 DEF Std!Keep, Lone
  <1>9. ASSUME NEW pos, NEW n, NEW v, Std!Edit(s, pos, n, v)
        PROVE  Lone(s)
    <2>1. val' = [val EXCEPT ![s] = Std!Splice(val[s], pos, n, v)]
      BY <1>9 DEF Std!Edit
    <2>2. QED
      BY <1>5, <2>1
  <1>10. ASSUME NEW t \in Strings, Std!MoveTo(s, t) \/ Std!Swap(s, t)
         PROVE  val' = [r \in Strings |-> val'[r]]
    <2>1. PICK v, w : g = [f EXCEPT ![s] = v, ![t] = w]
      BY <1>1, <1>2, <1>10 DEF Std!MoveTo, Std!Swap
    <2>2. g = [r \in Strings |-> g[r]]
      BY <1>3, <2>1
    <2>3. QED
      BY <1>2, <2>2
  <1>11. QED
    BY <1>6, <1>7, <1>8, <1>9, <1>10

LEMMA LoneValues ==
  ASSUME Assumptions, Apartness, IInv', Values, NEW s \in Strings, Leads({s, Tmp}), Lone(s), Valued(s)'
  PROVE  Values'
  <1>1. ASSUME NEW t \in Strings
        PROVE  Valued(t)'
    <2>1. CASE t = s
      BY <2>1
    <2>2. CASE t # s
      <3>1. t \in Strings \ {s, Tmp} /\ val'[t] = val[t]
        BY <2>2 DEF Lone, Assumptions
      <3>2. QED
        BY <3>1, LeadsValued
    <2>3. QED
      BY <2>1, <2>2
  <1>2. val' = [r \in Strings |-> val'[r]]
    BY DEF Lone
  <1>3. QED
    BY <1>1, <1>2 DEF Values

LEMMA PairValues ==
  ASSUME Assumptions, Apartness, IInv', Values, HeapHasRoom, NEW s \in Strings, NEW t \in Strings,
         NewMoved(s, t) \/ Move(s, t) \/ Exchange(s, t)
  PROVE  Values'
  <1>1. Leads({s, t, Tmp})
    BY PairLeads
  <1>2. Valued(s)' /\ Valued(t)' /\ \A r \in Strings \ {s, t} : val'[r] = val[r]
    BY PairValued
  <1>3. ASSUME NEW r \in Strings
        PROVE  Valued(r)'
    <2>1. CASE r = s \/ r = t
      BY <1>2, <2>1
    <2>2. CASE r # s /\ r # t
      <3>1. r \in Strings \ {s, t, Tmp} /\ val'[r] = val[r]
        BY <1>2, <2>2 DEF Assumptions
      <3>2. QED
        BY <1>1, <3>1, LeadsValued
    <2>3. QED
      BY <2>1, <2>2
  <1>4. val' = [r \in Strings |-> val'[r]]
    BY LoneSteps DEF Values, NewMoved, Move, Exchange
  <1>5. QED
    BY <1>3, <1>4 DEF Values

LEMMA ConstructsValues ==
  ASSUME Assumptions, Apartness, IInv', Values, HeapHasRoom, NEW s \in Strings, Constructs(s)
  PROVE  Values'
  <1>1. ASSUME NEW l \in Literals, NewLiteral(s, l) \/ NewChars(s, l)
        PROVE  Values'
    <2>1. Lone(s)
      BY <1>1, LoneSteps DEF Values, NewLiteral, NewChars
    <2>2. QED
      BY <1>1, <2>1, ConstructsValued, ConstructsLeads, LoneValues
  <1>2. ASSUME NEW e \in Ext, NEW l \in Literals, AdoptNew(s, e, l)
        PROVE  Values'
    <2>1. Lone(s)
      BY <1>2, LoneSteps DEF Values, AdoptNew
    <2>2. QED
      BY <1>2, <2>1, ConstructsValued, ConstructsLeads, LoneValues
  <1>3. ASSUME NEW t \in Strings, NEW c \in Spans, NewCopy(s, t, c[1], c[2])
        PROVE  Values'
    <2>1. Lone(s)
      BY <1>3, LoneSteps DEF Values, NewCopy
    <2>2. QED
      BY <1>3, <2>1, ConstructsValued, ConstructsLeads, LoneValues
  <1>4. ASSUME NEW t \in Strings, NewMoved(s, t)
        PROVE  Values'
    BY <1>4, PairValues
  <1>5. QED
    BY <1>1, <1>2, <1>3, <1>4 DEF Constructs

LEMMA AssignsValues ==
  ASSUME Assumptions, Apartness, IInv', Values, HeapHasRoom, NEW s \in Strings, Assigns(s)
  PROVE  Values'
  <1>1. ASSUME NEW l \in Literals, SetLiteral(s, l) \/ SetChars(s, l)
        PROVE  Values'
    <2>1. Lone(s)
      BY <1>1, LoneSteps DEF Values, SetLiteral, SetChars
    <2>2. QED
      BY <1>1, <2>1, AssignsValued, AssignsLeads, LoneValues
  <1>2. ASSUME NEW e \in Ext, NEW l \in Literals, Adopt(s, e, l)
        PROVE  Values'
    <2>1. Lone(s)
      BY <1>2, LoneSteps DEF Values, Adopt
    <2>2. QED
      BY <1>2, <2>1, AssignsValued, AssignsLeads, LoneValues
  <1>3. ASSUME NEW t \in Strings, NEW c \in Spans, Copy(s, t, c[1], c[2])
        PROVE  Values'
    <2>1. Lone(s)
      BY <1>3, LoneSteps DEF Values, Copy
    <2>2. QED
      BY <1>3, <2>1, AssignsValued, AssignsLeads, LoneValues
  <1>4. ASSUME NEW t \in Strings, Move(s, t) \/ Exchange(s, t)
        PROVE  Values'
    BY <1>4, PairValues
  <1>5. QED
    BY <1>1, <1>2, <1>3, <1>4 DEF Assigns

LEMMA EditsValues ==
  ASSUME Assumptions, Exact, Apartness, IInv', Values, HeapHasRoom, NEW s \in Strings, Edits(s)
  PROVE  Values'
  <1>1. Leads({s, Tmp})
    BY EditsLeads
  <1>2. Lone(s)
    BY LoneSteps
       DEF Values, Edits, AppendText, Resize, AppendOther, EraseAt, ReplaceText, ReplaceOther, Truncate, WriteChar
  <1>3. Valued(s)'
    <2>1. \A c \in Spans : c[1] \in Nat /\ c[2] \in Nat
      BY SpansTyped
    <2>2. \A n \in 0..MaxLen : n \in Nat
      BY DEF Assumptions
    <2>3. QED
      BY <2>1, <2>2, OwnEditsValued, OtherEditsValued, ResizeValued DEF Edits
  <1>4. QED
    BY <1>1, <1>2, <1>3, LoneValues

LEMMA InitValues == ASSUME Assumptions, Init PROVE Values
  BY DEF Init, Values, Valued, Alive, Void, Objs, Std!Init

LEMMA NextValues == ASSUME Assumptions, Exact, Apartness, Values, [Next]_vars PROVE Values'
  <1>1. IInv'
    BY NextApartness DEF Apartness
  <1>2. CASE Next
    <2>1. PICK s \in Strings : \/ Destruct(s)
                               \/ HeapHasRoom /\ (Constructs(s) \/ Assigns(s) \/ Edits(s) \/ Stores(s))
      BY <1>2 DEF Next
    <2>2. CASE Destruct(s)
      <3>1. Lone(s)
        BY <2>2, LoneSteps DEF Values, Destruct
      <3>2. QED
        BY <1>1, <2>2, <3>1, DestructLeads, DestructValued, LoneValues
    <2>3. CASE HeapHasRoom /\ Stores(s)
      <3>1. Lone(s)
        BY <2>3, LoneSteps DEF Values, Stores, Reserve, Shrink, CallCStr, Buf, SharedBuf
      <3>2. QED
        BY <1>1, <2>3, <3>1, StoresLeads, StoresValued, LoneValues
    <2>4. QED
      BY <1>1, <2>1, <2>2, <2>3, ConstructsValues, AssignsValues, EditsValues
  <1>3. CASE UNCHANGED vars
    <2>1. Memory' = Memory /\ val' = val /\ str' = str
      BY <1>3 DEF vars, Memory
    <2>2. QED
      BY <2>1 DEF Values, Valued, Alive, Spells, Room, Stands, Shows, Sized, BlockSize
  <1>4. QED
    BY <1>2, <1>3

(* The values are those of std::string, as long as a float holds every      *)
(* capacity: basic_string multiplies capacities as floats.                 *)
THEOREM ValuesAlways == ASSUME Exact PROVE Spec => []Values
  <1>1. Init => Values
    BY CowStringAssumption, InitValues
  <1>2. Apartness /\ Values /\ [Next]_vars => Values'
    BY CowStringAssumption, NextValues
  <1>3. QED
    BY <1>1, <1>2, ApartAlways, PTL DEF Spec

LEMMA SpellsRead ==
  ASSUME NEW m, NEW s, NEW v \in Seq(Chars), Spells(m, s, v)
  PROVE  Read(m, m.str[s]) = v
  <1>1. PICK n \in Nat : n = Len(v)
    BY SpellsTyped
  <1>2. PICK p : p = m.str[s]
    OBVIOUS
  <1>3. PICK o \in Nat : o = p.off
    BY <1>2, SpellsTyped
  <1>4. p.len = n /\ Shows(m, p.blk, o, v, 0, n)
    BY <1>1, <1>2, <1>3, SpellsTyped
  <1>5. ASSUME NEW i \in 1..n
        PROVE  Cell(m, p.blk, o + i) = v[i]
    BY <1>4, <1>5 DEF Shows, Sized, Cell
  <1>6. v = [i \in 1..n |-> v[i]]
    BY <1>1
  <1>7. QED
    BY <1>2, <1>3, <1>4, <1>5, <1>6 DEF Read

(* Every string reads as the value std::string has after the same calls.   *)
THEOREM ValuesRead == ASSUME Exact PROVE Spec => []ValueSemantics
  <1>1. Apartness /\ Values => ValueSemantics
    <2> SUFFICES ASSUME Apartness, Values, NEW s \in Strings
                 PROVE  IF Alive(s) THEN View(s) = val[s] ELSE val[s] = Gone
      BY DEF ValueSemantics
    <2>1. CASE Alive(s)
      <3>1. val[s] \in Seq(Chars) /\ Spells(Memory, s, val[s]) /\ Memory.str = str
        BY <2>1, CowStringAssumption, Holding, There
      <3>2. QED
        BY <2>1, <3>1, SpellsRead DEF View
    <2>2. CASE ~Alive(s)
      BY <2>2 DEF Values, Valued
    <2>3. QED
      BY <2>1, <2>2
  <1>2. QED
    BY <1>1, ValuesAlways, ApartAlways, PTL

(* Every window lies inside its block, a block of the kind its state says.  *)
THEOREM WindowsFit == ASSUME Exact PROVE Spec => []WindowInBlock
  <1>1. Apartness /\ Values => WindowInBlock
    <2> SUFFICES ASSUME Apartness, Values, NEW s \in Strings, Alive(s)
                 PROVE  /\ str[s].off >= 0 /\ str[s].len >= 0
                        /\ str[s].off + str[s].len <= Len(mem[str[s].blk])
                        /\ CASE str[s].state = "LITERAL"  -> str[s].blk \in Literals
                             [] str[s].state = "SSO"      -> str[s].blk = s /\ Len(mem[s]) = MaxSso
                             [] str[s].state = "INTERNAL" -> str[s].blk \in Buffers /\ ctl[str[s].blk].ext = NoExt
                             [] str[s].state = "EXTERNAL" -> str[s].blk \in Buffers /\ ctl[str[s].blk].ext \in Ext
      BY DEF WindowInBlock
    <2>1. /\ s \in Objs /\ Shape(Memory) /\ Housed(Memory) /\ Balanced(Memory)
          /\ Room(Memory, s, str[s].len) /\ str[s].len \in Nat
          /\ Memory.str = str /\ Memory.mem = mem /\ Memory.ctl = ctl
      BY CowStringAssumption, Holding, There, SpellsTyped DEF Memory
    <2>2. PICK p : p = str[s]
      OBVIOUS
    <2>3. /\ p.off \in Nat /\ p.len \in Nat /\ p.off + p.len <= Len(mem[p.blk])
          /\ p.state = "SSO" => Len(mem[p.blk]) = MaxSso
      BY <2>1, <2>2 DEF Room, BlockSize
    <2>4. p.state \in {"LITERAL", "SSO", "INTERNAL", "EXTERNAL"}
          /\ (p.state \in {"INTERNAL", "EXTERNAL"} => p.blk \in Buffers)
      BY <2>1, <2>2 DEF Shape, StrRec, States, Counted, Alive
    <2>5. /\ p.state = "SSO" => p.blk = s
          /\ p.state = "LITERAL" => p.blk \in Literals
          /\ p.state = "INTERNAL" => ctl[p.blk].ext = NoExt
          /\ p.state = "EXTERNAL" => ctl[p.blk].ext \in Ext
      BY <2>1, <2>2 DEF Housed, Balanced, Matched
    <2>6. CASE p.state = "LITERAL"
      BY <2>2, <2>3, <2>5, <2>6
    <2>7. CASE p.state = "SSO"
      BY <2>2, <2>3, <2>5, <2>7
    <2>8. CASE p.state = "INTERNAL"
      BY <2>2, <2>3, <2>4, <2>5, <2>8
    <2>9. CASE p.state = "EXTERNAL"
      BY <2>2, <2>3, <2>4, <2>5, <2>9
    <2>10. QED
      BY <2>4, <2>6, <2>7, <2>8, <2>9
  <1>2. QED
    BY <1>1, ValuesAlways, ApartAlways, PTL

(* c_str() leaves a NUL behind the text.                                   *)
THEOREM CStrEnds == ASSUME Exact PROVE Spec => []CStrTerminated
  <1>1. Apartness /\ Values => CStrTerminated
    <2> SUFFICES ASSUME Apartness, Values, NEW s \in Strings, Alive(s), HeapHasRoom, str[s].state # "LITERAL",
                        NEW m, m = CStr(Memory, s)
                 PROVE  Cell(m, m.str[s].blk, m.str[s].off + m.str[s].len + 1) = NUL
      BY DEF CStrTerminated
    <2>1. Able(Memory, s) /\ Memory.str = str
      BY CowStringAssumption, There
    <2>2. Spells(Memory, s, val[s]) /\ Len(val[s]) \in Nat /\ Len(val[s]) <= MaxLen
          /\ Memory.str[s].state # "NONE"
      BY CowStringAssumption, Holding
    <2>3. Fine(Len(val[s]) + 1, "exact")
      BY <2>2, CowStringAssumption, ExactFine
    <2>4. QED
      BY <2>1, <2>2, <2>3, CStrSpells
  <1>2. QED
    BY <1>1, ValuesAlways, ApartAlways, PTL

(* After reserve(n) the caller may write n characters no other string sees. *)
THEOREM ReserveSuffices == ASSUME Exact PROVE Spec => []ReserveGrants
  <1>1. Apartness /\ Values => ReserveGrants
    <2> SUFFICES ASSUME Apartness, Values, NEW s \in Strings, NEW cap \in Reserves, Alive(s), HeapHasRoom,
                        NEW m, m = ReserveSave(Memory, s, cap, "exact")
                 PROVE  Capacity(m, s) >= cap
      BY DEF ReserveGrants
    <2>1. Able(Memory, s) /\ s \in Objs /\ cap \in Nat
      BY CowStringAssumption, There DEF Assumptions
    <2>2. Spells(Memory, s, val[s]) /\ Len(val[s]) \in Nat /\ Len(val[s]) <= MaxLen
          /\ Memory.str[s].state # "NONE"
      BY CowStringAssumption, Holding
    <2>3. Fine(Len(val[s]), "exact") /\ Fine(cap, "exact")
      BY <2>2, CowStringAssumption, ExactFine
    <2>4. Room(m, s, cap)
      BY <2>1, <2>2, <2>3, ReserveSaveSpells
    <2>5. Balanced(m)
      BY <2>1, <2>2, ReserveSaveGood DEF Able, Outcome
    <2>6. Shape(m) /\ Housed(m) /\ Own(m, s)
      BY <2>1, <2>2, ReserveSaveGranted DEF Granted, Confined
    <2>7. CapacityTail(m, s) >= cap
      <3>1. PICK o \in Nat : o = m.str[s].off
        BY <2>4 DEF Room
      <3>2. PICK b \in Nat : b = BlockSize(m, s)
        BY <2>4 DEF Room, Sized, BlockSize
      <3>3. o + cap <= b
        BY <2>4, <3>1, <3>2 DEF Room
      <3>4. b - o >= cap
        BY <2>1, <3>3
      <3>5. QED
        BY <3>1, <3>2, <3>4 DEF CapacityTail
    <2>8. m.str[s].state \in Counted => Unique(m, s)
      <3>1. PICK b : b = m.str[s].blk
        OBVIOUS
      <3>2. CASE m.str[s].state \in Counted
        <4>1. b \in Buffers
          BY <2>1, <2>6, <3>1, <3>2 DEF Shape, StrRec
        <4>2. Holders(m, b) = {s}
          <5>1. Holders(m, b) \ {s} = {}
            BY <2>6, <3>1, <4>1 DEF Own, Foreign
          <5>2. s \in Holders(m, b)
            BY <2>1, <3>1, <3>2 DEF Holders
          <5>3. QED
            BY <5>1, <5>2
        <4>3. m.ctl[b].refcnt = 1
          BY <2>5, <4>1, <4>2, FS_Singleton DEF Balanced
        <4>4. QED
          BY <3>1, <4>3 DEF Unique
      <3>3. QED
        BY <3>2
    <2>9. m.str[s].state \in Counted \/ m.str[s].state = "SSO"
      <3>1. m.str[s].state # "LITERAL"
        BY <2>1, <2>6 DEF Housed, Own, Foreign
      <3>2. m.str[s].state \in States /\ m.str[s].state # "NONE"
        BY <2>1, <2>4, <2>6 DEF Shape, StrRec, Room
      <3>3. QED
        BY <3>1, <3>2 DEF States
    <2>10. CASE m.str[s].state \in Counted
      BY <2>7, <2>8, <2>10 DEF Capacity, Counted
    <2>11. CASE m.str[s].state = "SSO"
      BY <2>7, <2>11 DEF Capacity, Counted
    <2>12. QED
      BY <2>9, <2>10, <2>11
  <1>2. QED
    BY <1>1, ValuesAlways, ApartAlways, PTL

(* What a call passes to the step it takes on StringValue.                 *)
LEMMA CallsPass ==
  ASSUME Assumptions, Apartness, Values
  PROVE  /\ \A l \in Literals : LitText[l] \in Texts /\ LitText[l] \in Std!Passed
         /\ \A t \in Strings, c \in Spans :
               Alive(t) /\ c[1] <= str[t].len => Std!Sub(val[t], c[1], c[2]) \in Std!Passed
  <1>1. \A l \in Literals : LitText[l] \in Texts /\ LitText[l] \in Std!Passed
    BY DEF Texts, Std!Passed
  <1>2. ASSUME NEW t \in Strings, NEW c \in Spans, Alive(t), c[1] <= str[t].len
        PROVE  Std!Sub(val[t], c[1], c[2]) \in Std!Passed
    <2>1. val[t] \in Seq(Chars) /\ str[t].len = Len(val[t])
      BY <1>2, Holding
    <2>2. Std!Live(t)
      BY <2>1 DEF Std!Live, Assumptions
    <2>3. Std!Sub(val[t], c[1], c[2]) \in Std!Parts(val[t])
      BY <1>2, <2>1 DEF Std!Parts
    <2>4. QED
      BY <2>2, <2>3 DEF Std!Passed
  <1>3. QED
    BY <1>1, <1>2

(* A call that leaves one of the results StringValue allows.               *)
LEMMA ResultIsStd ==
  ASSUME Values, NEW s \in Strings, NEW v, Std!Result(val[s], v, Std!Passed),
         v # Gone => Len(v) <= MaxLen, val' = [val EXCEPT ![s] = v]
  PROVE  Std!Next
  <1>1. val'[s] = v
    BY DEF Values
  <1>2. val' = [val EXCEPT ![s] = val'[s]]
    BY <1>1
  <1>3. Std!Call(s)
    BY <1>1, <1>2 DEF Std!Call
  <1>4. QED
    BY <1>3 DEF Std!Next

(* The operations that change one object give such results.                *)
LEMMA OperationsAreStd ==
  ASSUME Assumptions, Values, NEW s \in Strings
  PROVE  /\ Std!Destroy(s) \/ Std!Keep(s) => Std!Next
         /\ \A w \in Std!Passed : Std!Construct(s, w) \/ Std!Assign(s, w) => Std!Next
         /\ \A c, places, texts, w :
               /\ Std!Edit(s, c[1], c[2], w) /\ c \in places /\ w \in texts
               /\ \A u \in Std!Edited(val[s], places, texts) : Std!Result(val[s], u, Std!Passed)
               => Std!Next
  <1>1. ASSUME Std!Destroy(s) PROVE Std!Next
    BY <1>1, ResultIsStd DEF Std!Destroy, Std!Live, Std!Result
  <1>2. ASSUME Std!Keep(s) PROVE Std!Next
    <2>1. val[s] # Gone /\ val' = [val EXCEPT ![s] = val[s]]
      BY <1>2 DEF Std!Keep, Std!Live, Values
    <2>2. Std!Result(val[s], val[s], Std!Passed)
      BY <2>1 DEF Std!Result
    <2>3. Len(val[s]) <= MaxLen
      BY <2>1 DEF Values, Valued
    <2>4. QED
      BY <2>1, <2>2, <2>3, ResultIsStd
  <1>3. ASSUME NEW w \in Std!Passed, Std!Construct(s, w) \/ Std!Assign(s, w) PROVE Std!Next
    BY <1>3, ResultIsStd DEF Std!Construct, Std!Assign, Std!Live, Std!Result
  <1>4. ASSUME NEW c, NEW places, NEW texts, NEW w,
               Std!Edit(s, c[1], c[2], w), c \in places, w \in texts,
               \A u \in Std!Edited(val[s], places, texts) : Std!Result(val[s], u, Std!Passed)
        PROVE  Std!Next
    <2>1. Std!Splice(val[s], c[1], c[2], w) \in Std!Edited(val[s], places, texts)
      BY <1>4 DEF Std!Edit, Std!Edited
    <2>2. /\ Len(Std!Splice(val[s], c[1], c[2], w)) <= MaxLen
          /\ val' = [val EXCEPT ![s] = Std!Splice(val[s], c[1], c[2], w)]
      BY <1>4 DEF Std!Edit
    <2>3. QED
      BY <1>4, <2>1, <2>2, ResultIsStd
  <1>5. QED
    BY <1>1, <1>2, <1>3, <1>4

(* Every call is a step of StringValue, with the arguments of the call.    *)
LEMMA NextIsStd ==
  ASSUME Assumptions, Apartness, Values, Next
  PROVE  Std!Next
  <1>1. PICK s \in Strings : Destruct(s) \/ Constructs(s) \/ Assigns(s) \/ Edits(s) \/ Stores(s)
    BY DEF Next
  <1>2. ASSUME NEW w \in Std!Passed, Std!Construct(s, w) \/ Std!Assign(s, w)
        PROVE  Std!Next
    BY <1>2, OperationsAreStd
  <1>3. ASSUME NEW w \in Std!Passed \cup {<<>>}, NEW c \in Spans, Std!Edit(s, c[1], c[2], w)
        PROVE  Std!Next
    <2>1. \A u \in Std!Edited(val[s], Spans, Std!Passed \cup {<<>>}) : Std!Result(val[s], u, Std!Passed)
      BY <1>3 DEF Std!Edit, Std!Live, Std!Result
    <2>2. QED
      BY <1>3, <2>1, OperationsAreStd
  <1>4. ASSUME NEW t \in Strings, Std!MoveTo(s, t) \/ Std!Swap(s, t)
        PROVE  Std!Next
    BY <1>4 DEF Std!Next
  <1>5. ASSUME Std!Destroy(s) \/ Std!Keep(s) PROVE Std!Next
    BY <1>5, OperationsAreStd
  <1>6. /\ \A l \in Literals : LitText[l] \in Texts /\ LitText[l] \in Std!Passed
        /\ \A t \in Strings, c \in Spans :
              Alive(t) /\ c[1] <= str[t].len => Std!Sub(val[t], c[1], c[2]) \in Std!Passed
    BY CallsPass
  <1>7. CASE Destruct(s) \/ Stores(s)
    BY <1>5, <1>7 DEF Destruct, Stores, Reserve, Shrink, CallCStr, Buf, SharedBuf
  <1>8. CASE Constructs(s)
    <2>1. ASSUME NEW l \in Literals, NewLiteral(s, l) \/ NewChars(s, l) \/ \E e \in Ext : AdoptNew(s, e, l)
          PROVE  Std!Next
      BY <1>2, <1>6, <2>1 DEF NewLiteral, NewChars, AdoptNew
    <2>2. ASSUME NEW t \in Strings, NEW c \in Spans, NewCopy(s, t, c[1], c[2])
          PROVE  Std!Next
      BY <1>2, <1>6, <2>2 DEF NewCopy
    <2>3. ASSUME NEW t \in Strings, NewMoved(s, t)
          PROVE  Std!Next
      BY <1>4, <2>3 DEF NewMoved
    <2>4. QED
      BY <1>8, <2>1, <2>2, <2>3 DEF Constructs
  <1>9. CASE Assigns(s)
    <2>1. ASSUME NEW l \in Literals, SetLiteral(s, l) \/ SetChars(s, l) \/ \E e \in Ext : Adopt(s, e, l)
          PROVE  Std!Next
      BY <1>2, <1>6, <2>1 DEF SetLiteral, SetChars, Adopt
    <2>2. ASSUME NEW t \in Strings, NEW c \in Spans, Copy(s, t, c[1], c[2])
          PROVE  Std!Next
      BY <1>2, <1>6, <2>2 DEF Copy
    <2>3. ASSUME NEW t \in Strings, Move(s, t) \/ Exchange(s, t)
          PROVE  Std!Next
      BY <1>4, <2>3 DEF Move, Exchange
    <2>4. QED
      BY <1>9, <2>1, <2>2, <2>3 DEF Assigns
  <1>10. CASE Edits(s)
    <2>1. ASSUME Alive(s) PROVE str[s].len = Len(val[s]) /\ Std!Live(s)
      BY <2>1, Holding DEF Std!Live, Assumptions
    <2>10. ASSUME NEW w \in Std!Passed, Alive(s), Std!Edit(s, str[s].len, 0, w)
           PROVE  Std!Next
      <3> DEFINE end == <<Len(val[s]), 0>>
      <3>1. Std!Edit(s, end[1], end[2], w)
        BY <2>1, <2>10
      <3>2. \A u \in Std!Edited(val[s], {end}, Std!Passed) : Std!Result(val[s], u, Std!Passed)
        BY <2>1, <2>10 DEF Std!Live, Std!Result
      <3> HIDE DEF end
      <3>3. end \in {end}
        OBVIOUS
      <3>4. QED
        BY <3>1, <3>2, <3>3, <2>10, OperationsAreStd
    <2>2. ASSUME NEW l \in Literals, AppendText(s, l) \/ Resize(s, l)
          PROVE  Std!Next
      BY <1>6, <2>2, <2>10 DEF AppendText, Resize
    <2>3. ASSUME NEW t \in Strings, NEW c \in Spans, AppendOther(s, t, c[1], c[2])
          PROVE  Std!Next
      BY <1>6, <2>3, <2>10 DEF AppendOther
    <2>4. ASSUME NEW c \in Spans, EraseAt(s, c[1], c[2])
          PROVE  Std!Next
      BY <1>3, <2>4 DEF EraseAt
    <2>5. ASSUME NEW c \in Spans, NEW l \in Literals, ReplaceText(s, c[1], c[2], l)
          PROVE  Std!Next
      BY <1>3, <1>6, <2>5 DEF ReplaceText
    <2>6. ASSUME NEW c \in Spans, NEW d \in Spans, NEW t \in Strings, ReplaceOther(s, c[1], c[2], t, d[1], d[2])
          PROVE  Std!Next
      BY <1>3, <1>6, <2>6 DEF ReplaceOther
    <2>7. ASSUME NEW n \in 0..MaxLen, Truncate(s, n)
          PROVE  Std!Next
      <3> DEFINE ends == {<<k, MaxLen>> : k \in 0..MaxLen}  c == <<n, MaxLen>>
      <3>1. Std!Edit(s, c[1], c[2], <<>>) /\ c \in ends
        BY <2>7 DEF Truncate
      <3>2. \A u \in Std!Edited(val[s], ends, {<<>>}) : Std!Result(val[s], u, Std!Passed)
        BY <3>1 DEF Std!Edit, Std!Live, Std!Result
      <3> HIDE DEF ends, c
      <3>3. QED
        BY <3>1, <3>2, OperationsAreStd
    <2>8. ASSUME NEW i \in 0..MaxLen, NEW l \in Literals, WriteChar(s, i, l)
          PROVE  Std!Next
      <3> DEFINE ones == {<<k, 1>> : k \in {n \in 0..MaxLen : n < Len(val[s])}}  c == <<i, 1>>
                 singles == {w \in Texts : Len(w) = 1}
      <3>1. Alive(s) /\ i < str[s].len /\ Len(LitText[l]) = 1
        BY <2>8 DEF WriteChar
      <3>2. Std!Edit(s, c[1], c[2], LitText[l]) /\ c \in ones /\ LitText[l] \in singles
        BY <1>6, <2>1, <2>8, <3>1 DEF WriteChar
      <3>3. \A u \in Std!Edited(val[s], ones, singles) : Std!Result(val[s], u, Std!Passed)
        BY <3>2 DEF Std!Edit, Std!Live, Std!Result
      <3> HIDE DEF ones, singles, c
      <3>4. QED
        BY <3>2, <3>3, OperationsAreStd
    <2>9. QED
      BY <1>10, <2>2, <2>3, <2>4, <2>5, <2>6, <2>7, <2>8 DEF Edits
  <1>11. QED
    BY <1>1, <1>7, <1>8, <1>9, <1>10

(* What the refinement mapping shows is the values.                        *)
Shown == [s \in Strings |-> IF Alive(s) THEN View(s) ELSE Gone]

LEMMA ShownIsVal == ASSUME Values, ValueSemantics PROVE Shown = val
  <1>1. \A s \in Strings : Shown[s] = val[s]
    BY DEF Shown, ValueSemantics
  <1>2. QED
    BY <1>1 DEF Shown, Values

(* The same step on what is shown.                                         *)
LEMMA ShowsStd ==
  ASSUME Shown = val, Shown' = val', Std!Next
  PROVE  Abs!Next
  <1>1. PICK s \in Strings : Std!Call(s) \/ \E t \in Strings : Std!MoveTo(s, t) \/ Std!Swap(s, t)
    BY DEF Std!Next
  <1>2. ASSUME NEW t \in Strings, Std!MoveTo(s, t) \/ Std!Swap(s, t)
        PROVE  Abs!MoveTo(s, t) \/ Abs!Swap(s, t)
    BY <1>2 DEF Shown, Std!MoveTo, Std!Swap, Std!Live, Abs!MoveTo, Abs!Swap, Abs!Live
  <1>3. Abs!Passed = Std!Passed
    <2>1. \A v : Abs!Parts(v) = Std!Parts(v)
      BY DEF Std!Parts, Abs!Parts, Std!Sub, Abs!Sub
    <2>2. \A t \in Strings : Abs!Live(t) <=> Std!Live(t)
      BY DEF Shown, Std!Live, Abs!Live
    <2>3. QED
      BY <2>1, <2>2 DEF Shown, Std!Passed, Abs!Passed
  <1>4. \A v, u, texts : Abs!Result(v, u, texts) <=> Std!Result(v, u, texts)
    <2>1. \A v, places, texts : Abs!Edited(v, places, texts) = Std!Edited(v, places, texts)
      BY DEF Std!Edited, Abs!Edited, Std!Splice, Abs!Splice
    <2>2. QED
      BY <2>1 DEF Std!Result, Abs!Result
  <1>5. ASSUME Std!Call(s) PROVE Abs!Call(s)
    BY <1>3, <1>4, <1>5 DEF Shown, Std!Call, Abs!Call
  <1>6. QED
    BY <1>1, <1>2, <1>5 DEF Abs!Next

Showing == [Abs!Next]_[s \in Strings |-> IF Alive(s) THEN View(s) ELSE Gone]

(* What the objects read as changes as strings of type std::string do: the *)
(* initial states and every call, with its arguments, are those of         *)
(* StringValue.                                                            *)
THEOREM StringsAreValues == ASSUME Exact PROVE Spec => ImplementsStringValue
  <1>1. Init /\ Values /\ ValueSemantics => Abs!Init
    <2> SUFFICES ASSUME Init, Values, ValueSemantics PROVE Abs!Init
      OBVIOUS
    <2>1. Shown = val
      BY ShownIsVal
    <2>2. QED
      BY <2>1 DEF Shown, Init, Std!Init, Abs!Init
  <1>2. Apartness /\ Values /\ Values' /\ ValueSemantics /\ ValueSemantics' /\ [Next]_vars
          => Showing
    <2> SUFFICES ASSUME Apartness, Values, Values', ValueSemantics, ValueSemantics', [Next]_vars
                 PROVE  Abs!Next \/ Shown' = Shown
      BY DEF Showing, Shown
    <2>1. Shown = val /\ Shown' = val'
      <3>1. Shown = val
        BY ShownIsVal
      <3>2. \A s \in Strings : Shown'[s] = val'[s]
        BY DEF Shown, ValueSemantics
      <3>3. Shown' = [s \in Strings |-> Shown'[s]] /\ val' = [s \in Strings |-> val'[s]]
        BY DEF Shown, Values
      <3>4. QED
        BY <3>1, <3>2, <3>3
    <2>2. CASE Next
      BY <2>1, <2>2, CowStringAssumption, NextIsStd, ShowsStd
    <2>3. CASE UNCHANGED vars
      BY <2>1, <2>3 DEF vars
    <2>4. QED
      BY <2>2, <2>3
  <1>3. QED
    BY <1>1, <1>2, ValuesAlways, ValuesRead, ApartAlways, PTL
       DEF Spec, Showing, ImplementsStringValue, Abs!Spec
=============================================================================
