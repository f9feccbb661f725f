-------------------------- MODULE DispatcherProofs --------------------------
(***************************************************************************)
(* A listener's closure exists until it calls next(), whatever it does to  *)
(* the dispatcher and however deep dispatches nest, for any number of      *)
(* listeners.                                                              *)
(***************************************************************************)
EXTENDS Dispatcher, ListNodesProofs

FrameType == [ev : 1..MaxDispatches, node : Nodes \cup {Dangling}, called : BOOLEAN]

(* Frame f of the events evs: it has called next(), or its event is still  *)
(* on its node.                                                            *)
Waits(evs, f) == ~f.called => f.node # Dangling /\ evs[f.ev] = f.node

(* The calls in progress follow the events: the outermost call is of the   *)
(* first event, the innermost of the last, and of two calls of one event   *)
(* the outer one has called next().                                        *)
Stack(evs, fs) ==
  /\ evs \in Seq(Nodes \cup {Null}) /\ Len(evs) <= MaxDispatches
  /\ fs \in Seq(FrameType) /\ Len(fs) <= MaxCalls
  /\ Len(fs) = 0 <=> Len(evs) = 0
  /\ Len(fs) # 0 => fs[1].ev = 1 /\ fs[Len(fs)].ev = Len(evs)
  /\ \A k \in 1..(Len(fs) - 1) : fs[k + 1].ev <= fs[k].ev + 1
  /\ \A j, k \in 1..Len(fs) : j < k => fs[j].ev <= fs[k].ev /\ (fs[j].ev = fs[k].ev => fs[j].called)
  /\ \A k \in 1..Len(fs) : Waits(evs, fs[k])

LEMMA FrameTyped ==
  ASSUME NEW evs, NEW fs, Stack(evs, fs)
  PROVE  /\ Len(evs) \in Nat /\ Len(fs) \in Nat
         /\ \A i \in 1..Len(evs) : evs[i] \in Nodes \cup {Null}
         /\ \A k \in 1..Len(fs) : /\ fs[k] \in FrameType /\ fs[k].ev \in 1..Len(evs)
                                  /\ fs[k].node \in Nodes \cup {Dangling} /\ fs[k].called \in BOOLEAN
  <1>1. evs \in Seq(Nodes \cup {Null}) /\ fs \in Seq(FrameType)
    BY DEF Stack
  <1>2. Len(evs) \in Nat /\ Len(fs) \in Nat /\ \A i \in 1..Len(evs) : evs[i] \in Nodes \cup {Null}
    BY <1>1
  <1>3. ASSUME NEW k \in 1..Len(fs)
        PROVE  /\ fs[k] \in FrameType /\ fs[k].ev \in 1..Len(evs)
               /\ fs[k].node \in Nodes \cup {Dangling} /\ fs[k].called \in BOOLEAN
    <2>1. fs[k] \in FrameType
      BY <1>1
    <2>2. fs[k].ev \in 1..MaxDispatches /\ fs[k].node \in Nodes \cup {Dangling} /\ fs[k].called \in BOOLEAN
      BY <2>1 DEF FrameType
    <2>3. fs[Len(fs)].ev = Len(evs)
      BY <1>2 DEF Stack
    <2>4. k < Len(fs) => fs[k].ev <= fs[Len(fs)].ev
      BY <1>2 DEF Stack
    <2>5. fs[k].ev <= Len(evs)
      BY <1>2, <2>2, <2>3, <2>4
    <2>6. QED
      BY <1>2, <2>1, <2>2, <2>5, BoundsAssumption
  <1>4. QED
    BY <1>2, <1>3

(* A new dispatch enters its first listener.                               *)
LEMMA StackDispatches ==
  ASSUME NEW evs, NEW fs, Stack(evs, fs), NEW n \in Nodes,
         Len(evs) < MaxDispatches, Len(fs) < MaxCalls
  PROVE  Stack(Append(evs, n), Append(fs, [ev |-> Len(evs) + 1, node |-> n, called |-> FALSE]))
  <1>1. PICK f, e, g : /\ f = [ev |-> Len(evs) + 1, node |-> n, called |-> FALSE]
                       /\ e = Append(evs, n) /\ g = Append(fs, f)
    OBVIOUS
  <1>2. Len(evs) \in Nat /\ Len(fs) \in Nat
    BY FrameTyped
  <1>3. f \in FrameType /\ f.ev = Len(evs) + 1 /\ f.node = n /\ ~f.called
    BY <1>1, <1>2, BoundsAssumption DEF FrameType
  <1>4. /\ e \in Seq(Nodes \cup {Null}) /\ Len(e) = Len(evs) + 1 /\ e[Len(evs) + 1] = n
        /\ \A i \in 1..Len(evs) : e[i] = evs[i]
    BY <1>1 DEF Stack
  <1>5. /\ g \in Seq(FrameType) /\ Len(g) = Len(fs) + 1 /\ g[Len(fs) + 1] = f
        /\ \A k \in 1..Len(fs) : g[k] = fs[k]
    BY <1>1, <1>3 DEF Stack
  <1>6. \A k \in 1..Len(fs) : fs[k].ev \in 1..Len(evs) /\ Waits(evs, fs[k])
    BY FrameTyped DEF Stack
  <1>7. \A k \in 1..Len(g) : k \in 1..Len(fs) \/ k = Len(fs) + 1
    BY <1>2, <1>5
  <1>8. ASSUME NEW k \in 1..Len(g) PROVE Waits(e, g[k])
    <2>1. CASE k \in 1..Len(fs)
      BY <1>4, <1>5, <1>6, <2>1 DEF Waits
    <2>2. CASE k = Len(fs) + 1
      BY <1>3, <1>4, <1>5, <2>2, NodesAssumption DEF Waits
    <2>3. QED
      BY <1>7, <2>1, <2>2
  <1>9. g[1].ev = 1 /\ g[Len(g)].ev = Len(e)
    <2>1. CASE Len(fs) = 0
      BY <1>3, <1>4, <1>5, <2>1 DEF Stack
    <2>2. CASE Len(fs) # 0
      <3>1. 1 \in 1..Len(fs) /\ fs[1].ev = 1
        BY <1>2, <2>2 DEF Stack
      <3>2. QED
        BY <1>3, <1>4, <1>5, <3>1
    <2>3. QED
      BY <2>1, <2>2
  <1>10. ASSUME NEW k \in 1..(Len(g) - 1) PROVE g[k + 1].ev <= g[k].ev + 1
    <2>1. k \in 1..Len(fs)
      BY <1>2, <1>5
    <2>2. CASE k = Len(fs)
      <3>1. fs[Len(fs)].ev = Len(evs)
        BY <2>1, <2>2 DEF Stack
      <3>2. QED
        BY <1>2, <1>3, <1>5, <2>1, <2>2, <3>1
    <2>3. CASE k # Len(fs)
      <3>1. k \in 1..(Len(fs) - 1) /\ k + 1 \in 1..Len(fs)
        BY <1>2, <2>1, <2>3
      <3>2. fs[k + 1].ev <= fs[k].ev + 1
        BY <3>1 DEF Stack
      <3>3. QED
        BY <1>5, <2>1, <3>1, <3>2
    <2>4. QED
      BY <2>2, <2>3
  <1>11. ASSUME NEW j \in 1..Len(g), NEW k \in 1..Len(g), j < k
         PROVE  g[j].ev <= g[k].ev /\ (g[j].ev = g[k].ev => g[j].called)
    <2>1. j \in 1..Len(fs) /\ g[j] = fs[j] /\ fs[j].ev \in 1..Len(evs)
      BY <1>2, <1>5, <1>6, <1>11
    <2>2. CASE k \in 1..Len(fs)
      BY <1>5, <1>11, <2>1, <2>2 DEF Stack
    <2>3. CASE k = Len(fs) + 1
      BY <1>2, <1>3, <1>5, <2>1, <2>3
    <2>4. QED
      BY <1>7, <2>2, <2>3
  <1>12. Len(e) <= MaxDispatches /\ Len(g) <= MaxCalls /\ Len(g) # 0 /\ Len(e) # 0
    BY <1>2, <1>4, <1>5, BoundsAssumption
  <1>13. QED
    BY <1>1, <1>4, <1>5, <1>8, <1>9, <1>10, <1>11, <1>12 DEF Stack

(* Calls return until k of them are left; the events of the others go.     *)
Kept(fs, k) == IF k = 0 THEN 0 ELSE fs[k].ev

LEMMA StackReturns ==
  ASSUME NEW evs, NEW fs, Stack(evs, fs), NEW k \in 0..Len(fs)
  PROVE  /\ Kept(fs, k) \in 0..Len(evs)
         /\ Stack(SubSeq(evs, 1, Kept(fs, k)), SubSeq(fs, 1, k))
         /\ \A i \in 1..Kept(fs, k) : SubSeq(evs, 1, Kept(fs, k))[i] = evs[i]
  <1>1. Len(evs) \in Nat /\ Len(fs) \in Nat
    BY FrameTyped
  <1>2. PICK c : c = Kept(fs, k)
    OBVIOUS
  <1>3. c \in 0..Len(evs) /\ (k = 0 <=> c = 0) /\ (k # 0 => fs[k].ev = c)
    <2>1. CASE k = 0
      BY <1>1, <1>2, <2>1 DEF Kept
    <2>2. CASE k # 0
      <3>1. k \in 1..Len(fs)
        BY <1>1, <2>2
      <3>2. fs[k].ev \in 1..Len(evs)
        BY <3>1, FrameTyped
      <3>3. QED
        BY <1>1, <1>2, <2>2, <3>2 DEF Kept
    <2>3. QED
      BY <2>1, <2>2
  <1>4. PICK e, g : e = SubSeq(evs, 1, c) /\ g = SubSeq(fs, 1, k)
    OBVIOUS
  <1>5. e \in Seq(Nodes \cup {Null}) /\ Len(e) = c /\ \A i \in 1..c : e[i] = evs[i]
    BY <1>1, <1>3, <1>4 DEF Stack
  <1>6. g \in Seq(FrameType) /\ Len(g) = k /\ \A i \in 1..k : g[i] = fs[i]
    BY <1>1, <1>4 DEF Stack
  <1>7. \A i \in 1..k : i \in 1..Len(fs) /\ fs[i].ev \in 1..Len(evs) /\ Waits(evs, fs[i])
    BY <1>1, FrameTyped DEF Stack
  <1>8. \A i \in 1..k : fs[i].ev \in 1..c
    <2>1. ASSUME NEW i \in 1..k PROVE fs[i].ev \in 1..c
      <3>1. i < k => fs[i].ev <= fs[k].ev
        BY <1>1 DEF Stack
      <3>2. fs[i].ev \in 1..Len(evs) /\ fs[k].ev = c
        BY <1>3, <1>7
      <3>3. fs[i].ev <= c
        BY <1>1, <1>3, <3>1, <3>2
      <3>4. QED
        BY <1>1, <1>3, <3>2, <3>3
    <2>2. QED
      BY <2>1
  <1>9. \A i \in 1..Len(g) : Waits(e, g[i])
    BY <1>5, <1>6, <1>7, <1>8 DEF Waits
  <1>10. Len(g) # 0 => g[1].ev = 1 /\ g[Len(g)].ev = Len(e)
    <2>1. ASSUME k # 0 PROVE fs[1].ev = 1 /\ 1 \in 1..k /\ k \in 1..k
      BY <1>1, <2>1 DEF Stack
    <2>2. QED
      BY <1>3, <1>5, <1>6, <2>1
  <1>11. ASSUME NEW i \in 1..(Len(g) - 1) PROVE g[i + 1].ev <= g[i].ev + 1
    <2>1. i \in 1..(Len(fs) - 1) /\ i \in 1..k /\ i + 1 \in 1..k
      BY <1>1, <1>6
    <2>2. QED
      BY <1>6, <2>1 DEF Stack
  <1>12. ASSUME NEW i \in 1..Len(g), NEW j \in 1..Len(g), i < j
         PROVE  g[i].ev <= g[j].ev /\ (g[i].ev = g[j].ev => g[i].called)
    <2>1. i \in 1..Len(fs) /\ j \in 1..Len(fs) /\ g[i] = fs[i] /\ g[j] = fs[j]
      BY <1>6, <1>7
    <2>2. QED
      BY <1>12, <2>1 DEF Stack
  <1>13. Len(e) <= MaxDispatches /\ Len(g) <= MaxCalls /\ (Len(g) = 0 <=> Len(e) = 0)
    BY <1>1, <1>3, <1>5, <1>6, BoundsAssumption DEF Stack
  <1>14. QED
    BY <1>2, <1>3, <1>4, <1>5, <1>6, <1>9, <1>10, <1>11, <1>12, <1>13 DEF Stack

(* The running listener calls next(): the last event moves on.             *)
LEMMA StackMoves ==
  ASSUME NEW evs, NEW fs, Stack(evs, fs), Len(evs) # 0, NEW n \in Nodes \cup {Null}
  PROVE  LET g == [fs EXCEPT ![Len(fs)].called = TRUE]
         IN  /\ Stack([evs EXCEPT ![Len(evs)] = n], g)
             /\ g[Len(fs)].called /\ Len(g) = Len(fs) /\ \A k \in 1..(Len(fs) - 1) : g[k] = fs[k]
             /\ \A k \in 1..Len(fs) : g[k].ev = fs[k].ev
  <1>1. PICK e, g : e = [evs EXCEPT ![Len(evs)] = n] /\ g = [fs EXCEPT ![Len(fs)].called = TRUE]
    OBVIOUS
  <1>2. Len(evs) \in Nat /\ Len(fs) \in Nat /\ Len(fs) # 0 /\ Len(fs) \in 1..Len(fs) /\ Len(evs) \in 1..Len(evs)
    BY FrameTyped DEF Stack
  <1>3. PICK f : f = [fs[Len(fs)] EXCEPT !.called = TRUE]
    OBVIOUS
  <1>4. f \in FrameType /\ f.ev = fs[Len(fs)].ev /\ f.called
    <2>1. fs[Len(fs)] \in FrameType
      BY <1>2, FrameTyped
    <2>2. QED
      BY <1>3, <2>1 DEF FrameType
  <1>5. g = [fs EXCEPT ![Len(fs)] = f]
    BY <1>1, <1>3
  <1>6. fs \in Seq(FrameType) /\ evs \in Seq(Nodes \cup {Null})
    BY DEF Stack
  <1>7. g \in Seq(FrameType) /\ Len(g) = Len(fs) /\ g[Len(fs)] = f /\ \A k \in 1..(Len(fs) - 1) : g[k] = fs[k]
    BY <1>2, <1>4, <1>5, <1>6
  <1>8. e \in Seq(Nodes \cup {Null}) /\ Len(e) = Len(evs) /\ \A i \in 1..(Len(evs) - 1) : e[i] = evs[i]
    BY <1>1, <1>2, <1>6
  <1>9. \A k \in 1..Len(fs) : k = Len(fs) \/ k \in 1..(Len(fs) - 1)
    BY <1>2
  <1>10. \A k \in 1..Len(fs) : g[k].ev = fs[k].ev /\ (fs[k].called => g[k].called)
    BY <1>4, <1>7, <1>9
  <1>11. ASSUME NEW k \in 1..Len(g) PROVE Waits(e, g[k])
    <2>1. CASE k = Len(fs)
      BY <1>4, <1>7, <2>1 DEF Waits
    <2>2. CASE k \in 1..(Len(fs) - 1)
      <3>1. k \in 1..Len(fs) /\ k < Len(fs) /\ g[k] = fs[k]
        BY <1>2, <1>7, <2>2
      <3>2. fs[k].ev = Len(evs) => fs[k].called
        BY <1>2, <3>1 DEF Stack
      <3>3. fs[k].ev \in 1..Len(evs) /\ Waits(evs, fs[k])
        BY <3>1, FrameTyped DEF Stack
      <3>4. fs[k].ev # Len(evs) => e[fs[k].ev] = evs[fs[k].ev]
        BY <1>2, <1>8, <3>3
      <3>5. QED
        BY <3>1, <3>2, <3>3, <3>4 DEF Waits
    <2>3. QED
      BY <1>7, <1>9, <2>1, <2>2
  <1>12. Stack(e, g)
    <2>1. g[1].ev = 1 /\ g[Len(g)].ev = Len(e)
      BY <1>2, <1>7, <1>8, <1>10 DEF Stack
    <2>2. ASSUME NEW k \in 1..(Len(g) - 1) PROVE g[k + 1].ev <= g[k].ev + 1
      <3>1. k \in 1..Len(fs) /\ k + 1 \in 1..Len(fs)
        BY <1>2, <1>7
      <3>2. fs[k + 1].ev <= fs[k].ev + 1
        BY <1>7 DEF Stack
      <3>3. QED
        BY <1>10, <3>1, <3>2
    <2>3. ASSUME NEW j \in 1..Len(g), NEW k \in 1..Len(g), j < k
          PROVE  g[j].ev <= g[k].ev /\ (g[j].ev = g[k].ev => g[j].called)
      <3>1. fs[j].ev <= fs[k].ev /\ (fs[j].ev = fs[k].ev => fs[j].called)
        BY <1>7, <2>3 DEF Stack
      <3>2. QED
        BY <1>7, <1>10, <3>1
    <2>4. Len(e) <= MaxDispatches /\ Len(g) <= MaxCalls /\ (Len(g) = 0 <=> Len(e) = 0)
      BY <1>7, <1>8 DEF Stack
    <2>5. QED
      BY <1>7, <1>8, <1>11, <2>1, <2>2, <2>3, <2>4 DEF Stack
  <1>13. QED
    BY <1>1, <1>4, <1>7, <1>10, <1>12

(* The next listener of the last event is called.                          *)
LEMMA StackCalls ==
  ASSUME NEW evs, NEW fs, Stack(evs, fs), Len(evs) # 0, Len(fs) < MaxCalls, fs[Len(fs)].called,
         NEW n \in Nodes, evs[Len(evs)] = n
  PROVE  Stack(evs, Append(fs, [ev |-> Len(evs), node |-> n, called |-> FALSE]))
  <1>1. PICK f, g : f = [ev |-> Len(evs), node |-> n, called |-> FALSE] /\ g = Append(fs, f)
    OBVIOUS
  <1>2. Len(evs) \in Nat /\ Len(fs) \in Nat /\ Len(fs) # 0 /\ Len(evs) <= MaxDispatches /\ Len(evs) \in 1..Len(evs)
    BY FrameTyped DEF Stack
  <1>3. f \in FrameType /\ f.ev = Len(evs) /\ f.node = n /\ ~f.called
    BY <1>1, <1>2, BoundsAssumption DEF FrameType
  <1>4. /\ g \in Seq(FrameType) /\ Len(g) = Len(fs) + 1 /\ g[Len(fs) + 1] = f
        /\ \A k \in 1..Len(fs) : g[k] = fs[k]
    BY <1>1, <1>3 DEF Stack
  <1>5. \A k \in 1..Len(fs) : fs[k].ev \in 1..Len(evs) /\ Waits(evs, fs[k])
    BY FrameTyped DEF Stack
  <1>6. \A k \in 1..Len(g) : k \in 1..Len(fs) \/ k = Len(fs) + 1
    BY <1>2, <1>4
  <1>7. ASSUME NEW k \in 1..Len(g) PROVE Waits(evs, g[k])
    <2>1. CASE k \in 1..Len(fs)
      BY <1>4, <1>5, <2>1
    <2>2. CASE k = Len(fs) + 1
      BY <1>3, <1>4, <2>2, NodesAssumption DEF Waits
    <2>3. QED
      BY <1>6, <2>1, <2>2
  <1>8. fs[1].ev = 1 /\ fs[Len(fs)].ev = Len(evs) /\ 1 \in 1..Len(fs)
    BY <1>2 DEF Stack
  <1>9. ASSUME NEW k \in 1..(Len(g) - 1) PROVE g[k + 1].ev <= g[k].ev + 1
    <2>1. k \in 1..Len(fs)
      BY <1>2, <1>4
    <2>2. CASE k = Len(fs)
      BY <1>2, <1>3, <1>4, <1>8, <2>1, <2>2
    <2>3. CASE k # Len(fs)
      <3>1. k \in 1..(Len(fs) - 1) /\ k + 1 \in 1..Len(fs)
        BY <1>2, <2>1, <2>3
      <3>2. fs[k + 1].ev <= fs[k].ev + 1
        BY <3>1 DEF Stack
      <3>3. QED
        BY <1>4, <2>1, <3>1, <3>2
    <2>4. QED
      BY <2>2, <2>3
  <1>10. ASSUME NEW j \in 1..Len(g), NEW k \in 1..Len(g), j < k
         PROVE  g[j].ev <= g[k].ev /\ (g[j].ev = g[k].ev => g[j].called)
    <2>1. j \in 1..Len(fs) /\ g[j] = fs[j] /\ fs[j].ev \in 1..Len(evs)
      BY <1>2, <1>4, <1>5, <1>10
    <2>2. CASE k \in 1..Len(fs)
      BY <1>4, <1>10, <2>1, <2>2 DEF Stack
    <2>3. CASE k = Len(fs) + 1
      <3>1. j # Len(fs) => (fs[j].ev = fs[Len(fs)].ev => fs[j].called)
        BY <1>2, <2>1 DEF Stack
      <3>2. fs[j].ev = Len(evs) => fs[j].called
        BY <1>8, <3>1
      <3>3. g[k].ev = Len(evs)
        BY <1>3, <1>4, <2>3
      <3>4. QED
        BY <2>1, <3>2, <3>3
    <2>4. QED
      BY <1>6, <2>2, <2>3
  <1>11. g[1].ev = 1 /\ g[Len(g)].ev = Len(evs) /\ Len(g) # 0 /\ Len(g) <= MaxCalls
    BY <1>2, <1>3, <1>4, <1>8, BoundsAssumption
  <1>12. evs \in Seq(Nodes \cup {Null})
    BY DEF Stack
  <1>13. Len(g) = 0 <=> Len(evs) = 0
    BY <1>11
  <1>14. g \in Seq(FrameType) /\ Len(evs) <= MaxDispatches
    BY <1>2, <1>4
  <1>15. Stack(evs, g)
    BY <1>7, <1>9, <1>10, <1>11, <1>12, <1>13, <1>14 DEF Stack
  <1>16. QED
    BY <1>1, <1>15

(* The wrapper of a simple callback calls the next listener and leaves.     *)
LEMMA StackReplaces ==
  ASSUME NEW evs, NEW fs, Stack(evs, fs), Len(evs) # 0, NEW n \in Nodes, evs[Len(evs)] = n
  PROVE  Stack(evs, Append(SubSeq(fs, 1, Len(fs) - 1), [ev |-> Len(evs), node |-> n, called |-> FALSE]))
  <1>1. PICK f, g : /\ f = [ev |-> Len(evs), node |-> n, called |-> FALSE]
                    /\ g = Append(SubSeq(fs, 1, Len(fs) - 1), f)
    OBVIOUS
  <1>2. /\ Len(evs) \in Nat /\ Len(fs) \in Nat /\ Len(fs) # 0 /\ Len(evs) <= MaxDispatches
        /\ Len(evs) \in 1..Len(evs) /\ Len(fs) <= MaxCalls /\ Len(fs) \in 1..Len(fs)
    BY FrameTyped DEF Stack
  <1>3. f \in FrameType /\ f.ev = Len(evs) /\ f.node = n /\ ~f.called
    BY <1>1, <1>2, BoundsAssumption DEF FrameType
  <1>4. g \in Seq(FrameType) /\ Len(g) = Len(fs) /\ g[Len(fs)] = f /\ \A k \in 1..(Len(fs) - 1) : g[k] = fs[k]
    <2>1. PICK c : c = Len(fs) - 1 /\ c \in 0..Len(fs)
      <3>1. Len(fs) - 1 \in 0..Len(fs)
        BY <1>2
      <3>2. QED
        BY <3>1
    <2>2. fs \in Seq(FrameType)
      BY DEF Stack
    <2>3. PICK h : h = SubSeq(fs, 1, c)
      OBVIOUS
    <2>4. h \in Seq(FrameType) /\ Len(h) = c /\ \A k \in 1..c : h[k] = fs[k]
      BY <1>2, <2>1, <2>2, <2>3
    <2>5. QED
      BY <1>1, <1>2, <1>3, <2>1, <2>3, <2>4
  <1>5. \A k \in 1..Len(fs) : k = Len(fs) \/ (k \in 1..(Len(fs) - 1) /\ k < Len(fs))
    BY <1>2
  <1>6. fs[1].ev = 1 /\ fs[Len(fs)].ev = Len(evs)
    BY <1>2 DEF Stack
  <1>7. \A k \in 1..Len(fs) : g[k].ev = fs[k].ev
    BY <1>3, <1>4, <1>5, <1>6
  <1>8. ASSUME NEW k \in 1..Len(g) PROVE Waits(evs, g[k])
    <2>1. CASE k = Len(fs)
      BY <1>3, <1>4, <2>1, NodesAssumption DEF Waits
    <2>2. CASE k \in 1..(Len(fs) - 1)
      BY <1>4, <2>2 DEF Stack
    <2>3. QED
      BY <1>4, <1>5, <2>1, <2>2
  <1>9. ASSUME NEW k \in 1..(Len(g) - 1) PROVE g[k + 1].ev <= g[k].ev + 1
    <2>1. k \in 1..Len(fs) /\ k + 1 \in 1..Len(fs)
      BY <1>2, <1>4
    <2>2. fs[k + 1].ev <= fs[k].ev + 1
      BY <1>4 DEF Stack
    <2>3. QED
      BY <1>7, <2>1, <2>2
  <1>10. ASSUME NEW j \in 1..Len(g), NEW k \in 1..Len(g), j < k
         PROVE  g[j].ev <= g[k].ev /\ (g[j].ev = g[k].ev => g[j].called)
    <2>1. j \in 1..(Len(fs) - 1) /\ j \in 1..Len(fs) /\ k \in 1..Len(fs)
      BY <1>2, <1>4, <1>10
    <2>2. fs[j].ev <= fs[k].ev /\ (fs[j].ev = fs[k].ev => fs[j].called)
      BY <1>10, <2>1 DEF Stack
    <2>3. QED
      BY <1>4, <1>7, <2>1, <2>2
  <1>11. g[1].ev = 1 /\ g[Len(g)].ev = Len(evs) /\ Len(g) # 0 /\ Len(g) <= MaxCalls
    BY <1>2, <1>4, <1>6, <1>7
  <1>12. evs \in Seq(Nodes \cup {Null}) /\ g \in Seq(FrameType) /\ Len(evs) <= MaxDispatches
    BY <1>2, <1>4 DEF Stack
  <1>13. Len(g) = 0 <=> Len(evs) = 0
    BY <1>11
  <1>14. Stack(evs, g)
    BY <1>8, <1>9, <1>10, <1>11, <1>12, <1>13 DEF Stack
  <1>15. QED
    BY <1>1, <1>14

(* The wrapper of a frame that has called next() may be deleted.           *)
Forgets(fs, g) ==
  /\ g \in Seq(FrameType) /\ Len(g) = Len(fs)
  /\ \A k \in 1..Len(fs) : /\ g[k].ev = fs[k].ev /\ g[k].called = fs[k].called
                           /\ ~fs[k].called => g[k] = fs[k]

LEMMA StackForgets ==
  ASSUME NEW evs, NEW fs, Stack(evs, fs), NEW g, Forgets(fs, g)
  PROVE  Stack(evs, g)
  <1>1. Len(fs) \in Nat /\ g \in Seq(FrameType) /\ Len(g) = Len(fs)
    BY FrameTyped DEF Forgets
  <1>2. \A k \in 1..Len(fs) : /\ g[k].ev = fs[k].ev /\ g[k].called = fs[k].called
                              /\ ~fs[k].called => g[k] = fs[k]
    BY DEF Forgets
  <1>3. ASSUME NEW k \in 1..Len(g) PROVE Waits(evs, g[k])
    <2>1. Waits(evs, fs[k])
      BY <1>1 DEF Stack
    <2>2. QED
      BY <1>1, <1>2, <2>1 DEF Waits
  <1>4. Len(g) # 0 => g[1].ev = 1 /\ g[Len(g)].ev = Len(evs)
    <2>1. Len(g) # 0 => 1 \in 1..Len(fs) /\ Len(fs) \in 1..Len(fs)
      BY <1>1
    <2>2. QED
      BY <1>1, <1>2, <2>1 DEF Stack
  <1>5. ASSUME NEW k \in 1..(Len(g) - 1) PROVE g[k + 1].ev <= g[k].ev + 1
    <2>1. k \in 1..Len(fs) /\ k + 1 \in 1..Len(fs)
      BY <1>1
    <2>2. fs[k + 1].ev <= fs[k].ev + 1
      BY <1>1 DEF Stack
    <2>3. QED
      BY <1>2, <2>1, <2>2
  <1>6. ASSUME NEW j \in 1..Len(g), NEW k \in 1..Len(g), j < k
        PROVE  g[j].ev <= g[k].ev /\ (g[j].ev = g[k].ev => g[j].called)
    <2>1. fs[j].ev <= fs[k].ev /\ (fs[j].ev = fs[k].ev => fs[j].called)
      BY <1>1, <1>6 DEF Stack
    <2>2. QED
      BY <1>1, <1>2, <2>1
  <1>7. /\ evs \in Seq(Nodes \cup {Null}) /\ Len(evs) <= MaxDispatches /\ Len(g) <= MaxCalls
        /\ (Len(g) = 0 <=> Len(evs) = 0)
    BY <1>1 DEF Stack
  <1>8. QED
    BY <1>1, <1>3, <1>4, <1>5, <1>6, <1>7 DEF Stack

-----------------------------------------------------------------------------
(***************************************************************************)
(* The invariant: the list is sound, the calls follow the events, and no    *)
(* event is on a node that was deleted.                                    *)
(***************************************************************************)
OnLive(l, evs) == \A i \in 1..Len(evs) : evs[i] \in Live(l) \cup {Null}

IInv == Sound(list) /\ alive \in BOOLEAN /\ Stack(events, frames) /\ OnLive(list, events)

LEMMA InitIInv == Init => IInv
  <1> SUFFICES ASSUME Init PROVE IInv
    OBVIOUS
  <1>1. Stack(<<>>, <<>>)
    BY BoundsAssumption DEF Stack
  <1>2. QED
    BY <1>1, NewListSound DEF Init, IInv, OnLive

(* A step leaves the list l, the events evs and the calls fs, then what      *)
(* nothing holds is deleted.                                               *)
LEMMA BecomesIInv ==
  ASSUME NEW l, Sound(l), NEW evs, NEW fs, Stack(evs, fs), OnLive(l, evs),
         Becomes(l, evs, fs), alive' \in BOOLEAN
  PROVE  IInv'
  <1>1. PICK m : m = Collect(l, Held(evs))
    OBVIOUS
  <1>2. PICK g : g = [k \in DOMAIN fs |-> IF fs[k].node \in Unallocated(m) THEN [fs[k] EXCEPT !.node = Dangling]
                                          ELSE fs[k]]
    OBVIOUS
  <1>3. list' = m /\ events' = evs /\ frames' = g
    BY <1>1, <1>2 DEF Becomes
  <1>4. Sound(m) /\ Held(evs) \cap Live(l) \subseteq Live(m)
    BY <1>1, CollectSound
  <1>5. evs \in Seq(Nodes \cup {Null}) /\ fs \in Seq(FrameType)
    BY DEF Stack
  <1>6. \A i \in 1..Len(evs) : evs[i] \in Held(evs)
    BY <1>5 DEF Held, ToSet
  <1>7. OnLive(m, evs)
    BY <1>4, <1>6 DEF OnLive
  <1>8. Len(fs) \in Nat /\ DOMAIN fs = 1..Len(fs)
    BY <1>5
  <1>9. ASSUME NEW k \in 1..Len(fs)
        PROVE  /\ g[k] \in FrameType /\ g[k].ev = fs[k].ev /\ g[k].called = fs[k].called
               /\ ~fs[k].called => g[k] = fs[k]
    <2>1. fs[k] \in FrameType /\ fs[k].ev \in 1..Len(evs) /\ fs[k].node \in Nodes \cup {Dangling}
      BY FrameTyped
    <2>2. CASE fs[k].node \in Unallocated(m)
      <3>1. g[k] = [fs[k] EXCEPT !.node = Dangling]
        BY <1>2, <1>8, <2>2
      <3>2. g[k] \in FrameType /\ g[k].ev = fs[k].ev /\ g[k].called = fs[k].called
        BY <2>1, <3>1 DEF FrameType
      <3>3. fs[k].called
        <4>1. SUFFICES ASSUME ~fs[k].called PROVE FALSE
          OBVIOUS
        <4>2. evs[fs[k].ev] = fs[k].node
          BY <4>1 DEF Stack, Waits
        <4>3. fs[k].node \in Live(m) \cup {Null}
          BY <1>7, <2>1, <4>2 DEF OnLive
        <4>4. QED
          BY <2>2, <4>3, NodesAssumption DEF Live, Unallocated
      <3>4. QED
        BY <3>2, <3>3
    <2>3. CASE fs[k].node \notin Unallocated(m)
      BY <1>2, <1>8, <2>1, <2>3
    <2>4. QED
      BY <2>2, <2>3
  <1>10. g \in Seq(FrameType) /\ Len(g) = Len(fs)
    <2>1. DOMAIN g = 1..Len(fs) /\ \A k \in 1..Len(fs) : g[k] \in FrameType
      BY <1>2, <1>8, <1>9
    <2>2. g = [k \in 1..Len(fs) |-> g[k]]
      BY <1>2, <1>8
    <2>3. QED
      BY <1>8, <2>1, <2>2
  <1>11. Forgets(fs, g)
    BY <1>9, <1>10 DEF Forgets
  <1>12. Stack(evs, g)
    BY <1>11, StackForgets
  <1>13. QED
    BY <1>3, <1>4, <1>7, <1>12 DEF IInv

LEMMA EditsIInv ==
  ASSUME IInv, NEW l, Sound(l), Live(list) \subseteq Live(l), Becomes(l, events, frames), alive' \in BOOLEAN
  PROVE  IInv'
  <1>1. OnLive(l, events)
    BY DEF IInv, OnLive
  <1>2. Stack(events, frames)
    BY DEF IInv
  <1>3. QED
    BY <1>1, <1>2, BecomesIInv

LEMMA DispatchIInv ==
  ASSUME IInv, Dispatch
  PROVE  IInv'
  <1>1. PICK n, e, f : /\ n = list.first /\ e = Append(events, n)
                       /\ f = [ev |-> Len(events) + 1, node |-> n, called |-> FALSE]
    OBVIOUS
  <1>2. Sound(list) /\ alive \in BOOLEAN /\ Stack(events, frames) /\ OnLive(list, events)
    BY DEF IInv
  <1>3. n # Null /\ Len(events) < MaxDispatches /\ Enter(e, frames)
    BY <1>1 DEF Dispatch
  <1>4. n \in Live(list) /\ n \in Nodes
    BY <1>1, <1>2, <1>3, Ends DEF Live
  <1>5. Len(events) \in Nat /\ events \in Seq(Nodes \cup {Null})
    BY <1>2, FrameTyped DEF Stack
  <1>6. /\ Len(e) = Len(events) + 1 /\ Last(e) = n /\ e[Len(events) + 1] = n
        /\ \A i \in 1..Len(events) : e[i] = events[i]
    BY <1>1, <1>4, <1>5 DEF Last
  <1>7. Len(frames) < MaxCalls /\ Becomes(list, e, Append(frames, f)) /\ alive' = alive
    BY <1>1, <1>3, <1>6 DEF Enter
  <1>8. Stack(e, Append(frames, f))
    BY <1>1, <1>2, <1>3, <1>4, <1>7, StackDispatches
  <1>9. OnLive(list, e)
    <2>1. \A i \in 1..Len(e) : i \in 1..Len(events) \/ i = Len(events) + 1
      BY <1>5, <1>6
    <2>2. QED
      BY <1>2, <1>4, <1>6, <2>1 DEF OnLive
  <1>10. QED
    BY <1>2, <1>7, <1>8, <1>9, BecomesIInv

(* Event::next moves the last event to a listener that exists, or to the    *)
(* end.                                                                    *)
LEMMA MovedOn ==
  ASSUME IInv, Len(events) # 0, Last(events) # Null,
         NEW n, n = Inc(list, Last(events)), NEW e, e = Moved
  PROVE  /\ n \in Live(list) \cup {Null} /\ n \in Nodes \cup {Null}
         /\ e = [events EXCEPT ![Len(events)] = n] /\ Len(e) = Len(events)
         /\ Last(e) = n /\ e[Len(e)] = n /\ OnLive(list, e)
  <1>1. Sound(list) /\ Stack(events, frames) /\ OnLive(list, events)
    BY DEF IInv
  <1>2. Len(events) \in Nat /\ events \in Seq(Nodes \cup {Null}) /\ Len(events) \in 1..Len(events)
    BY <1>1, FrameTyped DEF Stack
  <1>3. Last(events) \in Live(list)
    BY <1>1, <1>2 DEF OnLive, Last
  <1>4. n \in Live(list) \cup {Null} /\ n \in Nodes \cup {Null}
    BY <1>1, <1>3, IncStays DEF Live
  <1>5. e = [events EXCEPT ![Len(events)] = n]
    BY DEF Moved, Last
  <1>6. Len(e) = Len(events) /\ e[Len(e)] = n /\ \A i \in 1..Len(events) : i # Len(events) => e[i] = events[i]
    BY <1>2, <1>4, <1>5
  <1>7. OnLive(list, e)
    BY <1>1, <1>4, <1>6 DEF OnLive
  <1>8. QED
    BY <1>4, <1>5, <1>6, <1>7 DEF Last

LEMMA CallNextIInv ==
  ASSUME IInv, CallNext
  PROVE  IInv'
  <1>1. PICK n, e, g : /\ n = Inc(list, Last(events)) /\ e = Moved
                       /\ g = [frames EXCEPT ![Len(frames)].called = TRUE]
    OBVIOUS
  <1>2. Sound(list) /\ alive \in BOOLEAN /\ Stack(events, frames)
    BY DEF IInv
  <1>3. frames # <<>> /\ Last(events) # Null /\ Enter(e, g)
    BY <1>1 DEF CallNext, Next_
  <1>4. Len(frames) # 0 /\ Len(events) # 0
    BY <1>2, <1>3 DEF Stack
  <1>5. /\ n \in Live(list) \cup {Null} /\ n \in Nodes \cup {Null}
        /\ e = [events EXCEPT ![Len(events)] = n] /\ Len(e) = Len(events)
        /\ Last(e) = n /\ e[Len(e)] = n /\ OnLive(list, e)
    BY <1>1, <1>3, <1>4, MovedOn
  <1>6. Stack(e, g) /\ g[Len(g)].called
    <2>1. LET h == [frames EXCEPT ![Len(frames)].called = TRUE]
          IN  /\ Stack([events EXCEPT ![Len(events)] = n], h)
              /\ h[Len(frames)].called /\ Len(h) = Len(frames)
      BY <1>2, <1>4, <1>5, StackMoves
    <2>2. QED
      BY <1>1, <1>5, <2>1
  <1>7. CASE n = Null
    <2>1. Becomes(list, e, g) /\ alive' = alive
      BY <1>3, <1>5, <1>7 DEF Enter
    <2>2. QED
      BY <1>2, <1>5, <1>6, <2>1, BecomesIInv
  <1>8. CASE n # Null
    <2>1. PICK h : h = Append(g, [ev |-> Len(e), node |-> n, called |-> FALSE])
      OBVIOUS
    <2>2. Len(g) < MaxCalls /\ Becomes(list, e, h) /\ alive' = alive
      BY <1>3, <1>5, <1>8, <2>1 DEF Enter
    <2>3. Stack(e, h)
      BY <1>4, <1>5, <1>6, <1>8, <2>1, <2>2, StackCalls
    <2>4. QED
      BY <1>2, <1>5, <2>2, <2>3, BecomesIInv
  <1>9. QED
    BY <1>7, <1>8

(* The calls above the k-th one end.                                       *)
LEMMA ReturnsIInv ==
  ASSUME IInv, NEW k \in 0..Len(frames), NEW e, e = SubSeq(events, 1, Kept(frames, k)),
         Becomes(list, e, SubSeq(frames, 1, k)), alive' = alive
  PROVE  IInv'
  <1>1. Sound(list) /\ alive \in BOOLEAN /\ Stack(events, frames) /\ OnLive(list, events)
    BY DEF IInv
  <1>2. /\ Kept(frames, k) \in 0..Len(events) /\ Stack(e, SubSeq(frames, 1, k))
        /\ \A i \in 1..Kept(frames, k) : e[i] = events[i]
    BY <1>1, StackReturns
  <1>3. Len(events) \in Nat /\ events \in Seq(Nodes \cup {Null})
    BY <1>1, FrameTyped DEF Stack
  <1>4. Len(e) = Kept(frames, k)
    BY <1>2, <1>3
  <1>5. OnLive(list, e)
    BY <1>1, <1>2, <1>3, <1>4 DEF OnLive
  <1>6. QED
    BY <1>1, <1>2, <1>5, BecomesIInv

LEMMA BelowIs ==
  ASSUME Stack(events, frames), NEW k \in 0..Len(frames)
  PROVE  Below(SubSeq(frames, 1, k)) = SubSeq(events, 1, Kept(frames, k))
  <1>1. Len(frames) \in Nat /\ frames \in Seq(FrameType) /\ Len(events) \in Nat /\ events \in Seq(Nodes \cup {Null})
    BY FrameTyped DEF Stack
  <1>2. PICK g : g = SubSeq(frames, 1, k)
    OBVIOUS
  <1>3. g \in Seq(FrameType) /\ Len(g) = k /\ \A i \in 1..k : g[i] = frames[i]
    BY <1>1, <1>2
  <1>4. CASE k = 0
    <2>1. g = <<>>
      BY <1>3, <1>4
    <2>2. SubSeq(events, 1, 0) = <<>>
      BY <1>1
    <2>3. QED
      BY <1>2, <1>4, <2>1, <2>2 DEF Below, Kept
  <1>5. CASE k # 0
    <2>1. g # <<>> /\ Last(g) = frames[k]
      BY <1>3, <1>5 DEF Last
    <2>2. QED
      BY <1>2, <1>5, <2>1 DEF Below, Kept
  <1>6. QED
    BY <1>4, <1>5

LEMMA UnwindIInv ==
  ASSUME IInv, NEW k \in 0..(MaxCalls - 1), Unwind(k)
  PROVE  IInv'
  <1>1. Stack(events, frames)
    BY DEF IInv
  <1>2. Len(frames) \in Nat
    BY <1>1, FrameTyped
  <1>3. k \in 0..Len(frames)
    BY <1>2, BoundsAssumption DEF Unwind
  <1>4. Below(SubSeq(frames, 1, k)) = SubSeq(events, 1, Kept(frames, k))
    BY <1>1, <1>3, BelowIs
  <1>5. PICK e : e = SubSeq(events, 1, Kept(frames, k))
    OBVIOUS
  <1>6. Becomes(list, e, SubSeq(frames, 1, k)) /\ alive' = alive
    BY <1>4, <1>5 DEF Unwind
  <1>7. QED
    BY <1>3, <1>5, <1>6, ReturnsIInv

LEMMA SimpleReturnsIInv ==
  ASSUME IInv, SimpleReturns
  PROVE  IInv'
  <1>1. Sound(list) /\ alive \in BOOLEAN /\ Stack(events, frames) /\ OnLive(list, events) /\ frames # <<>>
    BY DEF IInv, SimpleReturns
  <1>2. /\ Len(frames) \in Nat /\ frames \in Seq(FrameType) /\ Len(events) \in Nat
        /\ events \in Seq(Nodes \cup {Null}) /\ Len(frames) # 0 /\ Len(events) # 0
    BY <1>1, FrameTyped DEF Stack
  <1>3. PICK k : k = Len(frames) - 1
    OBVIOUS
  <1>4. k \in 0..Len(frames) /\ Front(frames) = SubSeq(frames, 1, k)
    BY <1>2, <1>3 DEF Front
  <1>5. Below(Front(frames)) = SubSeq(events, 1, Kept(frames, k))
    BY <1>1, <1>4, BelowIs
  <1>6. Kept(frames, k) \in 0..Len(events)
    BY <1>1, <1>4, StackReturns
  <1>7. Len(Below(Front(frames))) = Kept(frames, k)
    BY <1>2, <1>5, <1>6
  <1>8. PICK n, e : n = Inc(list, Last(events)) /\ e = Moved
    OBVIOUS
  <1>9. CASE n = Null /\ Kept(frames, k) < Len(events)
    <2>1. Becomes(list, Front(events), Front(frames)) /\ alive' = alive
      BY <1>7, <1>8, <1>9 DEF SimpleReturns
    <2>2. Kept(frames, k) = Len(events) - 1
      <3>1. CASE k = 0
        <4>1. Len(frames) = 1
          BY <1>2, <1>3, <3>1
        <4>2. frames[1].ev = 1 /\ frames[1].ev = Len(events)
          BY <1>1, <1>2, <4>1 DEF Stack
        <4>3. Kept(frames, k) = 0
          BY <3>1 DEF Kept
        <4>4. QED
          <5>1. Len(events) = 1
            BY <4>2
          <5>2. QED
            BY <4>3, <5>1
      <3>2. CASE k # 0
        <4>1. k \in 1..(Len(frames) - 1) /\ k + 1 = Len(frames) /\ k \in 1..Len(frames)
          BY <1>2, <1>3, <1>4, <3>2
        <4>2. frames[k + 1].ev <= frames[k].ev + 1 /\ frames[Len(frames)].ev = Len(events)
          BY <1>1, <1>2, <4>1 DEF Stack
        <4>3. frames[k].ev \in 1..Len(events)
          BY <1>1, <4>1, FrameTyped
        <4>4. Kept(frames, k) = frames[k].ev
          BY <3>2 DEF Kept
        <4>5. QED
          BY <1>2, <1>9, <4>1, <4>2, <4>3, <4>4
      <3>3. QED
        BY <3>1, <3>2
    <2>3. PICK f : f = SubSeq(events, 1, Kept(frames, k))
      OBVIOUS
    <2>4. Front(events) = f
      BY <2>2, <2>3 DEF Front
    <2>5. QED
      BY <1>4, <2>1, <2>3, <2>4, ReturnsIInv
  <1>10. CASE ~(n = Null /\ Kept(frames, k) < Len(events))
    <2>1. Last(events) # Null /\ Enter(e, Front(frames))
      BY <1>7, <1>8, <1>10 DEF SimpleReturns, Next_
    <2>2. /\ n \in Live(list) \cup {Null} /\ n \in Nodes \cup {Null}
          /\ e = [events EXCEPT ![Len(events)] = n] /\ Len(e) = Len(events)
          /\ Last(e) = n /\ e[Len(e)] = n /\ OnLive(list, e)
      BY <1>2, <1>8, <2>1, MovedOn
    <2>3. PICK g : g = [frames EXCEPT ![Len(frames)].called = TRUE]
      OBVIOUS
    <2>4. Stack(e, g) /\ Len(g) = Len(frames) /\ \A j \in 1..(Len(frames) - 1) : g[j] = frames[j]
      <3>1. LET h == [frames EXCEPT ![Len(frames)].called = TRUE]
            IN  /\ Stack([events EXCEPT ![Len(events)] = n], h)
                /\ h[Len(frames)].called /\ Len(h) = Len(frames) /\ \A j \in 1..(Len(frames) - 1) : h[j] = frames[j]
        BY <1>1, <1>2, <2>2, StackMoves
      <3>2. QED
        BY <2>2, <2>3, <3>1
    <2>5. g \in Seq(FrameType)
      BY <2>4 DEF Stack
    <2>6. SubSeq(g, 1, k) = Front(frames)
      BY <1>2, <1>3, <1>4, <2>4, <2>5
    <2>7. CASE n = Null
      <3>1. Becomes(list, e, Front(frames)) /\ alive' = alive
        BY <2>1, <2>2, <2>7 DEF Enter
      <3>2. Kept(frames, k) = Len(events)
        BY <1>2, <1>6, <1>10, <2>7
      <3>3. Kept(g, k) = Len(e)
        <4>1. k # 0
          BY <1>2, <3>2 DEF Kept
        <4>2. k \in 1..(Len(frames) - 1)
          BY <1>2, <1>3, <1>4, <4>1
        <4>3. g[k] = frames[k]
          BY <2>4, <4>2
        <4>4. QED
          BY <2>2, <3>2, <4>1, <4>3 DEF Kept
      <3>4. k \in 0..Len(g)
        BY <1>4, <2>4
      <3>5. Stack(SubSeq(e, 1, Kept(g, k)), SubSeq(g, 1, k))
        BY <2>4, <3>4, StackReturns
      <3>6. SubSeq(e, 1, Len(e)) = e
        <4>1. e \in Seq(Nodes \cup {Null})
          BY <2>4 DEF Stack
        <4>2. QED
          BY <4>1
      <3>7. Stack(e, Front(frames))
        BY <2>6, <3>3, <3>5, <3>6
      <3>8. QED
        BY <1>1, <2>2, <3>1, <3>7, BecomesIInv
    <2>8. CASE n # Null
      <3>1. PICK h : h = Append(Front(frames), [ev |-> Len(e), node |-> n, called |-> FALSE])
        OBVIOUS
      <3>2. Becomes(list, e, h) /\ alive' = alive
        BY <2>1, <2>2, <2>8, <3>1 DEF Enter
      <3>3. Len(g) - 1 = k
        BY <1>3, <2>4
      <3>4. Stack(e, Append(SubSeq(g, 1, Len(g) - 1), [ev |-> Len(e), node |-> n, called |-> FALSE]))
        BY <1>2, <2>2, <2>4, <2>8, StackReplaces
      <3>5. Stack(e, h)
        BY <2>6, <3>1, <3>3, <3>4
      <3>6. QED
        BY <1>1, <2>2, <3>2, <3>5, BecomesIInv
    <2>9. QED
      BY <2>7, <2>8
  <1>11. QED
    BY <1>9, <1>10

LEMMA NextIInv == IInv /\ [Next]_vars => IInv'
  <1> SUFFICES ASSUME IInv, [Next]_vars PROVE IInv'
    OBVIOUS
  <1>1. Sound(list) /\ alive \in BOOLEAN
    BY DEF IInv
  <1>2. ASSUME NEW c \in Values, AddBack(c) PROVE IInv'
    <2>1. PICK l : l = PushBack(list, c)
      OBVIOUS
    <2>2. Unallocated(list) # {} /\ Becomes(l, events, frames) /\ alive' = alive
      BY <1>2, <2>1 DEF AddBack, Edits
    <2>3. Sound(l) /\ Live(list) \subseteq Live(l)
      BY <1>1, <2>1, <2>2, PushBackSound
    <2>4. QED
      BY <1>1, <2>2, <2>3, EditsIInv
  <1>3. ASSUME NEW c \in Values, AddFront(c) PROVE IInv'
    <2>1. PICK l : l = PushFront(list, c)
      OBVIOUS
    <2>2. Unallocated(list) # {} /\ Becomes(l, events, frames) /\ alive' = alive
      BY <1>3, <2>1 DEF AddFront, Edits
    <2>3. Sound(l) /\ Live(list) \subseteq Live(l)
      BY <1>1, <2>1, <2>2, PushFrontSound
    <2>4. QED
      BY <1>1, <2>2, <2>3, EditsIInv
  <1>4. ASSUME NEW c \in Values, RemoveListener(c) PROVE IInv'
    <2>1. PICK s : s = Walk(list, list.last, Dec)
      OBVIOUS
    <2>2. PICK k \in 1..Len(s) : Edits(RemoveNode(list, s[k]))
      BY <1>4, <2>1 DEF RemoveListener
    <2>3. s[k] \in Nodes /\ list.node[s[k]].valid
      BY <1>1, <2>1, FoundIsListed
    <2>4. PICK l : l = RemoveNode(list, s[k])
      OBVIOUS
    <2>5. Sound(l) /\ Live(l) = Live(list)
      BY <1>1, <2>3, <2>4, RemoveNodeSound
    <2>6. Becomes(l, events, frames) /\ alive' = alive
      BY <2>2, <2>4 DEF Edits
    <2>7. QED
      BY <1>1, <2>5, <2>6, EditsIInv
  <1>5. ASSUME Becomes(Clear(list), events, frames), alive' \in BOOLEAN PROVE IInv'
    <2>1. PICK l : l = Clear(list)
      OBVIOUS
    <2>2. Sound(l) /\ Live(l) = Live(list)
      BY <1>1, <2>1, ClearSound
    <2>3. QED
      BY <1>5, <2>1, <2>2, EditsIInv
  <1>6. CASE RemoveAll
    BY <1>1, <1>5, <1>6 DEF RemoveAll, Edits
  <1>7. CASE Destroy
    BY <1>5, <1>7 DEF Destroy
  <1>8. CASE Renew
    BY <1>8 DEF Renew, IInv, OnLive
  <1>9. CASE Dispatch
    BY <1>9, DispatchIInv
  <1>10. CASE CallNext
    BY <1>10, CallNextIInv
  <1>11. CASE SimpleReturns
    BY <1>11, SimpleReturnsIInv
  <1>12. ASSUME NEW k \in 0..(MaxCalls - 1), Unwind(k) PROVE IInv'
    BY <1>12, UnwindIInv
  <1>13. CASE UNCHANGED vars
    BY <1>13 DEF vars, IInv, OnLive
  <1>14. QED
    BY <1>2, <1>3, <1>4, <1>6, <1>7, <1>8, <1>9, <1>10, <1>11, <1>12, <1>13 DEF Next

LEMMA SpecIInv == Spec => []IInv
  BY InitIInv, NextIInv, PTL DEF Spec

(* Whatever a listener does to the dispatcher, and whatever is dispatched   *)
(* inside it, its closure exists until it calls next().                    *)
THEOREM HeldUntilNextAlways == Spec => []HeldUntilNext
  <1>1. IInv => TypeOK
    <2> SUFFICES ASSUME IInv PROVE TypeOK
      OBVIOUS
    <2>1. Sound(list) /\ alive \in BOOLEAN /\ Stack(events, frames)
      BY DEF IInv
    <2>2. list \in ListType
      BY <2>1 DEF Sound
    <2>3. QED
      BY <2>1, <2>2 DEF TypeOK, Stack, FrameType
  <1>2. IInv => \A k \in DOMAIN frames :
          LET fr == frames[k] IN ~fr.called => fr.node # Dangling /\ events[fr.ev] = fr.node
    <2> SUFFICES ASSUME IInv PROVE \A k \in 1..Len(frames) : Waits(events, frames[k])
      <3>1. IInv => DOMAIN frames = 1..Len(frames)
        BY DEF IInv, Stack
      <3>2. QED
        BY <3>1 DEF Waits
    <2>1. QED
      BY DEF IInv, Stack
  <1>3. IInv => HeldUntilNext
    BY <1>1, <1>2 DEF HeldUntilNext
  <1>4. QED
    BY <1>3, SpecIInv, PTL

(* The list of listeners stays linked both ways and free of cycles, and no  *)
(* dispatch stands on a listener that was deleted.                         *)
THEOREM EventsOwn == Spec => [](LinkedBothWays(list) /\ NoReferenceCycle(list)
                                /\ \A i \in 1..Len(events) : events[i] # Null => list.node[events[i]].val # Null)
  <1>1. IInv => LinkedBothWays(list) /\ NoReferenceCycle(list)
    BY SoundLinked, SoundAcyclic DEF IInv
  <1>2. IInv => \A i \in 1..Len(events) : events[i] # Null => list.node[events[i]].val # Null
    BY DEF IInv, OnLive, Live
  <1>3. QED
    BY <1>1, <1>2, SpecIInv, PTL

-----------------------------------------------------------------------------
(***************************************************************************)
(* The dispatches implement CursorList: each has the listeners on its way   *)
(* over next ahead of it.                                                  *)
(***************************************************************************)
OnSlot(evs, e)  == IF e <= Len(evs) THEN evs[e] ELSE Null
AheadOf(l, c)   == IF c = Null THEN <<>> ELSE Way(l, c, "next")
Yet             == [e \in Slots |-> IF Stand[e] = Null THEN <<>> ELSE Walk(list, Inc(list, Stand[e]), Inc)]

LEMMA InstanceOperators ==
  /\ \A s, e : Cursors!RemoveFirst(s, e) = RemoveFirst(s, e)
  /\ \A s : Cursors!ToSet(s) = ToSet(s) /\ (Cursors!IsInjective(s) <=> IsInjective(s))
  <1>1. \A s, e : Cursors!RemoveFirst(s, e) = RemoveFirst(s, e)
    BY DEF Cursors!RemoveFirst, Cursors!RemoveAt, Cursors!SelectInSeq, Cursors!Min,
           RemoveFirst, RemoveAt, SelectInSeq, Min
  <1>2. \A s : Cursors!ToSet(s) = ToSet(s) /\ (Cursors!IsInjective(s) <=> IsInjective(s))
    BY DEF Cursors!ToSet, ToSet, Cursors!IsInjective, IsInjective
  <1>3. QED
    BY <1>1, <1>2

(* Over next no way strays, so that no dispatch is ever lost.              *)
LEMMA NeverLost ==
  ASSUME NEW l, Sound(l), NEW c \in Nodes
  PROVE  ~Strays(l, c, "next") /\ Way(l, c, "next") \in Seq(Nodes) /\ Way(l, c, "next") # Lost
  <1>1. "next" \in Links
    BY DEF Links
  <1>2. ~Strays(l, c, "next") /\ Way(l, c, "next") \in Seq(Nodes)
    BY <1>1, WayTyped
  <1>3. QED
    BY <1>2, LostAssumption

LEMMA StandIs ==
  /\ \A e \in Slots : Stand[e] = OnSlot(events, e) /\ Stand'[e] = OnSlot(events', e)
  /\ DOMAIN Stand = Slots /\ DOMAIN Stand' = Slots
  /\ IInv => \A e \in Slots : Stand[e] \in Live(list) \cup {Null} /\ Stand[e] \in Nodes \cup {Null}
  /\ IInv' => \A e \in Slots : Stand'[e] \in Live(list') \cup {Null} /\ Stand'[e] \in Nodes \cup {Null}
  <1>1. /\ \A e \in Slots : Stand[e] = OnSlot(events, e) /\ Stand'[e] = OnSlot(events', e)
        /\ DOMAIN Stand = Slots /\ DOMAIN Stand' = Slots
    BY DEF Stand, OnSlot
  <1>2. ASSUME NEW l, NEW evs, OnLive(l, evs), Len(evs) \in Nat, NEW e \in Slots
        PROVE  OnSlot(evs, e) \in Live(l) \cup {Null} /\ OnSlot(evs, e) \in Nodes \cup {Null}
    <2>1. CASE e <= Len(evs)
      <3>1. e \in 1..Len(evs)
        BY <1>2, <2>1 DEF Slots
      <3>2. QED
        BY <1>2, <2>1, <3>1 DEF OnLive, OnSlot, Live
    <2>2. CASE ~(e <= Len(evs))
      BY <2>2 DEF OnSlot
    <2>3. QED
      BY <2>1, <2>2
  <1>3. IInv => OnLive(list, events) /\ Len(events) \in Nat
    BY DEF IInv, Stack
  <1>4. IInv' => OnLive(list', events') /\ Len(events') \in Nat
    BY DEF IInv, Stack
  <1>5. QED
    BY <1>1, <1>2, <1>3, <1>4

LEMMA YetIs ==
  /\ DOMAIN Yet = Slots /\ DOMAIN Yet' = Slots
  /\ \A e \in Slots : Yet[e] = AheadOf(list, Stand[e]) /\ Yet'[e] = AheadOf(list', Stand'[e])
  /\ IInv => \A e \in Slots : Yet[e] # Lost
  <1>1. DOMAIN Yet = Slots /\ DOMAIN Yet' = Slots
    BY DEF Yet
  <1>2. ASSUME NEW e \in Slots PROVE Yet[e] = AheadOf(list, Stand[e])
    BY DEF Yet, AheadOf, Way
  <1>3. ASSUME NEW e \in Slots PROVE Yet'[e] = AheadOf(list', Stand'[e])
    BY DEF Yet, AheadOf, Way
  <1>4. ASSUME IInv, NEW e \in Slots PROVE Yet[e] # Lost
    <2>1. PICK l, c : l = list /\ c = Stand[e]
      OBVIOUS
    <2>2. Sound(l) /\ c \in Nodes \cup {Null}
      BY <1>4, <2>1, StandIs DEF IInv
    <2>3. <<>> # Lost
      <3>1. <<>> \in Seq(Nodes)
        OBVIOUS
      <3>2. QED
        BY <3>1, LostAssumption
    <2>4. AheadOf(l, c) # Lost
      BY <2>2, <2>3, NeverLost DEF AheadOf
    <2>5. QED
      BY <1>2, <2>1, <2>4
  <1>5. QED
    BY <1>1, <1>2, <1>3, <1>4

(* What the deletions after a step leave of it.                            *)
LEMMA BecomesWays ==
  ASSUME IInv', NEW m, Sound(m), NEW evs, NEW fs, Becomes(m, evs, fs)
  PROVE  /\ events' = evs /\ Listed(list') = Listed(m)
         /\ \A c \in Live(list') : c \in Nodes /\ c \in Live(m) /\ Way(list', c, "next") = Way(m, c, "next")
  <1>1. PICK H : H = Held(evs)
    OBVIOUS
  <1>2. PICK d : d = Collect(m, H)
    OBVIOUS
  <1>3. list' = d /\ events' = evs
    BY <1>1, <1>2 DEF Becomes
  <1>4. /\ Sound(d) /\ Listed(d) = Listed(m)
        /\ \A c \in Live(d) : c \in Live(m)
        /\ \A c \in Live(d), link \in Links : HasAhead(m, d, c, link, Way(m, c, link))
    BY <1>2, CollectWays
  <1>5. ASSUME NEW c \in Live(d) PROVE c \in Nodes /\ Way(d, c, "next") = Way(m, c, "next")
    <2>1. c \in Nodes
      BY DEF Live
    <2>2. ~Strays(d, c, "next")
      BY <1>4, <2>1, NeverLost
    <2>3. HasAhead(m, d, c, "next", Way(m, c, "next"))
      BY <1>4 DEF Links
    <2>4. QED
      BY <2>1, <2>2, <2>3 DEF HasAhead
  <1>6. QED
    BY <1>3, <1>4, <1>5

(* A listener edits the list while the dispatches stay where they are.     *)
LEMMA EditWays ==
  ASSUME IInv, IInv', NEW m, Sound(m), Live(list) \subseteq Live(m), Becomes(m, events, frames)
  PROVE  /\ Stand' = Stand /\ Listed(list') = Listed(m)
         /\ \A e \in Slots : Stand[e] # Null =>
              /\ Stand[e] \in Nodes /\ Stand[e] \in Live(list)
              /\ Yet'[e] = Way(m, Stand[e], "next")
              /\ Yet[e] = Way(list, Stand[e], "next")
         /\ \A e \in Slots : Stand[e] = Null => Yet'[e] = <<>> /\ Yet[e] = <<>>
  <1>1. /\ events' = events /\ Listed(list') = Listed(m)
        /\ \A c \in Live(list') : Way(list', c, "next") = Way(m, c, "next")
    BY BecomesWays
  <1>2. Stand' = Stand
    BY <1>1 DEF Stand
  <1>3. ASSUME NEW e \in Slots, Stand[e] # Null
        PROVE  Stand[e] \in Nodes /\ Stand[e] \in Live(list) /\ Stand[e] \in Live(list')
    BY <1>2, <1>3, StandIs
  <1>4. QED
    BY <1>1, <1>2, <1>3, YetIs DEF AheadOf

LEMMA AddBackImplements ==
  ASSUME IInv, IInv', NEW v \in Values, AddBack(v)
  PROVE  \E e \in Nodes : Cursors!InsertLast(e)
  <1>1. PICK l, m, n : l = list /\ m = PushBack(list, v) /\ n = Allocate(list)
    OBVIOUS
  <1>2. Sound(l) /\ Unallocated(l) # {} /\ Becomes(m, events, frames)
    BY <1>1 DEF AddBack, Edits, IInv
  <1>3. n \in Nodes \ Live(l) /\ AddsLast(l, m, n, v)
    BY <1>1, <1>2, FreshNode, PushBackAdds
  <1>4. Sound(m) /\ Live(l) \subseteq Live(m)
    BY <1>2, <1>3, AddsLastSound
  <1>5. Listed(m) = Append(Listed(l), n) /\ \A c \in Live(l) : MayMeet(l, m, c, "next", n)
    BY <1>2, <1>3, AddsLastWays
  <1>6. n \notin ToSet(Listed(l))
    BY <1>2, <1>3, ListedElements DEF Sound, Intact
  <1>7. /\ Stand' = Stand /\ Listed(list') = Listed(m)
        /\ \A e \in Slots : Stand[e] # Null =>
             /\ Stand[e] \in Nodes /\ Stand[e] \in Live(l)
             /\ Yet'[e] = Way(m, Stand[e], "next")
             /\ Yet[e] = Way(l, Stand[e], "next")
        /\ \A e \in Slots : Stand[e] = Null => Yet'[e] = <<>> /\ Yet[e] = <<>>
    BY <1>1, <1>2, <1>4, EditWays
  <1>8. ASSUME NEW e \in Slots
        PROVE  \/ Stand[e] # Null /\ Yet[e] # Lost /\ Yet'[e] = Append(Yet[e], n)
               \/ Stand[e] \notin ToSet(Listed(l)) /\ Yet'[e] = Yet[e]
    <2>1. CASE Stand[e] = Null
      <3>1. Yet'[e] = Yet[e]
        BY <1>7, <2>1
      <3>2. Stand[e] \notin ToSet(Listed(l))
        BY <1>2, <2>1, ListedElements, NodesAssumption
      <3>3. QED
        BY <3>1, <3>2
    <2>2. CASE Stand[e] # Null
      <3>1. PICK c : c = Stand[e]
        OBVIOUS
      <3>2. c \in Nodes /\ c \in Live(l)
        BY <1>7, <2>2, <3>1
      <3>3. ~Strays(m, c, "next") /\ MayMeet(l, m, c, "next", n)
        BY <1>4, <1>5, <3>2, NeverLost
      <3>4. CASE Way(m, c, "next") = Append(Way(l, c, "next"), n)
        <4>1. Yet'[e] = Append(Yet[e], n)
          BY <1>7, <2>2, <3>1, <3>4
        <4>2. QED
          BY <2>2, <4>1, YetIs
      <3>5. CASE ~l.node[c].valid /\ Way(m, c, "next") = Way(l, c, "next")
        <4>1. Yet'[e] = Yet[e]
          BY <1>7, <2>2, <3>1, <3>5
        <4>2. c \notin ToSet(Listed(l))
          BY <1>2, <3>5, ListedElements
        <4>3. QED
          BY <3>1, <4>1, <4>2
      <3>6. QED
        BY <3>3, <3>4, <3>5 DEF MayMeet
    <2>3. QED
      BY <2>1, <2>2
  <1>9. Cursors!InsertLast(n)
    <2>1. Listed(list)' = Append(Listed(list), n)
      BY <1>1, <1>5, <1>7
    <2>2. n \notin Cursors!ToSet(Listed(list))
      BY <1>1, <1>6, InstanceOperators
    <2>3. \A e \in Slots : \/ Stand[e] # Null /\ Yet[e] # Lost /\ Yet'[e] = Append(Yet[e], n)
                           \/ Stand[e] \notin Cursors!ToSet(Listed(list)) /\ Yet'[e] = Yet[e]
      BY <1>1, <1>8, InstanceOperators
    <2>4. QED
      BY <1>7, <2>1, <2>2, <2>3, YetIs DEF Cursors!InsertLast, Cursors!Meets, Cursors!AllAhead, Cursors!Ahead, Yet
  <1>10. QED
    BY <1>3, <1>9

LEMMA AddFrontImplements ==
  ASSUME IInv, IInv', NEW v \in Values, AddFront(v)
  PROVE  \E e \in Nodes : Cursors!InsertFirst(e)
  <1>1. PICK l, m, n : l = list /\ m = PushFront(list, v) /\ n = Allocate(list)
    OBVIOUS
  <1>2. Sound(l) /\ Unallocated(l) # {} /\ Becomes(m, events, frames)
    BY <1>1 DEF AddFront, Edits, IInv
  <1>3. n \in Nodes \ Live(l) /\ AddsFirst(l, m, n, v)
    BY <1>1, <1>2, FreshNode, PushFrontAdds
  <1>4. Sound(m) /\ Live(l) \subseteq Live(m)
    BY <1>2, <1>3, AddsFirstSound
  <1>5. Listed(m) = <<n>> \o Listed(l) /\ \A c \in Live(l) : HasAhead(l, m, c, "next", Way(l, c, "next"))
    BY <1>2, <1>3, AddsFirstWays
  <1>6. n \notin ToSet(Listed(l))
    BY <1>2, <1>3, ListedElements DEF Sound, Intact
  <1>7. /\ Stand' = Stand /\ Listed(list') = Listed(m)
        /\ \A e \in Slots : Stand[e] # Null =>
             /\ Stand[e] \in Nodes /\ Stand[e] \in Live(l)
             /\ Yet'[e] = Way(m, Stand[e], "next")
             /\ Yet[e] = Way(l, Stand[e], "next")
        /\ \A e \in Slots : Stand[e] = Null => Yet'[e] = <<>> /\ Yet[e] = <<>>
    BY <1>1, <1>2, <1>4, EditWays
  <1>8. ASSUME NEW e \in Slots PROVE Yet'[e] = Yet[e]
    <2>1. CASE Stand[e] = Null
      BY <1>7, <2>1
    <2>2. CASE Stand[e] # Null
      <3>1. ~Strays(m, Stand[e], "next") /\ HasAhead(l, m, Stand[e], "next", Way(l, Stand[e], "next"))
        BY <1>4, <1>5, <1>7, <2>2, NeverLost
      <3>2. Yet'[e] = Yet[e]
        BY <1>7, <2>2, <3>1 DEF HasAhead
      <3>3. QED
        BY <3>2
    <2>3. QED
      BY <2>1, <2>2
  <1>9. Cursors!InsertFirst(n)
    <2>1. Listed(list)' = <<n>> \o Listed(list)
      BY <1>1, <1>5, <1>7
    <2>2. n \notin Cursors!ToSet(Listed(list))
      BY <1>1, <1>6, InstanceOperators
    <2>3. QED
      BY <1>7, <1>8, <2>1, <2>2, YetIs DEF Cursors!InsertFirst, Cursors!Meets, Cursors!AllAhead, Cursors!Ahead, Yet
  <1>10. QED
    BY <1>3, <1>9

LEMMA RemoveImplements ==
  ASSUME IInv, IInv', NEW v \in Values, RemoveListener(v)
  PROVE  \E e \in Cursors!ToSet(Listed(list)) : Cursors!TakeOut(e)
  <1>1. PICK l, s : l = list /\ s = Walk(list, list.last, Dec)
    OBVIOUS
  <1>2. PICK k \in 1..Len(s) : Edits(RemoveNode(l, s[k]))
    BY <1>1 DEF RemoveListener
  <1>3. PICK n, m : n = s[k] /\ m = RemoveNode(l, n)
    OBVIOUS
  <1>4. Sound(l) /\ Becomes(m, events, frames)
    BY <1>1, <1>2, <1>3 DEF Edits, IInv
  <1>5. n \in Nodes /\ l.node[n].valid
    BY <1>1, <1>3, <1>4, FoundIsListed
  <1>6. TakesOut(l, m, n)
    BY <1>3, <1>4, <1>5, RemoveNodeTakesOut
  <1>7. Sound(m) /\ Live(m) = Live(l)
    BY <1>4, <1>5, <1>6, TakesOutSound
  <1>8. /\ Listed(m) = RemoveFirst(Listed(l), n)
        /\ \A c \in Live(l), link \in Links : HasAhead(l, m, c, link, RemoveFirst(Way(l, c, link), n))
    BY <1>4, <1>5, <1>6, TakesOutWays
  <1>9. /\ Stand' = Stand /\ Listed(list') = Listed(m)
        /\ \A e \in Slots : Stand[e] # Null =>
             /\ Stand[e] \in Nodes /\ Stand[e] \in Live(l)
             /\ Yet'[e] = Way(m, Stand[e], "next")
             /\ Yet[e] = Way(l, Stand[e], "next")
        /\ \A e \in Slots : Stand[e] = Null => Yet'[e] = <<>> /\ Yet[e] = <<>>
    BY <1>1, <1>4, <1>7, EditWays
  <1>10. ASSUME NEW e \in Slots PROVE Yet'[e] = RemoveFirst(Yet[e], n)
    <2>1. CASE Stand[e] = Null
      <3>1. PICK w : w = <<>>
        OBVIOUS
      <3>2. w \in Seq(Nodes) /\ \A j \in 1..Len(w) : w[j] # n
        BY <3>1
      <3>3. RemoveFirst(w, n) = w
        BY <3>2, RemoveFirstIs
      <3>4. Yet'[e] = RemoveFirst(Yet[e], n)
        BY <1>9, <2>1, <3>1, <3>3
      <3>5. QED
        BY <3>4
    <2>2. CASE Stand[e] # Null
      <3>1. ~Strays(m, Stand[e], "next") /\ HasAhead(l, m, Stand[e], "next", RemoveFirst(Way(l, Stand[e], "next"), n))
        BY <1>7, <1>8, <1>9, <2>2, NeverLost DEF Links
      <3>2. Yet'[e] = RemoveFirst(Yet[e], n)
        BY <1>9, <2>2, <3>1 DEF HasAhead
      <3>3. QED
        BY <3>2
    <2>3. QED
      BY <2>1, <2>2
  <1>11. n \in Cursors!ToSet(Listed(list))
    BY <1>1, <1>4, <1>5, ListedElements, InstanceOperators
  <1>12. Cursors!TakeOut(n)
    <2>1. Listed(list)' = Cursors!RemoveFirst(Listed(list), n)
      BY <1>1, <1>8, <1>9, InstanceOperators
    <2>2. \A e \in Slots : Yet'[e] = Cursors!RemoveFirst(Yet[e], n)
      <3>1. ASSUME NEW e \in Slots PROVE Yet'[e] = Cursors!RemoveFirst(Yet[e], n)
        BY <1>10, InstanceOperators
      <3>2. QED
        BY <3>1
    <2>3. QED
      BY <1>9, <2>1, <2>2, YetIs DEF Cursors!TakeOut, Cursors!Ahead, Yet
  <1>13. QED
    BY <1>11, <1>12

(* remove_all(), and the destructor.                                       *)
LEMMA ClearImplements ==
  ASSUME IInv, IInv', Becomes(Clear(list), events, frames)
  PROVE  Cursors!Renew
  <1>1. PICK l, m : l = list /\ m = Clear(list)
    OBVIOUS
  <1>2. Sound(l) /\ Becomes(m, events, frames)
    BY <1>1 DEF IInv
  <1>3. Empties(l, m)
    BY <1>1, <1>2, ClearEmpties
  <1>4. Sound(m) /\ Live(m) = Live(l)
    BY <1>2, <1>3, EmptiesSound
  <1>5. Listed(m) = <<>> /\ \A c \in Live(l), link \in Links : HasAhead(l, m, c, link, <<>>)
    BY <1>2, <1>3, EmptiesWays
  <1>6. /\ Stand' = Stand /\ Listed(list') = Listed(m)
        /\ \A e \in Slots : Stand[e] # Null =>
             /\ Stand[e] \in Nodes /\ Stand[e] \in Live(l)
             /\ Yet'[e] = Way(m, Stand[e], "next")
        /\ \A e \in Slots : Stand[e] = Null => Yet'[e] = <<>>
    BY <1>1, <1>2, <1>4, EditWays
  <1>7. ASSUME NEW e \in Slots PROVE Yet'[e] = <<>>
    <2>1. CASE Stand[e] = Null
      BY <1>6, <2>1
    <2>2. CASE Stand[e] # Null
      <3>1. ~Strays(m, Stand[e], "next") /\ HasAhead(l, m, Stand[e], "next", <<>>)
        BY <1>4, <1>5, <1>6, <2>2, NeverLost DEF Links
      <3>2. Yet'[e] = <<>>
        BY <1>6, <2>2, <3>1 DEF HasAhead
      <3>3. QED
        BY <3>2
    <2>3. QED
      BY <2>1, <2>2
  <1>8. Cursors!ToSet(Listed(list)') \subseteq Nodes /\ Cursors!IsInjective(Listed(list)')
    <2>1. (\A n : n \in ToSet(Listed(m)) => n \in Nodes) /\ IsInjective(Listed(m))
      BY <1>4, ListedElements
    <2>2. QED
      BY <1>6, <2>1, InstanceOperators
  <1>9. QED
    BY <1>6, <1>7, <1>8, YetIs DEF Cursors!Renew, Cursors!Ahead, Yet

(* The dispatch of slot i moves to the k-th listener of the list.          *)
LEMMA StandStep ==
  ASSUME IInv, IInv', NEW evs, NEW fs, Becomes(list, evs, fs), NEW i \in Slots,
         NEW u, u = Listed(list), NEW k \in 1..(Len(u) + 1), NEW w, w = From(u, k),
         Stand' = [Stand EXCEPT ![i] = At(u, k)]
  PROVE  Cursors!Stand(i, w)
  <1>1. PICK l, d : l = list /\ d = list'
    OBVIOUS
  <1>2. Sound(l) /\ Sound(d) /\ Becomes(l, evs, fs)
    BY <1>1 DEF IInv
  <1>3. Listed(d) = Listed(l) /\ \A c \in Live(d) : c \in Nodes /\ Way(d, c, "next") = Way(l, c, "next")
    BY <1>1, <1>2, BecomesWays
  <1>4. u = Line(Listed(d), "next") /\ "next" \in Links
    BY <1>1, <1>3, LineIs DEF Links
  <1>5. /\ u \in Seq(Nodes) /\ Len(u) \in Nat
        /\ \A n \in 1..Len(u) : u[n] \in Nodes /\ Way(d, u[n], "next") = From(u, n + 1)
    BY <1>2, <1>4, WayOfElement
  <1>6. /\ w = <<>> <=> k = Len(u) + 1
        /\ k # Len(u) + 1 => k \in 1..Len(u) /\ Head(w) = u[k] /\ Tail(w) = From(u, k + 1)
    BY <1>5, FromSplits
  <1>7. Cursors!FirstOf(w) = At(u, k)
    BY <1>5, <1>6 DEF At, Cursors!FirstOf
  <1>8. Stand'[i] = At(u, k) /\ \A e \in Slots \ {i} : Stand'[e] = Stand[e]
    BY StandIs
  <1>9. Yet'[i] = Cursors!RestOf(w)
    <2>1. Yet'[i] = AheadOf(d, At(u, k))
      BY <1>1, <1>8, YetIs
    <2>2. CASE k = Len(u) + 1
      <3>1. At(u, k) = Null /\ w = <<>>
        BY <1>5, <1>6, <2>2 DEF At
      <3>2. QED
        BY <2>1, <3>1 DEF AheadOf, Cursors!RestOf
    <2>3. CASE k # Len(u) + 1
      <3>1. k \in 1..Len(u) /\ w # <<>> /\ Tail(w) = From(u, k + 1)
        BY <1>6, <2>3
      <3>2. At(u, k) = u[k] /\ u[k] # Null /\ Way(d, u[k], "next") = Tail(w)
        BY <1>5, <3>1, NodesAssumption DEF At
      <3>3. QED
        BY <2>1, <3>1, <3>2 DEF AheadOf, Cursors!RestOf
    <2>4. QED
      BY <2>2, <2>3
  <1>10. \A e \in Slots \ {i} : Yet'[e] = Yet[e]
    <2>1. ASSUME NEW e \in Slots \ {i} PROVE Yet'[e] = Yet[e]
      <3>1. PICK c : c = Stand[e]
        OBVIOUS
      <3>2. Yet[e] = AheadOf(l, c) /\ Yet'[e] = AheadOf(d, c) /\ c \in Live(d) \cup {Null}
        BY <1>1, <1>8, <3>1, YetIs, StandIs
      <3>3. QED
        BY <1>3, <3>2 DEF AheadOf
    <2>2. QED
      BY <2>1
  <1>11. Listed(list)' = Listed(list)
    BY <1>1, <1>3
  <1>12. \A e \in Slots : Yet[e] # Lost
    BY YetIs
  <1>13. Stand' = [Stand EXCEPT ![i] = Cursors!FirstOf(w)]
    BY <1>7
  <1>14. QED
    BY <1>9, <1>10, <1>11, <1>12, <1>13, YetIs DEF Cursors!Stand, Cursors!AllAhead, Cursors!Ahead, Yet

(* operator(): a dispatch begins at the first listener.                    *)
LEMMA DispatchImplements ==
  ASSUME IInv, IInv', Dispatch
  PROVE  \E i \in Slots : Cursors!Begin(i)
  <1>1. PICK l, u, e : l = list /\ u = Listed(list) /\ e = Append(events, list.first)
    OBVIOUS
  <1>2. Sound(l) /\ l.first # Null /\ Len(events) < MaxDispatches /\ Enter(e, frames)
    BY <1>1 DEF Dispatch, IInv
  <1>3. PICK fs : Becomes(l, e, fs)
    BY <1>1, <1>2 DEF Enter
  <1>4. events \in Seq(Nodes \cup {Null}) /\ Len(events) \in Nat /\ l.first \in Nodes
    BY <1>1, <1>2, Ends DEF IInv, Stack
  <1>5. PICK i : i = Len(events) + 1
    OBVIOUS
  <1>6. i \in Slots /\ events' = e
    BY <1>2, <1>3, <1>4, <1>5, BoundsAssumption DEF Slots, Becomes
  <1>7. u = Line(Listed(l), "next") /\ "next" \in Links
    BY <1>1, LineIs DEF Links
  <1>8. u \in Seq(Nodes) /\ Len(u) \in Nat /\ l.first = At(u, 1)
    BY <1>2, <1>7, WayOfElement
  <1>9. Stand' = [Stand EXCEPT ![i] = At(u, 1)]
    <2>1. Len(e) = Len(events) + 1 /\ e[i] = At(u, 1) /\ \A j \in 1..Len(events) : e[j] = events[j]
      BY <1>1, <1>4, <1>5, <1>8
    <2>2. \A j \in Slots : OnSlot(e, j) = IF j = i THEN At(u, 1) ELSE OnSlot(events, j)
      BY <1>4, <1>5, <2>1 DEF OnSlot, Slots
    <2>3. Stand = [j \in Slots |-> OnSlot(events, j)] /\ Stand' = [j \in Slots |-> OnSlot(e, j)]
      BY <1>6 DEF Stand, OnSlot
    <2>4. QED
      BY <1>6, <2>2, <2>3
  <1>10. PICK w : w = From(u, 1)
    OBVIOUS
  <1>11. 1 \in 1..(Len(u) + 1)
    BY <1>8
  <1>12. w = u
    BY <1>8, <1>10, <1>11, FromSplits
  <1>13. Cursors!Stand(i, w)
    BY <1>1, <1>3, <1>6, <1>9, <1>10, <1>11, StandStep
  <1>14. Cursors!Begin(i)
    BY <1>1, <1>6, <1>12, <1>13 DEF Cursors!Begin, Cursors!Stand
  <1>15. QED
    BY <1>6, <1>14

(* Event::next.                                                            *)
LEMMA EventNextImplements ==
  ASSUME IInv, IInv', Len(events) # 0, NEW fs, Next_(fs)
  PROVE  \E i \in Slots : Cursors!Step(i)
  <1>1. PICK l, u, e, i : l = list /\ u = Listed(list) /\ e = Moved /\ i = Len(events)
    OBVIOUS
  <1>2. Sound(l) /\ Last(events) # Null /\ Enter(e, fs)
    BY <1>1 DEF Next_, IInv
  <1>3. PICK gs : Becomes(l, e, gs)
    BY <1>1, <1>2 DEF Enter
  <1>4. events \in Seq(Nodes \cup {Null}) /\ Len(events) \in Nat /\ Len(events) <= MaxDispatches
    BY DEF IInv, Stack
  <1>5. i \in Slots /\ i \in 1..Len(events) /\ events' = e
    BY <1>1, <1>3, <1>4, BoundsAssumption DEF Slots, Becomes
  <1>6. PICK c : c = events[i]
    OBVIOUS
  <1>7. c = Last(events) /\ c \in Nodes /\ c # Null
    BY <1>1, <1>2, <1>4, <1>5, <1>6 DEF Last
  <1>8. Stand[i] = c
    BY <1>5, <1>6, StandIs DEF OnSlot
  <1>9. u = Line(Listed(l), "next") /\ "next" \in Links
    BY <1>1, LineIs DEF Links
  <1>10. ~Strays(l, c, "next")
    BY <1>2, <1>7, NeverLost
  <1>11. PICK k \in 1..(Len(u) + 1) : MovesTo(l, c, "next") = At(u, k) /\ Way(l, c, "next") = From(u, k)
    BY <1>2, <1>7, <1>9, <1>10, WayOfElement
  <1>12. Inc(l, c) = At(u, k)
    BY <1>11, IncDecMove
  <1>13. e = [events EXCEPT ![i] = At(u, k)]
    BY <1>1, <1>6, <1>12 DEF Moved
  <1>14. Stand' = [Stand EXCEPT ![i] = At(u, k)]
    <2>1. Len(e) = Len(events) /\ e[i] = At(u, k) /\ \A j \in 1..Len(events) : j # i => e[j] = events[j]
      BY <1>4, <1>5, <1>13
    <2>2. \A j \in Slots : OnSlot(e, j) = IF j = i THEN At(u, k) ELSE OnSlot(events, j)
      BY <1>4, <1>5, <2>1 DEF OnSlot, Slots
    <2>3. Stand = [j \in Slots |-> OnSlot(events, j)] /\ Stand' = [j \in Slots |-> OnSlot(e, j)]
      BY <1>5 DEF Stand, OnSlot
    <2>4. QED
      BY <1>5, <2>2, <2>3
  <1>15. PICK w : w = From(u, k)
    OBVIOUS
  <1>16. Cursors!Stand(i, w)
    BY <1>1, <1>3, <1>5, <1>14, <1>15, StandStep
  <1>17. Yet[i] = w /\ Yet[i] # Lost
    BY <1>1, <1>5, <1>7, <1>8, <1>11, <1>15, YetIs DEF AheadOf
  <1>18. Cursors!Step(i)
    BY <1>7, <1>8, <1>16, <1>17 DEF Cursors!Step, Cursors!Stand, Yet
  <1>19. QED
    BY <1>5, <1>18

(* The dispatches above the n-th end.                                      *)
LEMMA LeaveStep ==
  ASSUME IInv, IInv', NEW n \in 0..Len(events), NEW evs, evs = SubSeq(events, 1, n), NEW fs, Becomes(list, evs, fs)
  PROVE  \E I \in SUBSET Slots : Cursors!Leave(I)
  <1>1. PICK l, d, I : l = list /\ d = list' /\ I = {i \in Slots : n < i}
    OBVIOUS
  <1>2. Sound(l) /\ Becomes(l, evs, fs) /\ I \subseteq Slots
    BY <1>1 DEF IInv
  <1>3. /\ events' = evs /\ Listed(d) = Listed(l)
        /\ \A c \in Live(d) : Way(d, c, "next") = Way(l, c, "next")
    BY <1>1, <1>2, BecomesWays
  <1>4. events \in Seq(Nodes \cup {Null}) /\ Len(events) \in Nat
    BY DEF IInv, Stack
  <1>5. Len(evs) = n /\ \A j \in 1..n : evs[j] = events[j]
    BY <1>4
  <1>6. \A i \in Slots : Stand'[i] = IF i \in I THEN Null ELSE Stand[i]
    BY <1>1, <1>3, <1>4, <1>5, StandIs DEF OnSlot, Slots
  <1>7. Stand' = [i \in DOMAIN Stand |-> IF i \in I THEN Null ELSE Stand[i]]
    <2>1. Stand' = [i \in Slots |-> Stand'[i]] /\ DOMAIN Stand = Slots
      BY DEF Stand
    <2>2. QED
      BY <1>6, <2>1
  <1>8. \A i \in I : Yet'[i] = <<>>
    BY <1>2, <1>6, YetIs DEF AheadOf
  <1>9. \A i \in Slots \ I : Yet'[i] = Yet[i]
    <2>1. ASSUME NEW i \in Slots \ I PROVE Yet'[i] = Yet[i]
      <3>1. PICK c : c = Stand[i]
        OBVIOUS
      <3>2. Yet[i] = AheadOf(l, c) /\ Yet'[i] = AheadOf(d, c) /\ c \in Live(d) \cup {Null}
        BY <1>1, <1>6, <3>1, YetIs, StandIs
      <3>3. QED
        BY <1>3, <3>2 DEF AheadOf
    <2>2. QED
      BY <2>1
  <1>10. Listed(list)' = Listed(list)
    BY <1>1, <1>3
  <1>11. \A i \in Slots : Yet[i] # Lost
    BY YetIs
  <1>12. Cursors!Leave(I)
    BY <1>7, <1>8, <1>9, <1>10, <1>11, YetIs DEF Cursors!Leave, Cursors!AllAhead, Cursors!Ahead, Yet
  <1>13. QED
    BY <1>2, <1>12

LEMMA SimpleReturnsImplements ==
  ASSUME IInv, IInv', SimpleReturns
  PROVE  Cursors!Next
  <1>1. events \in Seq(Nodes \cup {Null}) /\ Len(events) \in Nat /\ Len(events) # 0
    BY FrameTyped DEF IInv, Stack, SimpleReturns
  <1>2. CASE Becomes(list, Front(events), Front(frames))
    <2>1. PICK n \in 0..Len(events) : n = Len(events) - 1
      <3>1. Len(events) - 1 \in 0..Len(events)
        BY <1>1
      <3>2. QED
        BY <3>1
    <2>2. PICK evs, fs : evs = SubSeq(events, 1, n) /\ fs = Front(frames)
      OBVIOUS
    <2>3. Becomes(list, evs, fs)
      BY <1>2, <2>1, <2>2 DEF Front
    <2>4. \E I \in SUBSET Slots : Cursors!Leave(I)
      BY <2>2, <2>3, LeaveStep
    <2>5. QED
      BY <2>4 DEF Cursors!Next
  <1>3. CASE Next_(Front(frames))
    <2>1. PICK fs : fs = Front(frames)
      OBVIOUS
    <2>2. \E i \in Slots : Cursors!Step(i)
      BY <1>1, <1>3, <2>1, EventNextImplements
    <2>3. QED
      BY <2>2 DEF Cursors!Next
  <1>4. QED
    BY <1>2, <1>3 DEF SimpleReturns

LEMMA UnwindImplements ==
  ASSUME IInv, IInv', NEW k \in 0..(MaxCalls - 1), Unwind(k)
  PROVE  Cursors!Next
  <1>1. Stack(events, frames)
    BY DEF IInv
  <1>2. k \in 0..Len(frames)
    BY <1>1, FrameTyped, BoundsAssumption DEF Unwind
  <1>3. PICK n : n = Kept(frames, k)
    OBVIOUS
  <1>4. PICK evs, fs : evs = SubSeq(events, 1, n) /\ fs = SubSeq(frames, 1, k)
    OBVIOUS
  <1>5. n \in 0..Len(events)
    BY <1>1, <1>2, <1>3, StackReturns
  <1>6. Below(SubSeq(frames, 1, k)) = evs
    BY <1>1, <1>2, <1>3, <1>4, BelowIs
  <1>7. Becomes(list, evs, fs)
    BY <1>4, <1>6 DEF Unwind
  <1>8. \E I \in SUBSET Slots : Cursors!Leave(I)
    BY <1>4, <1>5, <1>7, LeaveStep
  <1>9. QED
    BY <1>8 DEF Cursors!Next

LEMMA InitImplements == Init => Cursors!Init
  <1> SUFFICES ASSUME Init PROVE Cursors!Init
    OBVIOUS
  <1>1. \A e \in Slots : Stand[e] = Null
    BY DEF Init, Stand, Slots
  <1>2. PICK l : l = list
    OBVIOUS
  <1>3. Sound(l) /\ l.first = Null
    BY <1>2, NewListSound DEF Init, NewList
  <1>4. PICK s : s = Listed(l)
    OBVIOUS
  <1>5. Chain(l, s) /\ s \in Seq(Nodes)
    BY <1>3, <1>4, ListedElements
  <1>6. s = <<>>
    <2>1. Len(s) \in Nat /\ (Len(s) # 0 => s[1] \in Nodes)
      BY <1>5
    <2>2. Len(s) = 0
      BY <1>3, <1>5, <2>1, NodesAssumption DEF Chain, At
    <2>3. QED
      BY <1>5, <2>2
  <1>7. \A e \in Slots : Yet[e] = <<>>
    BY <1>1 DEF Yet
  <1>8. Stand = [e \in Slots \cup {} |-> Null] /\ Yet = [e \in Slots \cup {} |-> <<>>]
    <2>1. Stand = [e \in Slots |-> Stand[e]] /\ Yet = [e \in Slots |-> Yet[e]]
      BY DEF Stand, Yet
    <2>2. QED
      BY <1>1, <1>7, <2>1
  <1>9. QED
    BY <1>2, <1>4, <1>6, <1>8 DEF Cursors!Init, Yet

(* Every step of the dispatcher is a step of the abstract one, or stutters. *)
LEMMA NextImplements ==
  ASSUME IInv, IInv', [Next]_vars
  PROVE  [Cursors!Next]_(Cursors!vars)
  <1>1. ASSUME NEW v \in Values, AddBack(v) PROVE Cursors!Next
    BY <1>1, AddBackImplements DEF Cursors!Next
  <1>2. ASSUME NEW v \in Values, AddFront(v) PROVE Cursors!Next
    BY <1>2, AddFrontImplements DEF Cursors!Next
  <1>3. ASSUME NEW v \in Values, RemoveListener(v) PROVE Cursors!Next
    BY <1>3, RemoveImplements DEF Cursors!Next
  <1>4. CASE RemoveAll \/ Destroy
    <2>1. Cursors!Renew
      BY <1>4, ClearImplements DEF RemoveAll, Edits, Destroy
    <2>2. QED
      BY <2>1 DEF Cursors!Next
  <1>5. CASE Dispatch
    <2>1. \E i \in Slots : Cursors!Begin(i)
      BY <1>5, DispatchImplements
    <2>2. QED
      BY <2>1 DEF Cursors!Next
  <1>6. CASE CallNext
    <2>1. PICK fs : fs = [frames EXCEPT ![Len(frames)].called = TRUE]
      OBVIOUS
    <2>2. Len(events) # 0
      BY <1>6, FrameTyped DEF IInv, Stack, CallNext
    <2>3. \E i \in Slots : Cursors!Step(i)
      BY <1>6, <2>1, <2>2, EventNextImplements DEF CallNext
    <2>4. QED
      BY <2>3 DEF Cursors!Next
  <1>7. CASE SimpleReturns
    BY <1>7, SimpleReturnsImplements
  <1>8. ASSUME NEW k \in 0..(MaxCalls - 1), Unwind(k) PROVE Cursors!Next
    BY <1>8, UnwindImplements
  <1>9. CASE list' = list /\ events' = events
    <2>1. Stand' = Stand
      BY <1>9 DEF Stand
    <2>2. Yet' = Yet
      BY <1>9, <2>1 DEF Yet
    <2>3. Listed(list)' = Listed(list)
      BY <1>9
    <2>4. QED
      BY <2>1, <2>2, <2>3 DEF Cursors!vars, Yet
  <1>10. QED
    BY <1>1, <1>2, <1>3, <1>4, <1>5, <1>6, <1>7, <1>8, <1>9 DEF Next, Renew, vars

(* Every dispatch calls, in the order of the list, the listeners that were  *)
(* ahead of it and have not been removed, and nobody else, whatever the    *)
(* listeners register, remove and dispatch meanwhile.                      *)
THEOREM DispatchesKeepTheirWay == Spec => ImplementsCursorList
  <1>1. IInv /\ IInv' /\ [Next]_vars => [Cursors!Next]_(Cursors!vars)
    BY NextImplements
  <1>2. QED
    BY <1>1, InitImplements, SpecIInv, PTL DEF Spec, ImplementsCursorList, Cursors!Spec
=============================================================================
