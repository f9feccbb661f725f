----------------------------- MODULE Dispatcher -----------------------------
(***************************************************************************)
(* panda::CallbackDispatcher: listeners that are called in turn, each by   *)
(* the one before it, over a list that they change (CallbackDispatcher.h). *)
(*                                                                         *)
(* A dispatch keeps an Event, which is an iterator of the owning list, on  *)
(* the call stack.  The innermost listener runs: it may register and       *)
(* remove listeners, itself included, dispatch again, pass control to the  *)
(* next listener, delete the dispatcher, return or throw.                  *)
(***************************************************************************)
EXTENDS ListNodes

CONSTANTS
  Simple,       \* the Values that are SimpleCallbacks: the wrapper calls next() for them
  MaxDispatches, MaxCalls,  \* bounds on the nesting of dispatches and of calls
  Lost          \* see CursorList

ASSUME SimpleAssumption == Simple \subseteq Values
ASSUME LostAssumption == Lost \notin Seq(Nodes)
ASSUME BoundsAssumption == MaxDispatches \in Nat /\ MaxCalls \in Nat

VARIABLES
  list,    \* listeners
  alive,   \* the dispatcher exists
  events,  \* Event::state of each dispatch in progress, the outermost first
  frames   \* the calls in progress: whose event it is, which wrapper runs,
           \* whether its listener has called next()
vars == <<list, alive, events, frames>>

Init == list = NewList /\ alive = TRUE /\ events = <<>> /\ frames = <<>>

Running == Last(frames)

(* The state after a step: what no iterator and no link holds is deleted,  *)
(* and a frame whose wrapper is deleted goes on without it.  The variant   *)
(* lets the event point to the node without owning it.                     *)
HeldByNone(evs) == {}
Held(evs)       == ToSet(evs)
Becomes(l, evs, fs) ==
  /\ list' = Collect(l, Held(evs))
  /\ events' = evs
  /\ frames' = [k \in DOMAIN fs |->
                 IF fs[k].node \in Unallocated(list') THEN [fs[k] EXCEPT !.node = Dangling] ELSE fs[k]]
Edits(l) == alive /\ Becomes(l, events, frames) /\ UNCHANGED alive

(* add, prepend, add_event_listener, prepend_event_listener; remove and    *)
(* remove_object: the last listener that equals the argument; remove_all.  *)
AddBack(c)  == Unallocated(list) # {} /\ Edits(PushBack(list, c))
AddFront(c) == Unallocated(list) # {} /\ Edits(PushFront(list, c))
RemoveListener(c) ==
  LET s       == Walk(list, list.last, Dec)
      Same(k) == list.node[s[k]].val = c
  IN  \E k \in 1..Len(s) : Same(k) /\ (\A j \in 1..(k - 1) : ~Same(j)) /\ Edits(RemoveNode(list, s[k]))
RemoveAll == Edits(Clear(list))

(* The dispatcher is deleted by one of its listeners; another is made when *)
(* the calls are over.                                                     *)
Destroy == alive /\ frames # <<>> /\ alive' = FALSE /\ Becomes(Clear(list), events, frames)
Renew   == ~alive /\ frames = <<>> /\ alive' = TRUE /\ UNCHANGED <<list, events, frames>>

(* A wrapper is called for the node n that the last event of evs points to. *)
Enter(evs, fs) ==
  LET n == Last(evs)
  IN  /\ n # Null => Len(fs) < MaxCalls
      /\ Becomes(list, evs, IF n = Null THEN fs
                            ELSE Append(fs, [ev |-> Len(evs), node |-> n, called |-> FALSE]))
      /\ UNCHANGED alive

(* operator(): nothing happens when there is no listener.                  *)
Dispatch ==
  /\ alive /\ list.first # Null
  /\ Len(events) < MaxDispatches
  /\ Enter(Append(events, list.first), frames)

(* Event::next: an event that is at its end has no node to move from.      *)
Moved == [events EXCEPT ![Len(events)] = Inc(list, @)]
Next_(fs) == Last(events) # Null /\ Enter(Moved, fs)

IsSimple(fr) == fr.node # Dangling /\ list.node[fr.node].val \in Simple
CallNext ==
  /\ frames # <<>> /\ ~IsSimple(Running)
  /\ Next_([frames EXCEPT ![Len(frames)].called = TRUE])

(* The simple callback returned: its wrapper calls next(), and returns     *)
(* what that returns.  The event goes when the wrapper was its first.      *)
Below(fs) == IF fs = <<>> THEN <<>> ELSE SubSeq(events, 1, Last(fs).ev)
SimpleReturns ==
  /\ frames # <<>> /\ IsSimple(Running)
  /\ IF Inc(list, Last(events)) = Null /\ Len(Below(Front(frames))) < Len(events)
     THEN Becomes(list, Front(events), Front(frames)) /\ UNCHANGED alive
     ELSE Next_(Front(frames))

(* A listener returns, or throws and the k-th call catches it, or the      *)
(* caller of the outermost dispatch.                                       *)
Unwind(k) ==
  /\ k < Len(frames)
  /\ Becomes(list, Below(SubSeq(frames, 1, k)), SubSeq(frames, 1, k))
  /\ UNCHANGED alive

Next ==
  \/ \E c \in Values : AddBack(c) \/ AddFront(c) \/ RemoveListener(c)
  \/ RemoveAll \/ Destroy \/ Renew
  \/ Dispatch \/ CallNext \/ SimpleReturns
  \/ \E k \in 0..(MaxCalls - 1) : Unwind(k)

Spec == Init /\ [][Next]_vars

(***************************************************************************)
(* Properties.                                                             *)
(***************************************************************************)
(* Type invariant: no dispatch or call beyond the bounds.                  *)
TypeOK ==
  /\ list \in ListType
  /\ alive \in BOOLEAN
  /\ events \in Seq(Nodes \cup {Null}) /\ Len(events) <= MaxDispatches
  /\ frames \in Seq([ev : 1..MaxDispatches, node : Nodes \cup {Dangling}, called : BOOLEAN])
  /\ Len(frames) <= MaxCalls

(* Whatever a listener does to the dispatcher, and whatever is dispatched  *)
(* inside it, its closure exists until it calls next(): the event still    *)
(* stands on its node.                                                     *)
HeldUntilNext == TypeOK /\ \A k \in DOMAIN frames :
  LET fr == frames[k] IN ~fr.called => fr.node # Dangling /\ events[fr.ev] = fr.node

(* Every dispatch calls, in the order of the list, the listeners that were *)
(* ahead of it and have not been removed, never one that was removed, and  *)
(* nobody after remove_all() or once the dispatcher is gone.               *)
Slots == 1..MaxDispatches
Stand == [e \in Slots |-> IF e <= Len(events) THEN events[e] ELSE Null]
Cursors == INSTANCE CursorList WITH
             Elements <- Nodes, Fwd <- Slots, Rev <- {}, list <- Listed(list), at <- Stand,
             ahead <- [e \in Slots |-> IF Stand[e] = Null THEN <<>> ELSE Walk(list, Inc(list, Stand[e]), Inc)]
ImplementsCursorList == Cursors!Spec
=============================================================================
