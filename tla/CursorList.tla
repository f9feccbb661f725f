----------------------------- MODULE CursorList -----------------------------
(***************************************************************************)
(* What owning_list promises to those who iterate over it while it is      *)
(* changed (the class comment of panda/owning_list.h): an iterator keeps   *)
(* the element it stands on, and visits in order the elements that were    *)
(* ahead of it and have not been removed.  Two things it may miss: what    *)
(* was inserted after its own element was removed, and, for a reverse      *)
(* iterator on a removed element, everything ("operator++ may lead to      *)
(* invalid iterator").  No nodes, no links: those belong to ListNodes.     *)
(***************************************************************************)
EXTENDS SequencesExt

CONSTANTS
  Elements,  \* identities of elements
  Fwd, Rev,  \* the forward and the reverse iterators
  Null,      \* an iterator at the end stands on this
  Lost       \* what is ahead of an iterator that must not be advanced

VARIABLES
  list,   \* the elements of the list, in order
  at,     \* the element each iterator stands on
  ahead   \* the elements each iterator has yet to visit, or Lost
vars == <<list, at, ahead>>

FirstOf(s)    == IF s = <<>> THEN Null ELSE Head(s)
RestOf(s)     == IF s = <<>> THEN <<>> ELSE Tail(s)

Init == list = <<>> /\ at = [i \in Fwd \cup Rev |-> Null] /\ ahead = [i \in Fwd \cup Rev |-> <<>>]

(* Iterator i has s ahead of it after the step, or was a reverse iterator  *)
(* on a removed element and is lost.                                       *)
Ahead(i, s) ==
  \/ ahead'[i] = IF ahead[i] = Lost THEN Lost ELSE s
  \/ i \in Rev /\ at[i] \notin ToSet(list') /\ ahead'[i] = Lost
AllAhead(I) == DOMAIN ahead' = DOMAIN ahead /\ \A i \in I : Ahead(i, ahead[i])

(* e comes at the end that the iterators I go towards.  One whose element  *)
(* was removed may miss it.                                                *)
Meets(I, e) ==
  /\ e \notin ToSet(list)
  /\ UNCHANGED at
  /\ AllAhead((Fwd \cup Rev) \ I)
  /\ \A i \in I :
       \/ at[i] # Null /\ ahead[i] # Lost /\ Ahead(i, Append(ahead[i], e))
       \/ at[i] \notin ToSet(list) /\ Ahead(i, ahead[i])

InsertLast(e)  == list' = Append(list, e) /\ Meets(Fwd, e)
InsertFirst(e) == list' = <<e>> \o list /\ Meets(Rev, e)

TakeOut(e) ==
  /\ list' = RemoveFirst(list, e)
  /\ UNCHANGED at
  /\ DOMAIN ahead' = DOMAIN ahead
  /\ \A i \in Fwd \cup Rev : Ahead(i, RemoveFirst(ahead[i], e))

(* All elements go, and new ones may come.                                 *)
Renew ==
  /\ UNCHANGED at
  /\ DOMAIN ahead' = DOMAIN ahead
  /\ \A i \in Fwd \cup Rev : Ahead(i, <<>>)
  /\ ToSet(list') \subseteq Elements /\ IsInjective(list')

Stand(i, s) ==
  /\ UNCHANGED list
  /\ at' = [at EXCEPT ![i] = FirstOf(s)]
  /\ ahead'[i] = RestOf(s) \/ (i \in Rev /\ FirstOf(s) \notin ToSet(list) /\ ahead'[i] = Lost)
  /\ AllAhead((Fwd \cup Rev) \ {i})

Begin(i) == Stand(i, IF i \in Fwd THEN list ELSE Reverse(list))
Step(i)  == at[i] # Null /\ ahead[i] # Lost /\ Stand(i, ahead[i])

Leave(I) ==
  /\ UNCHANGED list
  /\ at' = [i \in DOMAIN at |-> IF i \in I THEN Null ELSE at[i]]
  /\ \A i \in I : ahead'[i] = <<>>
  /\ AllAhead((Fwd \cup Rev) \ I)

Next ==
  \/ \E e \in Elements : InsertLast(e) \/ InsertFirst(e)
  \/ \E e \in ToSet(list) : TakeOut(e)
  \/ Renew
  \/ \E i \in Fwd \cup Rev : Begin(i) \/ Step(i)
  \/ \E I \in SUBSET (Fwd \cup Rev) : Leave(I)

Spec == Init /\ [][Next]_vars
=============================================================================
