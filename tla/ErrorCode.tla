----------------------------- MODULE ErrorCode -----------------------------
(***************************************************************************)
(* panda::ErrorCode (error.h, error.cc): a list of std::error_code kept in *)
(* a reference counted Data, whose numbers are a VarIntStack and whose     *)
(* categories are a chain of NestedCategory nodes.                         *)
(*                                                                         *)
(*   data[x]   the Data that object x points to, or Null                   *)
(*   heap[d]   Data d: _refcnt, codes (the bytes of the stack) and cat,    *)
(*             the categories from the newest on: the nodes of a chain are *)
(*             shared and never change, so a chain is its contents         *)
(*                                                                         *)
(* A constructor is used as in x = ErrorCode(...): the new object is moved *)
(* into x and what x had is destroyed with the temporary.  The storage of  *)
(* a stack is a panda::string: a value, which is what CowString shows.     *)
(***************************************************************************)
EXTENDS VarInt, FiniteSets, FiniteSetsExt

CONSTANTS
    Objs,        \* ErrorCode objects
    Datas,       \* Data objects: one more than Objs is enough
    Values,      \* numbers of codes; 0 means no error
    Categories,
    MaxDepth,    \* bound: codes in one list
    Null

ASSUME ErrorCodeAssumption ==
    Values \subseteq Ints /\ MaxDepth \in Nat \ {0} /\ Cardinality(Datas) > Cardinality(Objs)

VARIABLES data, heap

vars == <<data, heap>>

Codes == [v : Values, cat : Categories]

IsError(c) == c.v # 0      \* std::error_code::operator bool

Freed == [refcnt |-> 0, codes |-> <<>>, cat |-> <<>>]

Init == data = [x \in Objs |-> Null] /\ heap = [d \in Datas |-> Freed]

\* The heap with one reference more, or one less: the last one destroys the Data.
Retain(h, d)  == IF d = Null THEN h ELSE [h EXCEPT ![d].refcnt = @ + 1]
Release(h, d) ==
    IF d = Null THEN h
    ELSE [h EXCEPT ![d] = IF @.refcnt > 1 THEN [@ EXCEPT !.refcnt = @ - 1] ELSE Freed]

\* Mutant: the categories are left when the codes are cleared.
InitKeepsCategories(d) == [d EXCEPT !.codes = <<>>]

init(d) == [d EXCEPT !.codes = <<>>, !.cat = <<>>]

Push(d, c) == [d EXCEPT !.codes = push(@, c.v), !.cat = <<c.cat>> \o @]

\* Mutant: the second code is pushed without a test.
SetPairBoth(d, c, c2) == Push(Push(init(d), c2), c)

\* The Data that set() leaves, from the Data it starts with.
SetOne(d, c)      == Push(init(d), c)
SetPair(d, c, c2) == Push(IF IsError(c2) THEN Push(init(d), c2) ELSE init(d), c)
SetOver(d, c, y)  ==
    Push(IF data[y] = Null THEN init(d)
         ELSE [init(d) EXCEPT !.codes = heap[data[y]].codes, !.cat = heap[data[y]].cat], c)

\* x takes a new Data with these contents; what it had is released.
Take(x, d) ==
    \E new \in Datas :
        /\ heap[new] = Freed
        /\ data' = [data EXCEPT ![x] = new]
        /\ heap' = Release([heap EXCEPT ![new] = [d EXCEPT !.refcnt = 1]], data[x])

clear(x) ==
    /\ data' = [data EXCEPT ![x] = Null]
    /\ heap' = Release(heap, data[x])

-----------------------------------------------------------------------------
\* set() in the object's own Data, which copies of the object share.
SetInPlace(x, c) ==
    IF data[x] = Null THEN Take(x, SetOne(Freed, c))
    ELSE /\ heap' = [heap EXCEPT ![data[x]] = SetOne(@, c)]
         /\ UNCHANGED data

\* operator=(std::error_code)
AssignCode(x, c) == IF IsError(c) THEN SetInPlace(x, c) ELSE clear(x)

\* operator=(enum) does not test for zero.
AssignEnum(x, c) == SetInPlace(x, c)

\* ErrorCode(int, category), ErrorCode(std::error_code) and ErrorCode(enum)
Construct(x, c) == IF IsError(c) THEN Take(x, SetOne(Freed, c)) ELSE clear(x)

\* ErrorCode(ec, next): only next is tested.
ConstructPair(x, c, c2) == Take(x, SetPair(Freed, c, c2))

ConstructOver(x, c, y) ==
    /\ data[y] # Null => Len(heap[data[y]].cat) < MaxDepth
    /\ Take(x, SetOver(Freed, c, y))

CopyAssign(x, y) ==
    /\ data' = [data EXCEPT ![x] = data[y]]
    /\ heap' = Release(Retain(heap, data[y]), data[x])

\* The move assignment of an iptr swaps.
MoveAssign(x, y) ==
    /\ data' = [data EXCEPT ![x] = data[y], ![y] = data[x]]
    /\ UNCHANGED heap

Clear(x) == clear(x)

NextData(d) == [d EXCEPT !.codes = pop(@), !.cat = Tail(@)]

\* x = y.next(): a copy without the newest code.
AssignNext(x, y) ==
    IF data[y] = Null THEN clear(x)
    ELSE IF Len(heap[data[y]].cat) = 1 THEN clear(x)
    ELSE Take(x, NextData(heap[data[y]]))

Next ==
    \/ \E x \in Objs, c \in Codes :
          \/ AssignCode(x, c) \/ AssignEnum(x, c) \/ Construct(x, c)
          \/ MaxDepth > 1 /\ \E c2 \in Codes : ConstructPair(x, c, c2)
          \/ \E y \in Objs : ConstructOver(x, c, y)
    \/ \E x, y \in Objs : CopyAssign(x, y) \/ MoveAssign(x, y) \/ AssignNext(x, y)
    \/ \E x \in Objs : Clear(x)

Spec == Init /\ [][Next]_vars

-----------------------------------------------------------------------------
(* What an object says of itself                                           *)

\* Mutant: the category does not step with the number.
ContainsInNewest(x, c) ==
    IF data[x] = Null THEN ~IsError(c)
    ELSE LET vals == elements[heap[data[x]].codes] IN
         \E k \in DOMAIN vals : vals[k] = c.v /\ heap[data[x]].cat[1] = c.cat

\* The iterator of the stack goes along with the chain of categories.
contains(x, c) ==
    IF data[x] = Null THEN ~IsError(c)
    ELSE LET vals == elements[heap[data[x]].codes] IN
         \E k \in DOMAIN vals : vals[k] = c.v /\ heap[data[x]].cat[k] = c.cat

\* what() walks the categories and pops a copy of the stack for each.
walk[p \in Seq(Bytes) \X Seq(Categories)] ==
    IF p[2] = <<>> THEN <<>>
    ELSE <<[v |-> top(p[1]), cat |-> Head(p[2])]>> \o walk[<<pop(p[1]), Tail(p[2])>>]

what(x) == IF data[x] = Null THEN <<>> ELSE walk[<<heap[data[x]].codes, heap[data[x]].cat>>]

-----------------------------------------------------------------------------
(* Properties                                                              *)

Holders(d) == Cardinality({x \in Objs : data[x] = d})

\* Type invariant.  A Data is counted by its holders, and its stack and its chain of
\* categories have the same depth, never zero: top() and what() never read beyond.
TypeOK ==
    /\ data \in [Objs -> Datas \cup {Null}]
    /\ \A d \in Datas :
          /\ heap[d].codes \in Seq(Bytes) /\ heap[d].cat \in Seq(Categories)
          /\ heap[d].refcnt = Holders(d)
          /\ size(heap[d].codes) = Len(heap[d].cat)
          /\ heap[d].refcnt > 0 <=> heap[d].cat # <<>>

\* The readers see one list: an object contains exactly the codes that what() lists, or
\* those that are no error when there is none, and next() has the list without its
\* first code (error.cc, contains_impl, what and next).
ReadersAgree ==
    \A x \in Objs :
        /\ \A c \in Codes :
              contains(x, c) <=> IF what(x) = <<>> THEN ~IsError(c)
                                 ELSE \E k \in DOMAIN what(x) : what(x)[k] = c
        /\ data[x] # Null =>
              LET d == NextData(heap[data[x]]) IN walk[<<d.codes, d.cat>>] = Tail(what(x))

\* Every number can be pushed on every stack there is and comes back, and the stack
\* with it; the iterator, which has no bound to stop at, and the popped tops agree
\* (varint.h, with the width and the bytes scaled down).
StackLaws ==
    \A d \in Datas :
        LET s == heap[d].codes IN
        /\ \A i \in Ints : top(push(s, i)) = i /\ pop(push(s, i)) = s
        /\ s # <<>> => elements[s] = <<top(s)>> \o elements[pop(s)] /\ Len(elements[s]) = size(s)

\* The list of an object, as a value.
AsValue == INSTANCE ErrorValues WITH val <- [x \in Objs |-> what(x)]

\* "You can use it as the usual value type as std::error_code" (doc/error.md:101).
UsualValueType == AsValue!Spec

\* Another object has the same Data, after a copy.
Shared(x) == data[x] # Null /\ \E y \in Objs \ {x} : data[y] = data[x]

\* What the bytes and the chains say after an operation is what the operation on lists of
\* codes says, and the other objects keep their lists, whose chains and bytes they may
\* share.  Where a code is set in a Data that is shared, which is not what the value type
\* does (UsualValueType), only the list of the object itself is spoken of.
ImplementsValues ==
    AsValue!Init /\
    [][/\ \A x \in Objs, c \in Codes :
             /\ AssignCode(x, c) /\ ~IsError(c) => AsValue!Clear(x)
             /\ (AssignCode(x, c) /\ IsError(c)) \/ AssignEnum(x, c) =>
                   IF Shared(x) THEN what(x)' = <<c>> ELSE AsValue!Assign(x, <<c>>)
             /\ Construct(x, c) => IF IsError(c) THEN AsValue!Assign(x, <<c>>) ELSE AsValue!Clear(x)
             /\ \A c2 \in Codes : ConstructPair(x, c, c2) =>
                   AsValue!Assign(x, IF IsError(c2) THEN <<c, c2>> ELSE <<c>>)
             /\ \A y \in Objs : ConstructOver(x, c, y) => AsValue!Wrap(x, c, y)
       /\ \A x, y \in Objs :
             /\ CopyAssign(x, y) => AsValue!Copy(x, y)
             /\ MoveAssign(x, y) => AsValue!Swap(x, y)
             /\ AssignNext(x, y) => AsValue!Unwrap(x, y)
       /\ \A x \in Objs : Clear(x) => AsValue!Clear(x)]_vars
=============================================================================
