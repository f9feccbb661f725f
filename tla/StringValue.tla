---------------------------- MODULE StringValue ----------------------------
(***************************************************************************)
(* What a panda::basic_string promises to its user: every string object is *)
(* an independent value, a sequence of characters, and an operation on one *)
(* object changes that object only (panda/basic_string.h calls itself a    *)
(* "std::string drop-in replacement").  No storage, no sharing, no         *)
(* capacity: those belong to module CowString, which implements this one.  *)
(***************************************************************************)
EXTENDS Integers, Sequences

CONSTANTS
  Strings,   \* the string objects
  Texts,     \* the texts that calls pass as characters
  Spans,     \* the <<position, count>> pairs that calls pass
  MaxLen,    \* bound: no operation makes a string longer than this
  Gone       \* the value of an object that is not constructed

VARIABLE val \* val[s]: the characters of s, or Gone

Live(s) == val[s] # Gone

(* The characters [pos, pos + n) of v, n truncated to what v has.          *)
Sub(v, pos, n) == SubSeq(v, pos + 1, IF n > Len(v) - pos THEN Len(v) ELSE pos + n)

(* v with the characters [pos, pos + n) replaced by w, n truncated.        *)
Splice(v, pos, n, w) ==
  SubSeq(v, 1, pos) \o w
    \o SubSeq(v, (IF n > Len(v) - pos THEN Len(v) ELSE pos + n) + 1, Len(v))

Init == val = [s \in Strings |-> Gone]

(* A constructor and the destructor.                                       *)
Construct(s, v) == ~Live(s) /\ Len(v) <= MaxLen /\ val' = [val EXCEPT ![s] = v]
Destroy(s)      == Live(s) /\ val' = [val EXCEPT ![s] = Gone]

(* assign: the whole value is replaced.                                    *)
Assign(s, v) == Live(s) /\ Len(v) <= MaxLen /\ val' = [val EXCEPT ![s] = v]

(* insert, replace, erase: the characters [pos, pos + n) become w.  append,*)
(* resize, pop_back and clear edit the end, and a write through operator[] *)
(* one character.                                                          *)
Edit(s, pos, n, w) ==
  /\ Live(s)
  /\ pos <= Len(val[s])
  /\ Len(Splice(val[s], pos, n, w)) <= MaxLen
  /\ val' = [val EXCEPT ![s] = Splice(@, pos, n, w)]

(* The move constructor and move assignment empty their source.            *)
MoveTo(s, t) ==
  /\ s # t
  /\ Live(t)
  /\ val' = [val EXCEPT ![s] = val[t], ![t] = <<>>]

Swap(s, t) == Live(s) /\ Live(t) /\ val' = [val EXCEPT ![s] = val[t], ![t] = val[s]]

(* reserve, shrink_to_fit, c_str, buf ...: the value stays.                *)
Keep(s) == Live(s) /\ UNCHANGED val

(***************************************************************************)
(* A call passes a text, or a string object with the part of it that is    *)
(* meant; that may be the object the call is made on.                      *)
(***************************************************************************)
Parts(v) == {Sub(v, c[1], c[2]) : c \in {d \in Spans : d[1] <= Len(v)}}
Passed   == Texts \cup UNION {Parts(val[t]) : t \in {u \in Strings : Live(u)}}

Edited(v, places, texts) ==
  {Splice(v, c[1], c[2], w) : c \in {d \in places : d[1] <= Len(v)}, w \in texts}

(* What Construct, or Destroy, Keep, Assign and Edit, make of an object    *)
(* that reads as v, when these texts can be passed: Edit at the end; at a  *)
(* span, with a text or none; from a position to the end, with none; at    *)
(* one character, with another.                                            *)
Result(v, u, texts) ==
  IF v = Gone THEN u \in texts
  ELSE \/ u \in {Gone, v}
       \/ u \in texts
       \/ u \in Edited(v, {<<Len(v), 0>>}, texts)
       \/ u \in Edited(v, Spans, texts \cup {<<>>})
       \/ u \in Edited(v, {<<n, MaxLen>> : n \in 0..MaxLen}, {<<>>})
       \/ u \in Edited(v, {<<i, 1>> : i \in {n \in 0..MaxLen : n < Len(v)}}, {w \in Texts : Len(w) = 1})

Call(s) ==
  /\ val' = [val EXCEPT ![s] = val'[s]]
  /\ Result(val[s], val'[s], Passed)
  /\ val'[s] # Gone => Len(val'[s]) <= MaxLen

Next == \E s \in Strings : Call(s) \/ \E t \in Strings : MoveTo(s, t) \/ Swap(s, t)

Spec == Init /\ [][Next]_val
=============================================================================
