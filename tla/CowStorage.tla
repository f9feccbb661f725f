----------------------------- MODULE CowStorage -----------------------------
(***************************************************************************)
(* The storage layer of panda::basic_string: the private helpers           *)
(* (_new_auto, _cow, _reserve_save, _reserve_middle, _release ...) as      *)
(* operators from a memory to the memory they leave.                       *)
(*                                                                         *)
(* A memory m is a record:                                                 *)
(*   m.str[s]  the fields of string object s: _state, _str as a pointer    *)
(*             <<block, offset>>, _length and _storage.dtor;               *)
(*   m.ctl[b]  the control block of heap buffer b: refcnt, the allocator   *)
(*             that made it, the user block it wraps if it is external;    *)
(*   m.mem[k]  the characters of block k: a heap buffer, the SSO bytes of  *)
(*             an object, or a literal.  Buffer.capacity is Len(m.mem[b]); *)
(*   m.held[e] whether the user memory e has been handed to a string and   *)
(*             not yet given back to its destructor.                       *)
(***************************************************************************)
EXTENDS Integers, Sequences, FiniteSets

CONSTANTS
  Strings,   \* string objects of the program
  Tmp,       \* the local "const basic_string tmp(str)" of insert and replace
  Literals,  \* read-only character arrays: literals and callers' buffers
  Terminal,  \* the literal basic_string::TERMINAL, the empty one
  LitText,   \* [Literals -> sequences of characters]
  Buffers,   \* heap buffers: a set of integers
  Ext,       \* blocks of user memory a string can adopt with a destructor
  ExtSize,   \* their capacity
  AllocOf,   \* [Strings \cup {Tmp} -> allocator], the Alloc parameter
  MaxSso,    \* MAX_SSO_CHARS
  FloatBits  \* bits of the significand of a float, 24 in IEEE 754

Objs     == Strings \cup {Tmp}
Counted  == {"INTERNAL", "EXTERNAL"}
States   == Counted \cup {"LITERAL", "SSO", "NONE"}
NUL      == "NUL"
Junk     == "junk"     \* an uninitialised, freed or out of range character
NoDtor   == "no dtor"
NoExt    == "not external"
FreeCtl  == [refcnt |-> 0, alloc |-> NoDtor, ext |-> NoExt]
Void     == [state |-> "NONE", blk |-> Terminal, off |-> 0, len |-> 0, dtor |-> NoDtor]
LiteralRec(l) == [state |-> "LITERAL", blk |-> l, off |-> 0, len |-> Len(LitText[l]), dtor |-> NoDtor]

Junks(n) == [i \in 1..n |-> Junk]

(***************************************************************************)
(* Reading and writing.  p is anything with a block, an offset and a       *)
(* length: a string's own fields, or those it had before (old_str).        *)
(***************************************************************************)
Cell(m, blk, i) == IF i \in DOMAIN m.mem[blk] THEN m.mem[blk][i] ELSE Junk
Read(m, p)      == [i \in 1..p.len |-> Cell(m, p.blk, p.off + i)]
Overlay(data, at, w) ==
  [i \in 1..Len(data) |-> IF i - at \in 1..Len(w) THEN w[i - at] ELSE data[i]]
PutAt(m, blk, at, w) == [m EXCEPT !.mem[blk] = Overlay(@, at, w)]
Put(m, s, at, w)     == PutAt(m, m.str[s].blk, m.str[s].off + at, w)
SetLen(m, s, n)      == [m EXCEPT !.str[s].len = n]
PointTo(m, s, off)   == [m EXCEPT !.str[s].off = off]

(* The range [pos, pos + n) of what p points at, n truncated to its length. *)
(* The variant forgets to truncate.  Variants like this one, named for what *)
(* they get wrong, are used by no specification: they show that a property *)
(* would notice.                                                           *)
SliceUntruncated(p, pos, n) == [blk |-> p.blk, off |-> p.off + pos, len |-> n]
Slice(p, pos, n) ==
  [blk |-> p.blk, off |-> p.off + pos, len |-> IF n > p.len - pos THEN p.len - pos ELSE n]
Text(l) == [blk |-> l, off |-> 0, len |-> Len(LitText[l])]

Unique(m, s)    == m.ctl[m.str[s].blk].refcnt = 1
BlockSize(m, s) == Len(m.mem[m.str[s].blk])
CapacityTail(m, s) == BlockSize(m, s) - m.str[s].off

(* capacity(): what may be written through _str without a reallocation.    *)
Capacity(m, s) ==
  CASE m.str[s].state \in Counted -> IF Unique(m, s) THEN CapacityTail(m, s) ELSE 0
    [] m.str[s].state = "SSO"     -> CapacityTail(m, s)
    [] OTHER                      -> 0

(***************************************************************************)
(* capacity * extra, with extra a float: the capacity itself is rounded to *)
(* the nearest float.  Growth by GROW_RATE 1.6 truncates the product.      *)
(***************************************************************************)
Ulp(n) ==
  CHOOSE u \in {2^k : k \in 0..n} \cap Nat :
    /\ n < 2^FloatBits * u
    /\ u = 1 \/ 2^FloatBits * (u \div 2) <= n
NearestFloat(n) ==
  LET low == Ulp(n) * (n \div Ulp(n))
      up  == \/ 2 * (n - low) > Ulp(n)
             \/ 2 * (n - low) = Ulp(n) /\ (n \div Ulp(n)) % 2 = 1
  IN  IF up THEN low + Ulp(n) ELSE low

Times(cap, extra) == IF extra = "grow" THEN (cap * 8) \div 5 ELSE NearestFloat(cap)

(***************************************************************************)
(* Creating and destroying storage.                                        *)
(***************************************************************************)
FreeBuffers(m) == {b \in Buffers : m.ctl[b].refcnt = 0}
AnyFree(m)     == CHOOSE b \in Buffers : m.ctl[b].refcnt = 0

(* s becomes INTERNAL on a new buffer; its length is not touched.          *)
NewBuffer(m, s, cap) ==
  LET b == AnyFree(m) IN
    [m EXCEPT !.str[s] = [@ EXCEPT !.state = "INTERNAL", !.blk = b, !.off = 0, !.dtor = AllocOf[s]],
              !.ctl[b] = [refcnt |-> 1, alloc |-> AllocOf[s], ext |-> NoExt],
              !.mem[b] = Junks(cap),
              !.mem[s] = <<>>]

NewAuto(m, s, cap) ==
  IF cap <= MaxSso
  THEN [m EXCEPT !.str[s] = [@ EXCEPT !.state = "SSO", !.blk = s, !.off = 0, !.dtor = NoDtor],
                 !.mem[s] = Junks(MaxSso)]
  ELSE NewBuffer(m, s, cap)

(* becomes INTERNAL for cap; _str is copied before the SSO bytes are lost. *)
NewInternalFromSso(m, s, cap) ==
  LET old == Read(m, m.str[s]) IN Put(NewBuffer(m, s, cap), s, 0, old)

(* s adopts user memory e, filled with the text of l, through a new control *)
(* block.                                                                   *)
ExternalRec(b, e, l) ==
  [state |-> "EXTERNAL", blk |-> b, off |-> 0, len |-> Len(LitText[l]), dtor |-> e]
NewExternal(m, s, e, l) ==
  LET b == AnyFree(m) IN
    [m EXCEPT !.str[s]  = ExternalRec(b, e, l),
              !.ctl[b]  = [refcnt |-> 1, alloc |-> AllocOf[s], ext |-> e],
              !.mem[b]  = Overlay(Junks(ExtSize), 0, LitText[l]),
              !.mem[s]  = <<>>,
              !.held[e] = TRUE]

(* _free_external_str / _free_internal: the destructor dtor gets the block. *)
CallDtor(m, dtor) == IF dtor \in Ext THEN [m EXCEPT !.held[dtor] = FALSE] ELSE m
FreeBuffer(m, p)  ==
  [CallDtor(m, p.dtor) EXCEPT !.ctl[p.blk] = FreeCtl, !.mem[p.blk] = <<>>]

DecRef(m, b) == [m EXCEPT !.ctl[b].refcnt = @ - 1]
ReleaseBuffer(m, p) ==
  LET m1 == DecRef(m, p.blk) IN IF m1.ctl[p.blk].refcnt = 0 THEN FreeBuffer(m1, p) ELSE m1

(* _release() "leaves object in invalid state".                            *)
Release(m, s) ==
  LET m1 == IF m.str[s].state \in Counted THEN ReleaseBuffer(m, m.str[s]) ELSE m
  IN  [m1 EXCEPT !.str[s] = Void, !.mem[s] = <<>>]

(* The user memory of a uniquely held EXTERNAL string is replaced by e, its *)
(* control block is kept; the variant never gives the old memory back.     *)
ReplaceExternalLeaks(m, s, e, l) ==
  LET b == m.str[s].blk
  IN  [m EXCEPT !.str[s] = ExternalRec(b, e, l), !.ctl[b].ext = e,
                !.mem[b] = Overlay(Junks(ExtSize), 0, LitText[l]), !.held[e] = TRUE]
ReplaceExternal(m, s, e, l) ==
  LET b == m.str[s].blk
      m1 == CallDtor(m, m.str[s].dtor)
  IN  [m1 EXCEPT !.str[s]     = ExternalRec(b, e, l),
                 !.ctl[b].ext = e,
                 !.mem[b]     = Overlay(Junks(ExtSize), 0, LitText[l]),
                 !.held[e]    = TRUE]

(***************************************************************************)
(* Sharing and moving.  s has no storage of its own before these.          *)
(***************************************************************************)
Rebased(m, s, t) == [m.str[t] EXCEPT !.blk = IF m.str[t].state = "SSO" THEN s ELSE @]

Cow(m, s, t, off, len) ==
  LET m1 == [m EXCEPT !.str[s] = [Rebased(m, s, t) EXCEPT !.off = @ + off, !.len = len],
                      !.mem[s] = m.mem[t]]
  IN  IF m.str[t].state \in Counted THEN [m1 EXCEPT !.ctl[m.str[t].blk].refcnt = @ + 1] ELSE m1

CowOffset(m, s, t, pos, n) == Cow(m, s, t, pos, Slice(m.str[t], pos, n).len)

(* The move leaves t empty; the variant leaves it as it was.               *)
MoveFromShares(m, s, t) == [m EXCEPT !.str[s] = Rebased(m, s, t), !.mem[s] = m.mem[t]]
MoveFrom(m, s, t) ==
  [m EXCEPT !.str[s] = Rebased(m, s, t), !.mem[s] = m.mem[t],
            !.str[t] = LiteralRec(Terminal), !.mem[t] = <<>>]

(* Union and pointers change sides; the variant leaves the deallocators.   *)
SwapStorageKeepsDtor(m, s, t) ==
  [m EXCEPT !.str[s] = [Rebased(m, s, t) EXCEPT !.dtor = m.str[s].dtor], !.mem[s] = m.mem[t],
            !.str[t] = [Rebased(m, t, s) EXCEPT !.dtor = m.str[t].dtor], !.mem[t] = m.mem[s]]
SwapStorage(m, s, t) ==
  [m EXCEPT !.str[s] = Rebased(m, s, t), !.mem[s] = m.mem[t],
            !.str[t] = Rebased(m, t, s), !.mem[t] = m.mem[s]]

(***************************************************************************)
(* Detaching and reserving.                                                *)
(***************************************************************************)
DetachStr(m, s, cap) ==
  LET old == m.str[s]
      m1  == NewAuto(m, s, cap)
  IN  Put(m1, s, 0, Read(m1, old))

DetachCow(m, s, cap) == DetachStr(DecRef(m, m.str[s].blk), s, cap)

(* _shared_detach, for writers who want the other holders to see it.        *)
SharedDetach(m, s) ==
  IF m.str[s].state = "LITERAL" THEN DetachStr(m, s, m.str[s].len) ELSE m

(* _detach; the variant takes a literal for writable.                       *)
DetachSharedOnly(m, s) ==
  IF m.str[s].state \in Counted /\ ~Unique(m, s) THEN DetachCow(m, s, m.str[s].len) ELSE m
Detach(m, s) ==
  CASE m.str[s].state \in Counted /\ ~Unique(m, s) -> DetachCow(m, s, m.str[s].len)
    [] m.str[s].state = "LITERAL"                  -> DetachStr(m, s, m.str[s].len)
    [] OTHER                                       -> m

ReallocElsewhere(m, s, cap) == FreeBuffer(DetachStr(m, s, cap), m.str[s])

ReallocInPlace(m, s, cap) ==
  [m EXCEPT !.mem[m.str[s].blk] = [i \in 1..cap |-> Cell(m, m.str[s].blk, i)]]

(* _internal_realloc and _external_realloc.                                *)
Realloc(m, s, cap) ==
  IF /\ m.str[s].state = "INTERNAL"
     /\ m.str[s].dtor = AllocOf[s]
     /\ m.str[s].off = 0
  THEN ReallocInPlace(m, s, cap)
  ELSE ReallocElsewhere(m, s, cap)

MoveToStart(m, s) ==
  PointTo(PutAt(m, m.str[s].blk, 0, Read(m, m.str[s])), s, 0)

(* _reserve_save_internal and _reserve_save_external; the variant forgets  *)
(* the characters in front of _str.                                        *)
ReserveSaveKeepsOffset(m, s, cap, extra) ==
  CASE ~Unique(m, s)            -> DetachCow(m, s, Times(cap, extra))
    [] Unique(m, s) /\ BlockSize(m, s) < cap -> Realloc(m, s, Times(cap, extra))
    [] OTHER                    -> m
ReserveSaveCounted(m, s, cap, extra) ==
  CASE ~Unique(m, s)            -> DetachCow(m, s, Times(cap, extra))
    [] Unique(m, s) /\ BlockSize(m, s) < cap -> Realloc(m, s, Times(cap, extra))
    [] OTHER                    -> IF CapacityTail(m, s) < cap THEN MoveToStart(m, s) ELSE m

ReserveSaveSso(m, s, cap, extra) ==
  CASE MaxSso < cap                             -> NewInternalFromSso(m, s, Times(cap, extra))
    [] MaxSso >= cap /\ CapacityTail(m, s) < cap -> MoveToStart(m, s)
    [] OTHER                                    -> m

ReserveSave(m, s, want, extra) ==
  LET cap == IF want < m.str[s].len THEN m.str[s].len ELSE want
  IN  CASE m.str[s].state \in Counted  -> ReserveSaveCounted(m, s, cap, extra)
        [] m.str[s].state = "LITERAL" -> DetachStr(m, s, Times(cap, extra))
        [] m.str[s].state = "SSO"     -> ReserveSaveSso(m, s, cap, extra)

(* The content is lost; afterwards _str is writable for cap characters.    *)
(* The variant takes the new storage without giving up the shared one.     *)
ReserveDropLeaks(m, s, cap) ==
  CASE m.str[s].state \notin Counted -> NewAuto(m, s, cap)
    [] m.str[s].state \in Counted /\ ~Unique(m, s) -> NewAuto(m, s, cap)
    [] m.str[s].state \in Counted /\ Unique(m, s) /\ BlockSize(m, s) < cap ->
         NewAuto(FreeBuffer(m, m.str[s]), s, cap)
    [] OTHER -> PointTo(m, s, 0)
ReserveDrop(m, s, cap) ==
  CASE m.str[s].state \notin Counted -> NewAuto(m, s, cap)
    [] m.str[s].state \in Counted /\ ~Unique(m, s) ->
         NewAuto(DecRef(m, m.str[s].blk), s, cap)
    [] m.str[s].state \in Counted /\ Unique(m, s) /\ BlockSize(m, s) < cap ->
         NewAuto(FreeBuffer(m, m.str[s]), s, cap)
    [] OTHER -> PointTo(m, s, 0)

(***************************************************************************)
(* _reserve_middle splits a string at pos: rem characters after pos go,    *)
(* ins characters of room appear in their place.                           *)
(***************************************************************************)
Front(p, pos) == Slice(p, 0, pos)
Back(p, pos)  == Slice(p, pos, p.len)

ReserveMiddleNew(m, s, pos, rem, ins) ==
  LET old == m.str[s]
      m1  == NewAuto(m, s, old.len + ins - rem)
      m2  == Put(m1, s, 0, Read(m1, Front(old, pos)))
  IN  Put(m2, s, pos + ins, Read(m2, Back(old, pos + rem)))

NewInternalFromSsoMiddle(m, s, pos, rem, ins) ==
  LET old  == m.str[s]
      m1   == NewBuffer(m, s, old.len + ins - rem)
      m2   == Put(m1, s, 0, Read(m, Front(old, pos)))
  IN  Put(m2, s, pos + ins, Read(m, Back(old, pos + rem)))

ShiftTail(m, s, pos, rem, ins) ==
  Put(m, s, pos + ins, Read(m, Back(m.str[s], pos + rem)))
ShiftHead(m, s, pos, extra) ==
  PointTo(Put(m, s, -extra, Read(m, Front(m.str[s], pos))), s, m.str[s].off - extra)

ReserveMiddleMove(m, s, pos, rem, ins) ==
  LET p         == m.str[s]
      extra     == ins - rem
      headSpace == p.off >= extra
      tailSpace == CapacityTail(m, s) - p.len >= extra
      tailShort == pos > p.len - pos - rem
      m1        == PutAt(m, p.blk, 0, Read(m, Front(p, pos)))
      toStart   == PutAt(m1, p.blk, pos + ins, Read(m1, Back(p, pos + rem)))
  IN  CASE extra <= 0                            -> ShiftTail(m, s, pos, rem, ins)
        [] extra > 0 /\ tailSpace /\ (~headSpace \/ tailShort) -> ShiftTail(m, s, pos, rem, ins)
        [] extra > 0 /\ headSpace /\ (~tailSpace \/ ~tailShort) -> ShiftHead(m, s, pos, extra)
        [] OTHER                                 -> PointTo(toStart, s, 0)

ReserveMiddle(m, s, pos, rem, ins) ==
  LET p      == m.str[s]
      newlen == p.len + ins - rem
      split  ==
        CASE p.state \in Counted /\ ~Unique(m, s) ->
               ReserveMiddleNew(DecRef(m, p.blk), s, pos, rem, ins)
          [] p.state \in Counted /\ Unique(m, s) /\ newlen > BlockSize(m, s) ->
               ReleaseBuffer(ReserveMiddleNew(m, s, pos, rem, ins), p)
          [] p.state = "LITERAL" -> ReserveMiddleNew(m, s, pos, rem, ins)
          [] p.state = "SSO" /\ newlen > MaxSso -> NewInternalFromSsoMiddle(m, s, pos, rem, ins)
          [] OTHER -> ReserveMiddleMove(m, s, pos, rem, ins)
  IN  SetLen(split, s, newlen)
=============================================================================
