----------------------------- MODULE CowString -----------------------------
(***************************************************************************)
(* panda::basic_string: string objects that share reference counted        *)
(* buffers and copy them on write (panda/basic_string.h).                  *)
(*                                                                         *)
(* One action per public operation.  The memory operators come from        *)
(* CowStorage; next to the memory every action takes the step the same     *)
(* call is on StringValue, so that variable val says what each object      *)
(* should read as, and ValueSemantics that it does.                        *)
(***************************************************************************)
EXTENDS CowStorage

CONSTANTS
  MaxLen,    \* bound: no operation makes a string longer than this
  Spans,     \* the <<position, count>> pairs used as arguments
  Reserves,  \* the capacities passed to reserve
  Gone       \* the value of an object that is not constructed

VARIABLES str, mem, ctl, held, val
vars == <<str, mem, ctl, held, val>>

Chars == UNION { {LitText[l][i] : i \in 1..Len(LitText[l])} : l \in Literals }
Texts == {LitText[l] : l \in Literals}
Std   == INSTANCE StringValue

Assumptions ==
  /\ IsFiniteSet(Strings)
  /\ Tmp \notin Strings
  /\ Terminal \in Literals
  /\ (Objs \cup Literals) \cap Buffers = {}
  /\ Objs \cap Literals = {}
  /\ \A l \in Literals : LitText[l] \in Seq(Chars)
  /\ LitText[Terminal] = <<>> /\ Gone \notin Seq(Chars)
  /\ Spans \subseteq Nat \X Nat /\ Reserves \subseteq Nat
  /\ MaxSso \in Nat /\ MaxLen \in Nat /\ ExtSize \in Nat
  /\ Counted \cap Ext = {} /\ NoDtor \notin Ext /\ NoExt \notin Ext
  /\ \A s \in Objs : AllocOf[s] \notin Ext
ASSUME CowStringAssumption == Assumptions

Memory == [str |-> str, mem |-> mem, ctl |-> ctl, held |-> held]

Init ==
  /\ str  = [s \in Objs |-> Void]
  /\ ctl  = [b \in Buffers |-> FreeCtl]
  /\ held = [e \in Ext |-> FALSE]
  /\ mem  = [k \in Objs \cup Literals \cup Buffers |->
               IF k \in Literals THEN Append(LitText[k], NUL) ELSE <<>>]
  /\ Std!Init

(***************************************************************************)
(* No operation reads a character outside every string's window            *)
(* [_str, _str + _length) (a string grows by writing what it grows over),  *)
(* so what is left there is forgotten after every operation.               *)
(***************************************************************************)
Covered(m, k, i) ==
  \E s \in Strings : /\ m.str[s].state # "NONE"
                     /\ m.str[s].blk = k
                     /\ i - m.str[s].off \in 1..m.str[s].len
Settled(m) ==
  [k \in Objs \cup Literals \cup Buffers |->
     IF k \in Literals THEN m.mem[k]
     ELSE [i \in DOMAIN m.mem[k] |-> IF Covered(m, k, i) THEN m.mem[k][i] ELSE Junk]]

Becomes(m) == str' = m.str /\ ctl' = m.ctl /\ held' = m.held /\ mem' = Settled(m)

Alive(s) == str[s].state # "NONE"
View(s)  == Read(Memory, str[s])

(***************************************************************************)
(* Construction, assignment, destruction.                                  *)
(***************************************************************************)
FromLiteral(m, s, l) == [m EXCEPT !.str[s] = LiteralRec(l)]
AssignChars(m, s, l) ==
  SetLen(Put(ReserveDrop(m, s, Len(LitText[l])), s, 0, LitText[l]), s, Len(LitText[l]))

NewLiteral(s, l) ==
  /\ ~Alive(s) /\ Std!Construct(s, LitText[l])
  /\ Becomes(FromLiteral(Memory, s, l))

NewChars(s, l) ==
  /\ ~Alive(s) /\ Std!Construct(s, LitText[l])
  /\ Becomes(Put(SetLen(NewAuto(Memory, s, Len(LitText[l])), s, Len(LitText[l])), s, 0, LitText[l]))

AdoptNew(s, e, l) ==
  /\ ~held[e] /\ Len(LitText[l]) <= ExtSize
  /\ ~Alive(s) /\ Std!Construct(s, LitText[l])
  /\ Becomes(NewExternal(Memory, s, e, l))

(* Copy constructor, substr.                                               *)
NewCopy(s, t, pos, n) ==
  /\ Alive(t) /\ pos <= str[t].len
  /\ ~Alive(s) /\ Std!Construct(s, Std!Sub(val[t], pos, n))
  /\ Becomes(CowOffset(Memory, s, t, pos, n))

NewMoved(s, t) ==
  /\ s # t /\ ~Alive(s) /\ Alive(t)
  /\ Std!MoveTo(s, t)
  /\ Becomes(MoveFrom(Memory, s, t))

Destruct(s) ==
  /\ Alive(s) /\ Std!Destroy(s)
  /\ Becomes(Release(Memory, s))

SetLiteral(s, l) ==
  /\ Alive(s) /\ Std!Assign(s, LitText[l])
  /\ Becomes(FromLiteral(Release(Memory, s), s, l))

SetChars(s, l) ==
  /\ Alive(s) /\ Std!Assign(s, LitText[l])
  /\ Becomes(AssignChars(Memory, s, l))

AssignExternal(m, s, e, l) ==
  IF m.str[s].state # "EXTERNAL" \/ ~Unique(m, s)
  THEN NewExternal(Release(m, s), s, e, l)
  ELSE ReplaceExternal(m, s, e, l)

Adopt(s, e, l) ==
  /\ ~held[e] /\ Len(LitText[l]) <= ExtSize
  /\ Alive(s) /\ Std!Assign(s, LitText[l])
  /\ Becomes(AssignExternal(Memory, s, e, l))

(* assign(source, pos, length); on itself this is offset(pos, length).  A  *)
(* position past the source throws and is not part of this module.         *)
AssignSub(m, s, t, pos, n) ==
  IF s = t
  THEN SetLen(PointTo(m, s, m.str[s].off + pos), s, Slice(m.str[s], pos, n).len)
  ELSE CowOffset(Release(m, s), s, t, pos, n)

Copy(s, t, pos, n) ==
  /\ Alive(t) /\ pos <= str[t].len
  /\ Alive(s) /\ Std!Assign(s, Std!Sub(val[t], pos, n))
  /\ Becomes(AssignSub(Memory, s, t, pos, n))

Move(s, t) ==
  /\ s # t /\ Alive(s) /\ Alive(t)
  /\ Std!MoveTo(s, t)
  /\ Becomes(MoveFrom(Release(Memory, s), s, t))

Exchange(s, t) ==
  /\ s # t /\ Alive(s) /\ Alive(t)
  /\ Std!Swap(s, t)
  /\ Becomes(SwapStorage(Memory, s, t))

(***************************************************************************)
(* Operations that change the value in place.                              *)
(***************************************************************************)
AppendChars(m, s, src) ==
  IF src.len = 0 THEN m
  ELSE LET at == m.str[s].len
           m1 == ReserveSave(m, s, at + src.len, "grow")
       IN  SetLen(Put(m1, s, at, Read(m1, src)), s, at + src.len)

(* append(str, pos, count): str._str is read after the reservation, str    *)
(* may be the string itself; the variant reads it before.                  *)
AppendStringStale(m, s, t, pos, n) ==
  LET at  == m.str[s].len
      src == Slice(m.str[t], pos, n)
      m1  == ReserveSave(m, s, at + src.len, "grow")
  IN  IF src.len = 0 THEN m ELSE SetLen(Put(m1, s, at, Read(m1, src)), s, at + src.len)
AppendString(m, s, t, pos, n) ==
  LET at  == m.str[s].len
      cnt == Slice(m.str[t], pos, n).len
      m1  == ReserveSave(m, s, at + cnt, "grow")
      src == [m1.str[t] EXCEPT !.off = @ + pos, !.len = cnt]
  IN  IF cnt = 0 THEN m ELSE SetLen(Put(m1, s, at, Read(m1, src)), s, at + cnt)

EraseInPlace(m, s, pos, n) ==
  LET rest == Read(m, Back(m.str[s], pos + n))
      left == m.str[s].len - n
  IN  IF pos >= left - pos
      THEN Put(m, s, pos, rest)
      ELSE PointTo(Put(m, s, n, Read(m, Front(m.str[s], pos))), s, m.str[s].off + n)

EraseElsewhere(m, s, pos, n) ==
  LET old == m.str[s]
      m1  == NewAuto(IF old.state \in Counted THEN DecRef(m, old.blk) ELSE m, s, old.len - n)
  IN  Put(Put(m1, s, 0, Read(m1, Front(old, pos))), s, pos, Read(m1, Back(old, pos + n)))

Erase(m, s, pos, n) ==
  LET p == m.str[s]
  IN  CASE n > p.len - pos -> SetLen(m, s, pos)
        [] n <= p.len - pos /\ pos = 0 -> SetLen(PointTo(m, s, p.off + n), s, p.len - n)
        [] OTHER ->
             IF p.state = "SSO" \/ (p.state \in Counted /\ Unique(m, s))
             THEN SetLen(EraseInPlace(m, s, pos, n), s, p.len - n)
             ELSE SetLen(EraseElsewhere(m, s, pos, n), s, p.len - n)

(* insert(pos, s, count) is replace(pos, 0, s, count).                     *)
Replace(m, s, pos, rem, src) ==
  LET p == m.str[s] IN
  CASE pos = p.len -> AppendChars(m, s, src)
    [] pos < p.len /\ rem >= p.len - pos -> AppendChars(SetLen(m, s, pos), s, src)
    [] pos < p.len /\ rem < p.len - pos /\ src.len = 0 ->
         IF rem = 0 THEN m ELSE Erase(m, s, pos, rem)
    [] OTHER -> LET m1 == ReserveMiddle(m, s, pos, rem, src.len)
                IN  Put(m1, s, pos, Read(m1, src))

(* With itself as the argument the call keeps a copy of itself in tmp.     *)
ReplaceString(m, s, pos, rem, t, pos2, n2) ==
  IF s = t
  THEN LET m1 == Cow(m, Tmp, s, 0, m.str[s].len)
       IN  Release(Replace(m1, s, pos, rem, Slice(m1.str[Tmp], pos2, n2)), Tmp)
  ELSE Replace(m, s, pos, rem, Slice(m.str[t], pos2, n2))

AppendText(s, l) ==
  /\ Alive(s) /\ Std!Edit(s, str[s].len, 0, LitText[l])
  /\ Becomes(AppendChars(Memory, s, Text(l)))

AppendOther(s, t, pos, n) ==
  /\ Alive(t) /\ pos <= str[t].len
  /\ Alive(s) /\ Std!Edit(s, str[s].len, 0, Std!Sub(val[t], pos, n))
  /\ Becomes(AppendString(Memory, s, t, pos, n))

EraseAt(s, pos, n) ==
  /\ pos <= str[s].len
  /\ Alive(s) /\ Std!Edit(s, pos, n, <<>>)
  /\ Becomes(Erase(Memory, s, pos, n))

ReplaceText(s, pos, n, l) ==
  /\ pos <= str[s].len
  /\ Alive(s) /\ Std!Edit(s, pos, n, LitText[l])
  /\ Becomes(Replace(Memory, s, pos, n, Text(l)))

ReplaceOther(s, pos, n, t, pos2, n2) ==
  /\ pos <= str[s].len /\ Alive(t) /\ pos2 <= str[t].len
  /\ Alive(s) /\ Std!Edit(s, pos, n, Std!Sub(val[t], pos2, n2))
  /\ Becomes(ReplaceString(Memory, s, pos, n, t, pos2, n2))

(* resize(count, c) past the end; l is the run of c written there.         *)
ResizeUp(m, s, l) ==
  LET at == m.str[s].len
  IN  SetLen(Put(ReserveSave(m, s, at + Len(LitText[l]), "exact"), s, at, LitText[l]), s,
             at + Len(LitText[l]))

Resize(s, l) ==
  /\ Alive(s) /\ Std!Edit(s, str[s].len, 0, LitText[l]) /\ LitText[l] # <<>>
  /\ Becomes(ResizeUp(Memory, s, l))

(* length(n), resize(n), pop_back and clear for n up to the length.        *)
Truncate(s, n) ==
  /\ n <= str[s].len
  /\ Alive(s) /\ Std!Edit(s, n, MaxLen, <<>>)
  /\ Becomes(SetLen(Memory, s, n))

(* *buf(), operator[] and the non-const iterators: detach, then write.     *)
WriteChar(s, i, l) ==
  /\ i < str[s].len /\ Len(LitText[l]) = 1
  /\ Alive(s) /\ Std!Edit(s, i, 1, LitText[l])
  /\ Becomes(Put(Detach(Memory, s), s, i, LitText[l]))

(***************************************************************************)
(* Operations that change the storage only.                                *)
(***************************************************************************)
ShrinkToFit(m, s) ==
  LET p == m.str[s]
  IN  CASE p.state \in Counted /\ p.len <= MaxSso -> ReleaseBuffer(DetachStr(m, s, p.len), p)
        [] p.state \in Counted /\ p.len > MaxSso /\ BlockSize(m, s) > p.len /\ Unique(m, s) ->
             Realloc(m, s, p.len)
        [] OTHER -> m

(* c_str() makes room for a NUL after the text; the variant is off by one. *)
CStrOffByOne(m, s) ==
  IF m.str[s].state = "LITERAL" THEN m
  ELSE LET len == m.str[s].len
           m1  == IF Capacity(m, s) < len THEN ReserveSave(m, s, len + 1, "exact") ELSE m
       IN  Put(m1, s, len, <<NUL>>)
CStr(m, s) ==
  IF m.str[s].state = "LITERAL" THEN m
  ELSE LET len == m.str[s].len
           m1  == IF Capacity(m, s) <= len THEN ReserveSave(m, s, len + 1, "exact") ELSE m
       IN  Put(m1, s, len, <<NUL>>)

Reserve(s, cap)  == Alive(s) /\ Std!Keep(s) /\ Becomes(ReserveSave(Memory, s, cap, "exact"))
Shrink(s)        == Alive(s) /\ Std!Keep(s) /\ Becomes(ShrinkToFit(Memory, s))
CallCStr(s)      == Alive(s) /\ Std!Keep(s) /\ Becomes(CStr(Memory, s))
Buf(s)           == Alive(s) /\ Std!Keep(s) /\ Becomes(Detach(Memory, s))
SharedBuf(s)     == Alive(s) /\ Std!Keep(s) /\ Becomes(SharedDetach(Memory, s))

(***************************************************************************)
(* One call at a time: the strings are not thread safe.  An operation      *)
(* allocates at most one buffer; the pool of buffers bounds the heap, and  *)
(* a full pool leaves the destructor only.                                 *)
(***************************************************************************)
HeapHasRoom == FreeBuffers(Memory) # {}

Constructs(s) ==
  \/ \E l \in Literals : NewLiteral(s, l) \/ NewChars(s, l)
  \/ \E e \in Ext, l \in Literals : AdoptNew(s, e, l)
  \/ \E t \in Strings : \/ NewMoved(s, t)
                        \/ \E c \in Spans : NewCopy(s, t, c[1], c[2])

Assigns(s) ==
  \/ \E l \in Literals : SetLiteral(s, l) \/ SetChars(s, l)
  \/ \E e \in Ext, l \in Literals : Adopt(s, e, l)
  \/ \E t \in Strings : \/ Move(s, t)
                        \/ Exchange(s, t)
                        \/ \E c \in Spans : Copy(s, t, c[1], c[2])

Edits(s) ==
  \/ \E l \in Literals : AppendText(s, l) \/ Resize(s, l)
  \/ \E t \in Strings, c \in Spans : AppendOther(s, t, c[1], c[2])
  \/ \E c \in Spans : EraseAt(s, c[1], c[2])
  \/ \E c \in Spans, l \in Literals : ReplaceText(s, c[1], c[2], l)
  \/ \E c, d \in Spans, t \in Strings : ReplaceOther(s, c[1], c[2], t, d[1], d[2])
  \/ \E n \in 0..MaxLen : Truncate(s, n)
  \/ \E i \in 0..MaxLen, l \in Literals : WriteChar(s, i, l)

Stores(s) ==
  \/ \E cap \in Reserves : Reserve(s, cap)
  \/ Shrink(s) \/ CallCStr(s) \/ Buf(s) \/ SharedBuf(s)

Next ==
  \E s \in Strings :
    \/ Destruct(s)
    \/ HeapHasRoom /\ (Constructs(s) \/ Assigns(s) \/ Edits(s) \/ Stores(s))

Spec == Init /\ [][Next]_vars

(***************************************************************************)
(* Properties.                                                             *)
(***************************************************************************)
Holders(m, b) == {s \in Objs : m.str[s].state \in Counted /\ m.str[s].blk = b}

(* The shape of the state: what each field can hold.                       *)
Allocs == {AllocOf[s] : s \in Objs}
Dtors  == Allocs \cup Ext \cup {NoDtor}
StrRec == [state : States, blk : Objs \cup Literals \cup Buffers, off : Nat, len : Nat, dtor : Dtors]
CtlRec == [refcnt : Nat, alloc : Allocs \cup {NoDtor}, ext : Ext \cup {NoExt}]

TypeOK ==
  /\ str \in [Objs -> StrRec]
  /\ ctl \in [Buffers -> CtlRec]
  /\ held \in [Ext -> BOOLEAN]
  /\ DOMAIN mem = Objs \cup Literals \cup Buffers
  /\ DOMAIN val = Strings

(* A float holds every capacity a call asks for: capacity * extra rounds    *)
(* larger ones, some of them down.                                         *)
Exact ==
  /\ 2^FloatBits \in Nat /\ MaxLen + 1 < 2^FloatBits
  /\ \A cap \in Reserves : cap < 2^FloatBits

(* Every object reads as the value std::string would have after the same   *)
(* calls: writing through one object never shows in another that shares    *)
(* its buffer, and aliased arguments (s.append(s), s.insert(1, s)) work.   *)
ValueSemantics ==
  \A s \in Strings : IF Alive(s) THEN View(s) = val[s] ELSE val[s] = Gone

(* A buffer's refcnt (kept by _cow, _release, _detach_cow, _reserve_save)   *)
(* is the number of objects that point to it: none is freed in use, none is *)
(* leaked, none is freed twice.                                            *)
RefcntIsHolders == \A b \in Buffers : ctl[b].refcnt = Cardinality(Holders(Memory, b))

(* Each object's window [_str, _str + _length) lies inside the block it    *)
(* points to, and that block is the kind its _state says.                  *)
WindowInBlock ==
  \A s \in Strings : Alive(s) =>
    /\ str[s].off >= 0 /\ str[s].len >= 0
    /\ str[s].off + str[s].len <= Len(mem[str[s].blk])
    /\ CASE str[s].state = "LITERAL"  -> str[s].blk \in Literals
         [] str[s].state = "SSO"      -> str[s].blk = s /\ Len(mem[s]) = MaxSso
         [] str[s].state = "INTERNAL" -> str[s].blk \in Buffers /\ ctl[str[s].blk].ext = NoExt
         [] str[s].state = "EXTERNAL" -> str[s].blk \in Buffers /\ ctl[str[s].blk].ext \in Ext

(* The deallocator an object carries in _storage.dtor is the one its       *)
(* buffer needs, also after strings of different Alloc exchanged buffers.  *)
DtorMatches ==
  \A s \in Strings :
    /\ str[s].state = "INTERNAL" => str[s].dtor = ctl[str[s].blk].alloc
    /\ str[s].state = "EXTERNAL" => str[s].dtor = ctl[str[s].blk].ext

(* User memory is given back to its destructor exactly when the last       *)
(* string over it has gone, and belongs to one control block meanwhile.    *)
ExternalOwnedOnce ==
  \A e \in Ext :
    Cardinality({b \in Buffers : ctl[b].refcnt > 0 /\ ctl[b].ext = e}) = IF held[e] THEN 1 ELSE 0

(* Literal data is never written: operations detach from it first.         *)
LiteralsIntact == \A l \in Literals : mem[l] = Append(LitText[l], NUL)

(* c_str() of a string that is not a literal ends in NUL at _str[_length]. *)
CStrTerminated ==
  \A s \in Strings : Alive(s) /\ HeapHasRoom /\ str[s].state # "LITERAL" =>
    LET m == CStr(Memory, s)
    IN  Cell(m, m.str[s].blk, m.str[s].off + m.str[s].len + 1) = NUL

(* reserve(n) leaves room for n characters that only this object sees: the *)
(* caller writes them through the returned pointer.                        *)
ReserveGrants ==
  \A s \in Strings, cap \in Reserves : Alive(s) /\ HeapHasRoom =>
    LET m == ReserveSave(Memory, s, cap, "exact") IN Capacity(m, s) >= cap

(* After buf() the object is the only owner of its characters: this is     *)
(* what doc/string.md tells a caller to do before handing a copy to        *)
(* another thread.                                                         *)
BufIsSoleOwner ==
  \A s \in Strings : Alive(s) /\ HeapHasRoom =>
    LET m == Detach(Memory, s)
    IN  /\ m.str[s].state # "LITERAL"
        /\ m.str[s].state \in Counted => Holders(m, m.str[s].blk) = {s}

(* What the objects read as changes as strings of type std::string do:     *)
(* each step is an operation of StringValue, with its arguments, on those  *)
(* values.                                                                 *)
Abs == INSTANCE StringValue
         WITH val <- [s \in Strings |-> IF Alive(s) THEN View(s) ELSE Gone]
ImplementsStringValue == Abs!Spec
=============================================================================
