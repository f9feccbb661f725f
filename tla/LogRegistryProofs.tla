------------------------- MODULE LogRegistryProofs -------------------------
(***************************************************************************)
(* LogRegistry for any threads, modules and loggers.                       *)
(*                                                                         *)
(* First the protocol of the revisions (RevInv): a copy with the current   *)
(* revision is current, and nobody who asks after a change is answered     *)
(* from before it; and the loggers that threads run (LoggersInv).  Then    *)
(* the tree of modules, its data and the messages on their way up in it    *)
(* (RegistryInv), which rests on RevInv: what is in effect for a module is *)
(* what its nearest ancestor has, and a message finds its data.            *)
(***************************************************************************)
EXTENDS LogRegistry, FiniteSetTheorems, SequenceTheorems, WellFoundedInduction, TLAPS

(* A change in progress has moved the revision beyond every copy, so that  *)
(* what is copied once it is over is what counts.                          *)
IsRecord(d) == {"rev", "map", "program"} \subseteq DOMAIN d
DataInv ==
  /\ IsRecord(src) /\ src.rev \in Nat
  /\ cache = [t \in Threads |-> cache[t]]
  /\ \A t \in Threads : /\ cache[t].rev \in Nat /\ cache[t].rev <= src.rev
                        /\ mtx # Null => cache[t].rev < src.rev
  /\ EffectIsCurrent

(* Who is in the middle of a change holds the mutex and does nothing else; *)
(* a call uses a revision between the one it began with and the thread's.  *)
Elements(s) == {s[i] : i \in DOMAIN s}
IsCall(c) == {"op", "at", "mod", "arg", "since", "rev", "logger", "formatter"} \subseteq DOMAIN c
Holding(c) == c.at \in {"enter", "change"}
CallOK(c, now, own) ==
  /\ IsCall(c) /\ c.since \in Nat /\ c.since <= now
  /\ c.at = "logger" => c.rev \in Nat /\ c.since <= c.rev /\ c.rev <= own
CallsInv ==
  /\ calls = [t \in Threads |-> calls[t]]
  /\ \A t \in Threads :
       /\ calls[t] \in Seq(Elements(calls[t]))
       /\ \A i \in DOMAIN calls[t] :
            /\ CallOK(calls[t][i], src.rev, cache[t].rev)
            /\ Holding(calls[t][i]) => mtx = t /\ i = Len(calls[t])

RevInv == DataInv /\ CallsInv

(***************************************************************************)
(* Sequences with something more, or something else, at the end.           *)
(***************************************************************************)
LEMMA Lengths ==
  /\ \A n \in Nat : n <= 1 => n = 0 \/ n = 1
  /\ \A n \in Nat \ {0} : /\ n - 1 \in Int /\ (n - 1) - 1 + 1 = n - 1
                        /\ (IF 1 <= n - 1 THEN (n - 1) - 1 + 1 ELSE 0) = n - 1
                        /\ \A i \in 1..(n - 1) : i \in 1..n /\ 1 + i - 1 = i
  OBVIOUS

(* A sequence is one over the set of its own elements.                     *)
LEMMA ElementsSeq ==
  ASSUME NEW S, NEW s \in Seq(S)
  PROVE  s \in Seq(Elements(s)) /\ DOMAIN s = 1..Len(s) /\ Len(s) \in Nat
  <1>1. s \in [1..Len(s) -> S] /\ DOMAIN s = 1..Len(s) /\ Len(s) \in Nat
    BY LenProperties
  <1>2. s \in [1..Len(s) -> Elements(s)]
    BY <1>1 DEF Elements
  <1>3. QED
    BY <1>1, <1>2, SeqDef

(* One element more, or none, after a sequence.                            *)
LEMMA Pushed ==
  ASSUME NEW s, s \in Seq(Elements(s)), NEW cs, cs \in Seq(Elements(cs)), Len(cs) <= 1,
         NEW r, r = s \o cs
  PROVE  /\ r \in Seq(Elements(r))
         /\ DOMAIN r = 1..Len(r) /\ Len(r) = Len(s) + Len(cs)
         /\ \A i \in 1..Len(s) : r[i] = s[i]
         /\ cs # <<>> => r[Len(r)] = cs[1]
  <1>1. s \in Seq(Elements(s) \cup Elements(cs)) /\ cs \in Seq(Elements(s) \cup Elements(cs))
    BY SeqMonotonic
  <1>2. /\ r \in Seq(Elements(s) \cup Elements(cs)) /\ Len(r) = Len(s) + Len(cs)
        /\ \A i \in 1..(Len(s) + Len(cs)) : r[i] = IF i <= Len(s) THEN s[i] ELSE cs[i - Len(s)]
    BY <1>1, ConcatProperties
  <1>3. Len(s) \in Nat /\ Len(cs) \in Nat
    BY LenProperties
  <1>4. r \in Seq(Elements(r)) /\ DOMAIN r = 1..Len(r)
    BY <1>2, ElementsSeq
  <1>5. cs # <<>> => Len(cs) = 1
    <2>1. Len(cs) = 0 => cs = <<>>
      BY EmptySeq
    <2>2. QED
      BY <1>3, <2>1, Lengths, Zenon
  <1>6. QED
    BY <1>2, <1>3, <1>4, <1>5

(* A sequence without its last element.                                    *)
LEMMA FrontSeq ==
  ASSUME NEW s, s \in Seq(Elements(s)), s # <<>>
  PROVE  /\ Front(s) \in Seq(Elements(s)) /\ Len(Front(s)) = Len(s) - 1
         /\ \A i \in 1..(Len(s) - 1) : Front(s)[i] = s[i]
  <1>1. Len(s) \in Nat \ {0} /\ \A i \in 1..Len(s) : s[i] \in Elements(s)
    BY EmptySeq, ElementOfSeq
  <1>2. /\ Len(s) - 1 \in Int /\ (Len(s) - 1) - 1 + 1 = Len(s) - 1
        /\ (IF 1 <= Len(s) - 1 THEN (Len(s) - 1) - 1 + 1 ELSE 0) = Len(s) - 1
        /\ \A i \in 1..(Len(s) - 1) : i \in 1..Len(s) /\ 1 + i - 1 = i
    BY <1>1, Lengths, Zenon
  <1>3. 1 \in Int /\ \A i \in 1..(Len(s) - 1) : s[i] \in Elements(s)
    BY <1>1, <1>2
  <1>4. /\ SubSeq(s, 1, Len(s) - 1) \in Seq(Elements(s))
        /\ Len(SubSeq(s, 1, Len(s) - 1)) = IF 1 <= Len(s) - 1 THEN (Len(s) - 1) - 1 + 1 ELSE 0
        /\ \A i \in 1..((Len(s) - 1) - 1 + 1) : SubSeq(s, 1, Len(s) - 1)[i] = s[1 + i - 1]
    BY <1>2, <1>3, SubSeqProperties
  <1>5. \A i \in 1..(Len(s) - 1) : SubSeq(s, 1, Len(s) - 1)[i] = s[i]
    BY <1>2, <1>4, Zenon
  <1>6. QED
    BY <1>2, <1>4, <1>5, Zenon DEF Front

(***************************************************************************)
(* Every step ends with one call less, changed or more in one thread.      *)
(* Meanwhile the revisions only grow, and only who has the mutex gives it  *)
(* back.                                                                   *)
(***************************************************************************)
Grows(t) ==
  /\ mtx' = mtx \/ mtx \in {Null, t}
  /\ src'.rev \in Nat /\ src.rev <= src'.rev
  /\ \A u \in Threads : cache'[u].rev \in Nat /\ cache[u].rev <= cache'[u].rev

(* What the step makes of a stack, without the sequence that it pushes.    *)
IsSequence(s) == s \in Seq(Elements(s))
Extends(s, cs, r) ==
  /\ r \in Seq(Elements(r)) /\ DOMAIN r = 1..Len(r) /\ Len(r) = Len(s) + Len(cs)
  /\ \A i \in 1..Len(s) : r[i] = s[i]
  /\ cs # <<>> => r[Len(r)] = cs[1]
LEMMA PushedExtends ==
  ASSUME NEW s, IsSequence(s), NEW cs, IsSequence(cs), Len(cs) <= 1, NEW r, r = s \o cs
  PROVE  Extends(s, cs, r)
  <1>1. s \in Seq(Elements(s)) /\ cs \in Seq(Elements(cs))
    BY DEF IsSequence
  <1>2. r \in Seq(Elements(r)) /\ DOMAIN r = 1..Len(r) /\ Len(r) = Len(s) + Len(cs)
    BY <1>1, Pushed
  <1>3. \A i \in 1..Len(s) : r[i] = s[i]
    BY <1>1, Pushed
  <1>4. cs # <<>> => r[Len(r)] = cs[1]
    BY <1>1, Pushed
  <1>5. QED
    BY <1>2, <1>3, <1>4 DEF Extends

(* Such a step keeps every call in order if it keeps the one it made.      *)
LEMMA CallsStep ==
  ASSUME ThreadsAssumption, RevInv, NEW t \in Threads,
         NEW cs, cs \in Seq(Elements(cs)), Len(cs) <= 1,
         Begins(t, cs) \/ (calls[t] # <<>> /\ Becomes(t, cs)),
         Grows(t), cs # <<>> => CallOK(cs[1], src'.rev, cache'[t].rev) /\ (Holding(cs[1]) => mtx' = t)
  PROVE  CallsInv'
  <1> USE DEF Grows
  <1>1. \A u \in Threads : calls[u] \in Seq(Elements(calls[u])) /\ DOMAIN calls[u] = 1..Len(calls[u])
                           /\ Len(calls[u]) \in Nat
    BY ElementsSeq DEF RevInv, CallsInv
  <1>2. \E base : /\ base \in Seq(Elements(base)) /\ calls' = [calls EXCEPT ![t] = base \o cs]
                  /\ \A i \in 1..Len(base) : /\ i \in DOMAIN calls[t] /\ base[i] = calls[t][i]
                                             /\ ~Holding(calls[t][i])
    <2>1. CASE Begins(t, cs)
      <3>1. calls' = [calls EXCEPT ![t] = calls[t] \o cs]
        BY <2>1 DEF Begins
      <3>2. ASSUME NEW i \in 1..Len(calls[t])
            PROVE  i \in DOMAIN calls[t] /\ ~Holding(calls[t][i])
        <4>1. i \in DOMAIN calls[t] /\ calls[t] # <<>>
          BY <1>1, EmptySeq
        <4>2. calls[t][Len(calls[t])].at = "logger"
          BY <2>1, <4>1 DEF Begins, Free, Top, Last
        <4>3. Holding(calls[t][i]) => i = Len(calls[t])
          BY <4>1 DEF RevInv, CallsInv
        <4>4. QED
          BY <4>1, <4>2, <4>3 DEF Holding
      <3>3. QED
        BY <1>1, <3>1, <3>2
    <2>2. CASE calls[t] # <<>> /\ Becomes(t, cs)
      <3>1. PICK base : base = Front(calls[t])
        OBVIOUS
      <3>2. /\ Front(calls[t]) \in Seq(Elements(calls[t])) /\ Len(Front(calls[t])) = Len(calls[t]) - 1
            /\ \A i \in 1..(Len(calls[t]) - 1) : Front(calls[t])[i] = calls[t][i]
        BY <1>1, <2>2, FrontSeq
      <3>3. base \in Seq(Elements(base)) /\ calls' = [calls EXCEPT ![t] = base \o cs]
        BY <2>2, <3>1, <3>2, ElementsSeq DEF Becomes
      <3>4. ASSUME NEW i \in 1..Len(base)
            PROVE  i \in DOMAIN calls[t] /\ base[i] = calls[t][i] /\ ~Holding(calls[t][i])
        <4>1. i \in 1..(Len(calls[t]) - 1)
          BY <3>1, <3>2
        <4>2. i \in 1..Len(calls[t]) /\ i # Len(calls[t])
          BY <1>1, <4>1, Lengths
        <4>3. QED
          BY <1>1, <3>1, <3>2, <4>1, <4>2 DEF RevInv, CallsInv
      <3>5. QED
        BY <3>3, <3>4
    <2>3. QED
      BY <2>1, <2>2
  <1>3. PICK base : /\ base \in Seq(Elements(base)) /\ calls' = [calls EXCEPT ![t] = base \o cs]
                    /\ \A i \in 1..Len(base) : /\ i \in DOMAIN calls[t] /\ base[i] = calls[t][i]
                                               /\ ~Holding(calls[t][i])
    BY <1>2
  <1>4. PICK r : r = base \o cs
    OBVIOUS
  <1>5. /\ r \in Seq(Elements(r)) /\ DOMAIN r = 1..Len(r) /\ Len(r) = Len(base) + Len(cs)
        /\ \A i \in 1..Len(base) : r[i] = base[i]
        /\ cs # <<>> => r[Len(r)] = cs[1]
    <2>1. IsSequence(base) /\ IsSequence(cs)
      BY <1>3 DEF IsSequence
    <2>2. Extends(base, cs, r)
      BY <1>4, <2>1, PushedExtends
    <2>3. QED
      BY <2>2 DEF Extends
  <1>6. /\ calls' = [u \in Threads |-> calls'[u]] /\ calls'[t] = r
        /\ \A u \in Threads \ {t} : calls'[u] = calls[u]
    BY <1>3, <1>4 DEF RevInv, CallsInv
  <1>7. ASSUME NEW u \in Threads \ {t}, NEW i \in DOMAIN calls[u]
        PROVE  /\ CallOK(calls[u][i], src'.rev, cache'[u].rev)
               /\ Holding(calls[u][i]) => mtx' = u /\ i = Len(calls[u])
    <2>1. /\ CallOK(calls[u][i], src.rev, cache[u].rev)
          /\ Holding(calls[u][i]) => mtx = u /\ i = Len(calls[u])
      BY DEF RevInv, CallsInv
    <2>2. CallOK(calls[u][i], src'.rev, cache'[u].rev)
      BY <2>1 DEF CallOK, RevInv, DataInv
    <2>3. mtx = u => mtx' = u
      BY DEF ThreadsAssumption
    <2>4. QED
      BY <2>1, <2>2, <2>3
  <1>8. ASSUME NEW i \in DOMAIN r
        PROVE  /\ CallOK(r[i], src'.rev, cache'[t].rev)
               /\ Holding(r[i]) => mtx' = t /\ i = Len(r)
    <2>1. CASE i \in 1..Len(base)
      <3>1. CallOK(calls[t][i], src.rev, cache[t].rev) /\ r[i] = calls[t][i] /\ ~Holding(r[i])
        BY <1>3, <1>5, <2>1 DEF RevInv, CallsInv
      <3>2. QED
        BY <3>1 DEF CallOK, RevInv, DataInv
    <2>2. CASE i \notin 1..Len(base)
      <3>1. Len(base) \in Nat /\ Len(cs) \in Nat /\ (Len(cs) = 0 => cs = <<>>)
        BY <1>3, ElementsSeq, EmptySeq
      <3>2. i \in 1..(Len(base) + Len(cs))
        BY <1>5
      <3>3. i = Len(base) + Len(cs) /\ Len(cs) # 0
        BY <2>2, <3>1, <3>2
      <3>4. cs # <<>> /\ r[i] = cs[1] /\ i = Len(r)
        BY <1>5, <3>1, <3>3, EmptySeq
      <3>5. QED
        BY <3>4
    <2>3. QED
      BY <2>1, <2>2
  <1>9. ASSUME NEW u \in Threads
        PROVE  /\ calls'[u] \in Seq(Elements(calls'[u]))
               /\ \A i \in DOMAIN calls'[u] :
                    /\ CallOK(calls'[u][i], src'.rev, cache'[u].rev)
                    /\ Holding(calls'[u][i]) => mtx' = u /\ i = Len(calls'[u])
    <2>1. CASE u = t
      <3>1. calls'[u] = r
        BY <1>6, <2>1
      <3>2. QED
        BY <1>5, <1>8, <2>1, <3>1
    <2>2. CASE u # t
      <3>1. calls'[u] = calls[u] /\ u \in Threads \ {t}
        BY <1>6, <2>2
      <3>2. QED
        BY <1>1, <1>7, <3>1
    <2>3. QED
      BY <2>1, <2>2
  <1>10. QED
    BY <1>6, <1>9 DEF CallsInv, Elements

(* At most one call, in a form that the steps below can cite.              *)
LEMMA OneCall ==
  /\ <<>> \in Seq(Elements(<<>>)) /\ Len(<<>>) <= 1
  /\ \A c : <<c>> \in Seq(Elements(<<c>>)) /\ Len(<<c>>) <= 1 /\ <<c>> # <<>> /\ <<c>>[1] = c
  <1>1. ASSUME NEW c
        PROVE  <<c>> \in Seq(Elements(<<c>>)) /\ Len(<<c>>) <= 1 /\ <<c>> # <<>> /\ <<c>>[1] = c
    <2>1. <<c>> \in Seq({c}) /\ <<c>>[1] = c /\ Len(<<c>>) = 1
      OBVIOUS
    <2>2. PICK s : s = <<c>>
      OBVIOUS
    <2>3. s \in Seq({c})
      BY <2>1, <2>2
    <2>4. s \in Seq(Elements(s))
      BY <2>3, ElementsSeq
    <2>5. QED
      BY <2>1, <2>2, <2>4
  <1>2. <<>> \in Seq(Elements(<<>>)) /\ Len(<<>>) <= 1
    OBVIOUS
  <1>3. QED
    BY <1>1, <1>2

(* The innermost call of a thread.                                         *)
LEMMA TopOK ==
  ASSUME RevInv, NEW t \in Threads, calls[t] # <<>>
  PROVE  CallOK(Top(t), src.rev, cache[t].rev) /\ (Holding(Top(t)) => mtx = t)
  <1>1. calls[t] \in Seq(Elements(calls[t])) /\ DOMAIN calls[t] = 1..Len(calls[t])
    BY ElementsSeq DEF RevInv, CallsInv
  <1>2. Len(calls[t]) \in DOMAIN calls[t]
    BY <1>1, EmptySeq
  <1>3. QED
    BY <1>2 DEF RevInv, CallsInv, Top, Last

(* A call that begins is well formed and uses no logger yet.               *)
LEMMA NewCallOK ==
  ASSUME RevInv, NEW op, NEW at, NEW m, NEW arg, at # "logger", NEW now \in Nat, src.rev <= now, NEW own
  PROVE  /\ CallOK(Call(op, at, m, arg), now, own)
         /\ Holding(Call(op, at, m, arg)) => at \in {"enter", "change"}
  BY DEF RevInv, DataInv, CallOK, IsCall, Call, Holding

(* A call that goes on with another step, or for another module.           *)
LEMMA GoesOnOK ==
  ASSUME NEW c, NEW now \in Nat, NEW own, CallOK(c, now, own), NEW later \in Nat, now <= later, NEW at,
         at # "logger", NEW other
  PROVE  CallOK([c EXCEPT !.at = at], later, other) /\ [c EXCEPT !.at = at].at = at
  BY DEF CallOK, IsCall

(* The same, for another module as well.                                   *)
LEMMA GoesToOK ==
  ASSUME NEW c, NEW now \in Nat, NEW own, CallOK(c, now, own), NEW later \in Nat, now <= later, NEW at, NEW m,
         at # "logger", NEW other
  PROVE  CallOK([c EXCEPT !.at = at, !.mod = m], later, other) /\ [c EXCEPT !.at = at, !.mod = m].at = at
  BY DEF CallOK, IsCall

(* What do_log does next uses the revision of the data it was given.       *)
LEMMA RouteOK ==
  ASSUME NEW c, NEW now \in Nat, NEW own0, CallOK(c, now, own0), NEW m, NEW data, NEW own \in Nat,
         data.rev \in Nat, c.since <= data.rev, data.rev <= own
  PROVE  /\ Route(c, m, data) \in Seq(Elements(Route(c, m, data))) /\ Len(Route(c, m, data)) <= 1
         /\ Route(c, m, data) # <<>> => /\ CallOK(Route(c, m, data)[1], now, own)
                                        /\ ~Holding(Route(c, m, data)[1])
  <1> DEFINE fails == [c EXCEPT !.at = "threw"]
             goes  == [c EXCEPT !.at = "logger", !.mod = m, !.rev = data.rev,
                                !.logger = data.map[m].logger.eff, !.formatter = data.map[m].formatter.eff]
  <1>1. Route(c, m, data) \in {<<>>, <<fails>>, <<goes>>}
    BY DEF Route
  <1>2. CallOK(fails, now, own) /\ ~Holding(fails)
    BY DEF CallOK, IsCall, Holding
  <1>3. CallOK(goes, now, own) /\ ~Holding(goes)
    BY DEF CallOK, IsCall, Holding
  <1> HIDE DEF fails, goes
  <1>4. QED
    BY <1>1, <1>2, <1>3, OneCall

(* The two ways a step leaves the calls of its thread.                     *)
LEMMA OneStays ==
  ASSUME ThreadsAssumption, RevInv, NEW t \in Threads, Grows(t), NEW c,
         Begins(t, <<c>>) \/ (calls[t] # <<>> /\ Becomes(t, <<c>>)),
         CallOK(c, src'.rev, cache'[t].rev), Holding(c) => mtx' = t
  PROVE  CallsInv'
  <1>1. PICK cs : cs = <<c>>
    OBVIOUS
  <1>2. cs \in Seq(Elements(cs)) /\ Len(cs) <= 1 /\ cs[1] = c
    BY <1>1, OneCall
  <1>3. Begins(t, cs) \/ (calls[t] # <<>> /\ Becomes(t, cs))
    BY <1>1
  <1>4. QED
    BY <1>2, <1>3, CallsStep

(* The step ends its innermost call.                                       *)
LEMMA NoneStays ==
  ASSUME ThreadsAssumption, RevInv, NEW t \in Threads, Grows(t), calls[t] # <<>>, Becomes(t, <<>>)
  PROVE  CallsInv'
  <1>1. PICK cs : cs = <<>>
    OBVIOUS
  <1>2. cs \in Seq(Elements(cs)) /\ Len(cs) <= 1
    BY <1>1, OneCall
  <1>3. Becomes(t, cs)
    BY <1>1
  <1>4. QED
    BY <1>1, <1>2, <1>3, CallsStep

(***************************************************************************)
(* The data: nothing changes; or the revision moves beyond every copy.     *)
(***************************************************************************)
LEMMA DataSame ==
  ASSUME RevInv, UNCHANGED <<src, cache, mtx>>
  PROVE  DataInv'
  BY DEF RevInv, DataInv, EffectIsCurrent, HasCurrent

(* The revision is beyond every copy: no copy is current.                  *)
LEMMA DataMoves ==
  ASSUME RevInv, UNCHANGED cache, IsRecord(src'), src'.rev \in Nat,
         src.rev < src'.rev \/ (mtx # Null /\ src.rev <= src'.rev)
  PROVE  DataInv'
  <1>1. \A t \in Threads : cache'[t].rev \in Nat /\ cache'[t].rev < src'.rev
    BY DEF RevInv, DataInv
  <1>2. QED
    BY <1>1 DEF RevInv, DataInv, EffectIsCurrent, HasCurrent

(* A change of the revision alone, or of one other field with it.          *)
LEMMA Moved ==
  ASSUME RevInv, NEW n \in Nat
  PROVE  /\ IsRecord(Bumped(src, n)) /\ Bumped(src, n).rev = src.rev + n
         /\ src.rev + n \in Nat /\ src.rev <= src.rev + n
         /\ \A x : /\ IsRecord([Bumped(src, n) EXCEPT !.map = x])
                   /\ [Bumped(src, n) EXCEPT !.map = x].rev = src.rev + n
                   /\ IsRecord([Bumped(src, n) EXCEPT !.program = x])
                   /\ [Bumped(src, n) EXCEPT !.program = x].rev = src.rev + n
  <1>1. IsRecord(src) /\ src.rev \in Nat
    BY DEF RevInv, DataInv
  <1>2. IsRecord(Bumped(src, n)) /\ Bumped(src, n).rev = src.rev + n
    BY <1>1 DEF IsRecord, Bumped
  <1>3. QED
    BY <1>1, <1>2 DEF IsRecord

(* No call changes while nobody takes or gives back the mutex.             *)
LEMMA CallsSame ==
  ASSUME RevInv, UNCHANGED <<calls, mtx, cache>>, src'.rev \in Nat, src.rev <= src'.rev
  PROVE  CallsInv'
  BY DEF RevInv, DataInv, CallsInv, CallOK

(***************************************************************************)
(* The steps.                                                              *)
(***************************************************************************)
LEMMA ConstructStep ==
  ASSUME ThreadsAssumption, RevInv, NEW t \in Threads, NEW m, NEW l, Construct(t, m, l)
  PROVE  RevInv'
  <1>1. DataInv'
    BY DataSame DEF Construct
  <1>2. CASE UNCHANGED calls
    BY <1>1, <1>2, CallsSame DEF Construct, RevInv, DataInv
  <1>3. CASE Begins(t, <<Call("ctor", "init", m, m)>>)
    <2>1. PICK c : c = Call("ctor", "init", m, m)
      OBVIOUS
    <2>2. CallOK(c, src.rev, cache[t].rev) /\ ~Holding(c)
      BY <2>1, NewCallOK DEF RevInv, DataInv
    <2>3. Begins(t, <<c>>) /\ Grows(t)
      BY <1>3, <2>1 DEF Construct, RevInv, DataInv, Grows
    <2>4. CallsInv'
      BY <2>2, <2>3, OneStays DEF Construct
    <2>5. QED
      BY <1>1, <2>4 DEF RevInv
  <1>4. QED
    BY <1>2, <1>3 DEF Construct

(* init() takes the mutex and moves the revision before anything else.     *)
LEMMA InitBeginsStep ==
  ASSUME ThreadsAssumption, RevInv, NEW t \in Threads, InitBegins(t)
  PROVE  RevInv'
  <1>1. /\ IsRecord(src') /\ src'.rev = src.rev + 1 /\ src.rev \in Nat
        /\ UNCHANGED cache /\ mtx' = t /\ mtx = Null
    BY Moved DEF InitBegins, Lock, RevInv, DataInv
  <1>2. DataInv'
    BY <1>1, DataMoves
  <1>3. calls[t] # <<>> /\ CallOK(Top(t), src.rev, cache[t].rev)
    BY TopOK DEF InitBegins, At
  <1>4. PICK c : c = [Top(t) EXCEPT !.at = "enter"]
    OBVIOUS
  <1>5. src'.rev \in Nat /\ src.rev <= src'.rev
    BY <1>1
  <1>6. CallOK(c, src'.rev, cache'[t].rev)
    BY <1>1, <1>3, <1>4, <1>5, GoesOnOK
  <1>7. Grows(t)
    BY <1>1, <1>5 DEF Grows, RevInv, DataInv
  <1>8. Becomes(t, <<c>>)
    BY <1>4 DEF InitBegins, Goes
  <1>9. QED
    BY <1>1, <1>2, <1>3, <1>6, <1>7, <1>8, OneStays DEF RevInv

(* Until init() gives the mutex back no copy has the new revision.         *)
LEMMA InitEndsStep ==
  ASSUME ThreadsAssumption, RevInv, NEW t \in Threads, InitEnds(t)
  PROVE  RevInv'
  <1>1. calls[t] # <<>> /\ CallOK(Top(t), src.rev, cache[t].rev) /\ mtx = t /\ mtx # Null
    BY TopOK DEF InitEnds, At, Holding, ThreadsAssumption
  <1>2. /\ IsRecord(src') /\ src'.rev \in Nat /\ src.rev <= src'.rev /\ src.rev \in Nat
        /\ UNCHANGED cache /\ mtx' = Null
    <2>1. PICK n \in {0, 1} : \E x : src' = [Bumped(src, n) EXCEPT !.map = x]
      BY DEF InitEnds
    <2>2. n \in Nat
      BY <2>1
    <2>3. PICK x : src' = [Bumped(src, n) EXCEPT !.map = x]
      BY <2>1
    <2>4. IsRecord(src') /\ src'.rev = src.rev + n /\ src.rev + n \in Nat /\ src.rev <= src.rev + n
      BY <2>2, <2>3, Moved
    <2>5. QED
      BY <2>4 DEF InitEnds, Unlock, RevInv, DataInv
  <1>3. DataInv'
    BY <1>1, <1>2, DataMoves
  <1>4. Grows(t)
    BY <1>1, <1>2 DEF Grows, RevInv, DataInv
  <1>5. CASE Ends(t)
    BY <1>1, <1>3, <1>4, <1>5, NoneStays DEF Ends, RevInv
  <1>6. ASSUME NEW m, Goes(t, [Top(t) EXCEPT !.at = "init", !.mod = m])
        PROVE  RevInv'
    <2>1. PICK c : c = [Top(t) EXCEPT !.at = "init", !.mod = m]
      OBVIOUS
    <2>2. CallOK(c, src'.rev, cache'[t].rev) /\ c.at = "init"
      <3>1. \A own, other : \A now \in Nat, later \in Nat : CallOK(Top(t), now, own) /\ now <= later
              => CallOK(c, later, other) /\ c.at = "init"
        BY <2>1, GoesToOK
      <3>2. QED
        BY <1>1, <1>2, <3>1
    <2>3. Becomes(t, <<c>>)
      BY <1>6, <2>1 DEF Goes
    <2>4. CallsInv'
      BY <1>1, <1>4, <2>2, <2>3, OneStays DEF Holding
    <2>5. QED
      BY <1>3, <2>4 DEF RevInv
  <1>7. QED
    BY <1>5, <1>6 DEF InitEnds

(* set_logger() and set_formatter() move the revision first as well.       *)
LEMMA SetBeginsStep ==
  ASSUME ThreadsAssumption, RevInv, NEW t \in Threads, NEW m, NEW k, NEW v, NEW b, SetBegins(t, m, k, v, b)
  PROVE  RevInv'
  <1>1. /\ IsRecord(src') /\ src'.rev = src.rev + 1 /\ src.rev \in Nat
        /\ UNCHANGED cache /\ mtx' = t /\ mtx = Null
    BY Moved DEF SetBegins, Lock, RevInv, DataInv
  <1>2. DataInv'
    BY <1>1, DataMoves
  <1>3. src'.rev \in Nat /\ src.rev <= src'.rev
    BY <1>1
  <1>4. Grows(t)
    BY <1>1, <1>3 DEF Grows, RevInv, DataInv
  <1>5. PICK c : c = Call("set", "change", m, [slot |-> k, value |-> v, through |-> b])
    OBVIOUS
  <1>6. CallOK(c, src'.rev, cache'[t].rev)
    BY <1>3, <1>5, NewCallOK
  <1>7. Begins(t, <<c>>)
    BY <1>5 DEF SetBegins
  <1>8. QED
    BY <1>1, <1>2, <1>4, <1>6, <1>7, OneStays DEF RevInv

(* Whether the data are found or not, no other copy has the revision yet.  *)
LEMMA SetEndsStep ==
  ASSUME ThreadsAssumption, RevInv, NEW t \in Threads, SetEnds(t)
  PROVE  RevInv'
  <1>1. calls[t] # <<>> /\ mtx = t /\ mtx # Null /\ mtx' = Null
    BY TopOK DEF SetEnds, At, Holding, ThreadsAssumption, Unlock
  <1>2. CASE UNCHANGED <<src, cache>>
    <2>1. DataInv'
      BY <1>1, <1>2, DataMoves DEF RevInv, DataInv
    <2>2. Grows(t)
      BY <1>1, <1>2 DEF Grows, RevInv, DataInv
    <2>3. QED
      BY <1>1, <2>1, <2>2, NoneStays DEF SetEnds, Ends, RevInv
  <1>3. ASSUME NEW x, src' = [src EXCEPT !.map = x], cache' = Synced(t, src')
        PROVE  RevInv'
    <2>1. IsRecord(src') /\ src'.rev = src.rev /\ src.rev \in Nat
      BY <1>3 DEF IsRecord, RevInv, DataInv
    <2>2. /\ cache' = [u \in Threads |-> cache'[u]] /\ cache'[t] = src'
          /\ \A u \in Threads \ {t} : cache'[u] = cache[u]
      BY <1>3 DEF Synced, RevInv, DataInv
    <2>3. \A u \in Threads : cache[u].rev \in Nat /\ cache[u].rev < src.rev
      BY <1>1 DEF RevInv, DataInv
    <2>4. \A u \in Threads : /\ cache'[u].rev \in Nat /\ cache'[u].rev <= src'.rev
                             /\ cache[u].rev <= cache'[u].rev
                             /\ cache'[u].rev = src'.rev => cache'[u] = src'
      <3>1. ASSUME NEW u \in Threads, u # t
            PROVE  cache'[u].rev = cache[u].rev /\ cache[u].rev < src'.rev
        BY <2>1, <2>2, <2>3, <3>1
      <3>2. QED
        BY <2>1, <2>2, <2>3, <3>1
    <2>5. DataInv'
      <3>1. EffectIsCurrent'
        BY <2>4 DEF EffectIsCurrent, HasCurrent
      <3>2. QED
        BY <1>1, <2>1, <2>2, <2>4, <3>1 DEF DataInv
    <2>6. Grows(t)
      BY <1>1, <2>1, <2>4 DEF Grows
    <2>7. QED
      BY <1>1, <2>5, <2>6, NoneStays DEF SetEnds, Ends, RevInv
  <1>4. QED
    BY <1>2, <1>3 DEF SetEnds

(* The program name changes with a new revision, under the mutex.          *)
LEMMA SetProgramNameStep ==
  ASSUME RevInv, NEW t \in Threads, NEW p, SetProgramName(t, p)
  PROVE  RevInv'
  <1>1. /\ IsRecord(src') /\ src'.rev = src.rev + 1 /\ src.rev \in Nat
        /\ UNCHANGED <<calls, mtx, cache>>
    BY Moved DEF SetProgramName, RevInv, DataInv
  <1>2. DataInv'
    BY <1>1, DataMoves
  <1>3. QED
    BY <1>1, <1>2, CallsSame DEF RevInv

(* Levels are not in the data that are copied.                             *)
LEMMA SetLevelStep ==
  ASSUME RevInv, NEW t \in Threads, NEW from, NEW l, SetLevel(t, from, l)
  PROVE  RevInv'
  BY DataSame, CallsSame DEF SetLevel, RevInv, DataInv

(* The copies still have the removed module: they may have too much.       *)
LEMMA DestroyStep ==
  ASSUME RevInv, NEW t \in Threads, NEW m, Destroy(t, m)
  PROVE  RevInv'
  <1>1. UNCHANGED <<calls, mtx, cache>>
    BY DEF Destroy
  <1>2. /\ IsRecord(src') /\ src'.rev = src.rev /\ src.rev \in Nat /\ src'.program = src.program
        /\ src'.map = WithoutModule(tree, src.map, m)
    BY DEF Destroy, IsRecord, RevInv, DataInv
  <1>3. ASSUME NEW x \in DOMAIN src'.map
        PROVE  x \in DOMAIN src.map /\ \A k \in Slots : src'.map[x][k].eff = src.map[x][k].eff
    BY <1>2 DEF WithoutModule, Slots
  <1>4. DataInv'
    BY <1>1, <1>2, <1>3 DEF DataInv, RevInv, EffectIsCurrent, HasCurrent
  <1>5. QED
    BY <1>1, <1>2, <1>4, CallsSame DEF RevInv

(* What do_log does next, whichever data it is given.                      *)
LEMMA RouteStep ==
  ASSUME ThreadsAssumption, RevInv, NEW t \in Threads, Grows(t), NEW c, NEW m, NEW data,
         Begins(t, Route(c, m, data)) \/ (calls[t] # <<>> /\ Becomes(t, Route(c, m, data))),
         CallOK(c, src.rev, cache[t].rev), UNCHANGED src,
         data.rev \in Nat, c.since <= data.rev, data.rev <= cache'[t].rev
  PROVE  CallsInv'
  <1>1. src.rev \in Nat /\ cache'[t].rev \in Nat
    BY DEF RevInv, DataInv, Grows
  <1>2. PICK cs : cs = Route(c, m, data)
    OBVIOUS
  <1>3. /\ cs \in Seq(Elements(cs)) /\ Len(cs) <= 1
        /\ cs # <<>> => CallOK(cs[1], src.rev, cache'[t].rev) /\ ~Holding(cs[1])
    <2>1. \A own0, own \in Nat : CallOK(c, src.rev, own0) /\ data.rev <= own =>
            /\ cs \in Seq(Elements(cs)) /\ Len(cs) <= 1
            /\ cs # <<>> => CallOK(cs[1], src.rev, own) /\ ~Holding(cs[1])
      BY <1>1, <1>2, RouteOK
    <2>2. cache[t].rev \in Nat
      BY DEF RevInv, DataInv
    <2>3. QED
      BY <1>1, <2>1, <2>2
  <1>4. Begins(t, cs) \/ (calls[t] # <<>> /\ Becomes(t, cs))
    BY <1>2
  <1>5. QED
    BY <1>3, <1>4, CallsStep

(* A thread that does not copy has the revision that was current when its  *)
(* call began.                                                             *)
LEMMA LogStep ==
  ASSUME ThreadsAssumption, RevInv, NEW t \in Threads, NEW m, NEW l, Log(t, m, l)
  PROVE  RevInv'
  <1>1. DataInv'
    BY DataSame DEF Log
  <1>2. Grows(t)
    BY DEF Log, Grows, RevInv, DataInv
  <1>3. PICK c : c = Call("log", "copy", m, m \in Registered(tree))
    OBVIOUS
  <1>4. CallOK(c, src.rev, cache[t].rev) /\ ~Holding(c) /\ c.since = src.rev
    BY <1>3, NewCallOK DEF RevInv, DataInv, Call
  <1>5. CASE Stale(t)
    <2>1. Begins(t, <<c>>) /\ UNCHANGED <<src, cache>>
      BY <1>3, <1>5 DEF Log
    <2>2. CallsInv'
      BY <1>2, <1>4, <2>1, OneStays
    <2>3. QED
      BY <1>1, <2>2 DEF RevInv
  <1>6. CASE ~Stale(t)
    <2>1. Begins(t, Route(c, m, cache[t])) /\ UNCHANGED <<src, cache>>
      BY <1>3, <1>6 DEF Log
    <2>2. cache[t].rev \in Nat /\ c.since <= cache[t].rev /\ cache[t].rev <= cache'[t].rev
      BY <1>4, <1>6, <2>1 DEF Stale, RevInv, DataInv
    <2>3. CallsInv'
      BY <1>2, <1>4, <2>1, <2>2, RouteStep
    <2>4. QED
      BY <1>1, <2>3 DEF RevInv
  <1>7. QED
    BY <1>5, <1>6

(* get_logger() does no more than copy.                                    *)
LEMMA GetStep ==
  ASSUME ThreadsAssumption, RevInv, NEW t \in Threads, NEW m, Get(t, m)
  PROVE  RevInv'
  <1>1. DataInv'
    BY DataSame DEF Get
  <1>2. Grows(t)
    BY DEF Get, Grows, RevInv, DataInv
  <1>3. PICK c : c = Call("get", "copy", m, Null)
    OBVIOUS
  <1>4. CallOK(c, src.rev, cache[t].rev) /\ ~Holding(c)
    BY <1>3, NewCallOK DEF RevInv, DataInv
  <1>5. Begins(t, <<c>>) /\ UNCHANGED <<src, cache>>
    BY <1>3 DEF Get
  <1>6. QED
    BY <1>1, <1>2, <1>4, <1>5, OneStays DEF RevInv

(* The copy is made when nobody is in the middle of a change.              *)
LEMMA CopyStep ==
  ASSUME ThreadsAssumption, RevInv, NEW t \in Threads, Copy(t)
  PROVE  RevInv'
  <1>1. /\ mtx = Null /\ UNCHANGED <<src, mtx>> /\ cache' = [cache EXCEPT ![t] = src]
        /\ IsRecord(src) /\ src.rev \in Nat
    BY DEF Copy, MayCopy, Synced, RevInv, DataInv
  <1>2. /\ cache' = [u \in Threads |-> cache'[u]] /\ cache'[t] = src
        /\ \A u \in Threads \ {t} : cache'[u] = cache[u]
    BY <1>1 DEF RevInv, DataInv
  <1>3. \A u \in Threads : /\ cache'[u].rev \in Nat /\ cache'[u].rev <= src.rev
                           /\ cache[u].rev <= cache'[u].rev
    BY <1>1, <1>2 DEF RevInv, DataInv
  <1>4. DataInv'
    <2>1. EffectIsCurrent'
      BY <1>1, <1>2 DEF EffectIsCurrent, HasCurrent, RevInv, DataInv
    <2>2. QED
      BY <1>1, <1>2, <1>3, <2>1 DEF DataInv
  <1>5. Grows(t)
    BY <1>1, <1>3 DEF Grows
  <1>6. calls[t] # <<>> /\ CallOK(Top(t), src.rev, cache[t].rev)
    BY TopOK DEF Copy, At
  <1>7. CASE Becomes(t, <<>>)
    BY <1>4, <1>5, <1>6, <1>7, NoneStays DEF RevInv
  <1>8. CASE Becomes(t, Route(Top(t), Top(t).mod, src))
    <2>1. Top(t).since <= src.rev /\ src.rev <= cache'[t].rev
      BY <1>1, <1>2, <1>6 DEF CallOK
    <2>2. CallsInv'
      BY <1>1, <1>5, <1>6, <1>8, <2>1, RouteStep
    <2>3. QED
      BY <1>4, <2>2 DEF RevInv
  <1>9. QED
    BY <1>7, <1>8 DEF Copy

(* The parent's logger is taken from the same copy, or from a newer one if *)
(* the logger logged.                                                      *)
LEMMA LoggerReturnsStep ==
  ASSUME ThreadsAssumption, RevInv, NEW t \in Threads, LoggerReturns(t)
  PROVE  RevInv'
  <1>1. DataInv' /\ UNCHANGED <<src, cache>>
    BY DataSame DEF LoggerReturns
  <1>2. Grows(t)
    BY DEF LoggerReturns, Grows, RevInv, DataInv
  <1>3. calls[t] # <<>> /\ Top(t).at = "logger" /\ CallOK(Top(t), src.rev, cache[t].rev)
    BY TopOK DEF LoggerReturns, At
  <1>4. CASE Becomes(t, <<>>)
    BY <1>1, <1>2, <1>3, <1>4, NoneStays DEF RevInv
  <1>5. ASSUME NEW m, Becomes(t, Route(Top(t), m, cache[t]))
        PROVE  RevInv'
    <2>1. cache[t].rev \in Nat /\ Top(t).since <= cache[t].rev /\ cache[t].rev <= cache'[t].rev
      BY <1>1, <1>3 DEF CallOK, RevInv, DataInv
    <2>2. CallsInv'
      BY <1>1, <1>2, <1>3, <1>5, <2>1, RouteStep
    <2>3. QED
      BY <1>1, <2>2 DEF RevInv
  <1>6. QED
    BY <1>4, <1>5 DEF LoggerReturns

(* The exception of map.at ends the call and changes nothing else.         *)
LEMMA CatchStep ==
  ASSUME ThreadsAssumption, RevInv, NEW t \in Threads, Catch(t)
  PROVE  RevInv'
  <1>1. DataInv'
    BY DataSame DEF Catch
  <1>2. Grows(t)
    BY DEF Catch, Grows, RevInv, DataInv
  <1>3. QED
    BY <1>1, <1>2, NoneStays DEF Catch, At, Ends, RevInv

(***************************************************************************)
(* The theorems.                                                           *)
(***************************************************************************)
LEMMA InitRevInv == Init => RevInv
  <1> SUFFICES ASSUME Init PROVE RevInv
    OBVIOUS
  <1>1. DataInv
    BY DEF Init, DataInv, Data0, IsRecord, EffectIsCurrent, HasCurrent
  <1>2. CallsInv
    BY OneCall DEF Init, CallsInv
  <1>3. QED
    BY <1>1, <1>2 DEF RevInv

(* No step of any thread breaks the protocol.                              *)
LEMMA NextRevInv ==
  ASSUME ThreadsAssumption, RevInv, [Next]_vars
  PROVE  RevInv'
  <1>1. CASE UNCHANGED vars
    BY <1>1 DEF vars, RevInv, DataInv, EffectIsCurrent, HasCurrent, CallsInv
  <1>2. ASSUME NEW t \in Writers, NEW m \in Mods, Construct(t, m, StartLevel)
        PROVE  RevInv'
    BY <1>2, ConstructStep DEF ThreadsAssumption
  <1>3. ASSUME NEW t \in Writers, InitBegins(t) \/ InitEnds(t) \/ SetEnds(t)
        PROVE  RevInv'
    BY <1>3, InitBeginsStep, InitEndsStep, SetEndsStep DEF ThreadsAssumption
  <1>4. ASSUME NEW t \in Writers, NEW m \in Mods, Destroy(t, m)
        PROVE  RevInv'
    BY <1>4, DestroyStep DEF ThreadsAssumption
  <1>5. ASSUME NEW t \in Writers, NEW m, NEW k, NEW v, NEW b, SetBegins(t, m, k, v, b)
        PROVE  RevInv'
    BY <1>5, SetBeginsStep DEF ThreadsAssumption
  <1>6. ASSUME NEW t \in Writers, NEW p \in Programs, SetProgramName(t, p)
        PROVE  RevInv'
    BY <1>6, SetProgramNameStep DEF ThreadsAssumption
  <1>7. ASSUME NEW t \in Writers, NEW from, NEW l, SetLevel(t, from, l)
        PROVE  RevInv'
    BY <1>7, SetLevelStep DEF ThreadsAssumption
  <1>8. ASSUME NEW t \in Threads, NEW m, NEW l, Log(t, m, l) \/ Get(t, m)
        PROVE  RevInv'
    BY <1>8, LogStep, GetStep
  <1>9. ASSUME NEW t \in Threads, Copy(t) \/ LoggerReturns(t) \/ Catch(t)
        PROVE  RevInv'
    BY <1>9, CopyStep, LoggerReturnsStep, CatchStep
  <1>10. QED
    BY <1>1, <1>2, <1>3, <1>4, <1>5, <1>6, <1>7, <1>8, <1>9 DEF Next

(* The protocol of the revisions holds in every reachable state.           *)
THEOREM RevisionsHold == Spec => []RevInv
  <1>1. Init => RevInv
    BY InitRevInv
  <1>2. RevInv /\ [Next]_vars => RevInv'
    BY NextRevInv, ThreadsAssumption
  <1>3. QED
    BY <1>1, <1>2, PTL DEF Spec

(* No message logged after a change has returned goes to a logger from     *)
(* before it, for any threads, modules and changes (Module::do_log).       *)
THEOREM LatestUsed == Spec => []UsesLatest
  <1>1. RevInv => UsesLatest
    <2> SUFFICES ASSUME RevInv, NEW t \in Threads, NEW i \in DOMAIN calls[t], calls[t][i].at = "logger"
                 PROVE  calls[t][i].rev >= calls[t][i].since
      BY DEF UsesLatest
    <2>1. calls[t][i].rev \in Nat /\ calls[t][i].since \in Nat /\ calls[t][i].since <= calls[t][i].rev
      BY DEF RevInv, CallsInv, CallOK
    <2>2. QED
      BY <2>1
  <1>2. QED
    BY <1>1, RevisionsHold, PTL

(***************************************************************************)
(* A logger that does not log runs alone in its thread, out of the copy    *)
(* the thread has: nothing but a later call of that thread replaces it.    *)
(***************************************************************************)
LoggersInv == \A t \in Threads \ Nesting :
  /\ calls[t] = <<>> \/ \E c : calls[t] = <<c>>
  /\ \A i \in DOMAIN calls[t] : calls[t][i].at = "logger" => calls[t][i].logger \in Keeps(cache[t])

(* A thread leaves the copies of the others alone.                         *)
OwnCopy(t) == \A u \in Threads \ {t} : cache'[u] = cache[u]

(* The front of a sequence of one.                                         *)
LEMMA FrontOfOne == \A c : Front(<<c>>) = <<>>
  BY DEF Front

(* Where calls do not nest, the step's call is the only one.               *)
LEMMA OnlyCall ==
  ASSUME ThreadsAssumption, RevInv, LoggersInv, NEW t \in Threads, OwnCopy(t),
         NEW cs, cs = <<>> \/ \E c : cs = <<c>>,
         Begins(t, cs) \/ (calls[t] # <<>> /\ Becomes(t, cs)),
         \A c : cs = <<c>> /\ c.at = "logger" => c.logger \in Keeps(cache'[t])
  PROVE  LoggersInv'
  <1>1. PICK base : /\ calls' = [calls EXCEPT ![t] = base \o cs]
                    /\ t \notin Nesting => base = <<>>
    <2>1. CASE Begins(t, cs)
      BY <2>1 DEF Begins, Free
    <2>2. CASE calls[t] # <<>> /\ Becomes(t, cs)
      BY <2>2, FrontOfOne DEF Becomes, LoggersInv
    <2>3. QED
      BY <2>1, <2>2
  <1>2. \A u \in Threads \ {t} : calls'[u] = calls[u]
    BY <1>1 DEF RevInv, CallsInv
  <1>3. t \notin Nesting => calls'[t] = cs
    <2>1. <<>> \o cs = cs
      OBVIOUS
    <2>2. QED
      BY <1>1, <2>1 DEF RevInv, CallsInv
  <1>4. ASSUME NEW i \in DOMAIN cs, cs[i].at = "logger"
        PROVE  cs[i].logger \in Keeps(cache'[t])
    <2>1. PICK c : cs = <<c>>
      BY <1>4
    <2>2. cs[i] = c
      BY <1>4, <2>1
    <2>3. QED
      BY <1>4, <2>1, <2>2
  <1>5. ASSUME NEW u \in Threads \ Nesting
        PROVE  /\ calls'[u] = <<>> \/ \E c : calls'[u] = <<c>>
               /\ \A i \in DOMAIN calls'[u] :
                    calls'[u][i].at = "logger" => calls'[u][i].logger \in Keeps(cache'[u])
    <2>1. CASE u = t
      BY <1>3, <1>4, <2>1
    <2>2. CASE u # t
      BY <1>2, <2>2 DEF LoggersInv, OwnCopy
    <2>3. QED
      BY <2>1, <2>2
  <1>6. QED
    BY <1>5 DEF LoggersInv

(* do_log takes the logger from the data it is given.                      *)
LEMMA RouteKeeps ==
  ASSUME NEW c, IsCall(c), NEW m, NEW data
  PROVE  /\ Route(c, m, data) = <<>> \/ \E d : Route(c, m, data) = <<d>>
         /\ \A d : Route(c, m, data) = <<d>> /\ d.at = "logger" => d.logger \in Keeps(data)
  <1> DEFINE fails == [c EXCEPT !.at = "threw"]
             goes  == [c EXCEPT !.at = "logger", !.mod = m, !.rev = data.rev,
                                !.logger = data.map[m].logger.eff, !.formatter = data.map[m].formatter.eff]
  <1>1. \/ Route(c, m, data) = <<>> \/ Route(c, m, data) = <<fails>>
        \/ Route(c, m, data) = <<goes>> /\ m \in DOMAIN data.map
    BY DEF Route
  <1>2. fails.at = "threw"
    BY DEF IsCall
  <1>3. goes.logger = data.map[m].logger.eff
    BY DEF IsCall
  <1>4. m \in DOMAIN data.map => goes.logger \in Keeps(data)
    BY <1>3 DEF Keeps
  <1> HIDE DEF fails, goes
  <1>5. \A a, b : <<a>> = <<b>> => a = b
    OBVIOUS
  <1>6. \A d : <<d>> # <<>>
    OBVIOUS
  <1>7. ASSUME NEW d, Route(c, m, data) = <<d>>, d.at = "logger"
        PROVE  d.logger \in Keeps(data)
    <2>1. CASE Route(c, m, data) = <<>>
      BY <1>6, <1>7, <2>1
    <2>2. CASE Route(c, m, data) = <<fails>>
      <3>1. d = fails
        BY <1>5, <1>7, <2>2
      <3>2. QED
        BY <1>2, <1>7, <3>1
    <2>3. CASE Route(c, m, data) = <<goes>> /\ m \in DOMAIN data.map
      <3>1. d = goes
        BY <1>5, <1>7, <2>3
      <3>2. QED
        BY <1>4, <2>3, <3>1
    <2>4. QED
      BY <1>1, <2>1, <2>2, <2>3
  <1>8. QED
    BY <1>1, <1>7

(* Calls that are not in a logger, or that end.                            *)
LEMMA NoLogger ==
  ASSUME ThreadsAssumption, RevInv, LoggersInv, NEW t \in Threads, OwnCopy(t), NEW cs,
         cs = <<>> \/ \E c : cs = <<c>> /\ c.at # "logger",
         Begins(t, cs) \/ (calls[t] # <<>> /\ Becomes(t, cs))
  PROVE  LoggersInv'
  <1>1. \A c : cs = <<c>> => c.at # "logger"
    OBVIOUS
  <1>2. cs = <<>> \/ \E c : cs = <<c>>
    OBVIOUS
  <1>3. QED
    BY <1>1, <1>2, OnlyCall

(* A step of do_log, with the copy that the thread has afterwards.         *)
LEMMA Routed ==
  ASSUME ThreadsAssumption, RevInv, LoggersInv, NEW t \in Threads, OwnCopy(t), NEW c, IsCall(c), NEW m,
         Begins(t, Route(c, m, cache'[t])) \/ (calls[t] # <<>> /\ Becomes(t, Route(c, m, cache'[t])))
  PROVE  LoggersInv'
  <1>1. PICK cs : cs = Route(c, m, cache'[t])
    OBVIOUS
  <1>2. /\ cs = <<>> \/ \E d : cs = <<d>>
        /\ \A d : cs = <<d>> /\ d.at = "logger" => d.logger \in Keeps(cache'[t])
    BY <1>1, RouteKeeps
  <1>3. Begins(t, cs) \/ (calls[t] # <<>> /\ Becomes(t, cs))
    BY <1>1
  <1>4. QED
    BY <1>2, <1>3, OnlyCall

(* The steps of a thread that changes something never enter a logger.      *)
LEMMA ChangesKeepLoggers ==
  ASSUME ThreadsAssumption, RevInv, LoggersInv, NEW t \in Threads,
         \/ \E m, l : Construct(t, m, l)
         \/ InitBegins(t) \/ InitEnds(t)
         \/ \E m : Destroy(t, m)
         \/ \E m, k, v, b : SetBegins(t, m, k, v, b)
         \/ SetEnds(t)
         \/ \E p : SetProgramName(t, p)
         \/ \E from, l : SetLevel(t, from, l)
  PROVE  LoggersInv'
  <1>1. CASE UNCHANGED <<calls, cache>>
    BY <1>1 DEF LoggersInv
  <1>2. ASSUME NEW c, c.at # "logger", UNCHANGED cache,
               Begins(t, <<c>>) \/ (calls[t] # <<>> /\ Becomes(t, <<c>>))
        PROVE  LoggersInv'
    <2>1. PICK cs : cs = <<c>>
      OBVIOUS
    <2>2. OwnCopy(t)
      BY <1>2 DEF OwnCopy
    <2>3. cs = <<>> \/ \E d : cs = <<d>> /\ d.at # "logger"
      BY <1>2, <2>1
    <2>4. Begins(t, cs) \/ (calls[t] # <<>> /\ Becomes(t, cs))
      BY <1>2, <2>1
    <2>5. QED
      BY <2>2, <2>3, <2>4, NoLogger
  <1>3. ASSUME calls[t] # <<>>, Ends(t), OwnCopy(t)
        PROVE  LoggersInv'
    BY <1>3, NoLogger DEF Ends
  <1>4. ASSUME NEW m, NEW l, Construct(t, m, l)
        PROVE  LoggersInv'
    <2>1. Call("ctor", "init", m, m).at # "logger"
      BY DEF Call
    <2>2. UNCHANGED calls \/ Begins(t, <<Call("ctor", "init", m, m)>>)
      BY <1>4 DEF Construct
    <2>3. QED
      BY <1>1, <1>2, <1>4, <2>1, <2>2 DEF Construct
  <1>5. ASSUME InitBegins(t)
        PROVE  LoggersInv'
    <2>1. calls[t] # <<>> /\ IsCall(Top(t))
      BY <1>5, TopOK DEF InitBegins, At, CallOK
    <2>2. [Top(t) EXCEPT !.at = "enter"].at # "logger"
      BY <2>1 DEF IsCall
    <2>3. QED
      BY <1>2, <1>5, <2>1, <2>2 DEF InitBegins, Goes
  <1>6. ASSUME InitEnds(t)
        PROVE  LoggersInv'
    <2>1. calls[t] # <<>> /\ IsCall(Top(t)) /\ OwnCopy(t) /\ UNCHANGED cache
      BY <1>6, TopOK DEF InitEnds, At, CallOK, OwnCopy
    <2>2. \A m : [Top(t) EXCEPT !.at = "init", !.mod = m].at # "logger"
      BY <2>1 DEF IsCall
    <2>3. Ends(t) \/ \E m : Goes(t, [Top(t) EXCEPT !.at = "init", !.mod = m])
      BY <1>6 DEF InitEnds
    <2>4. CASE Ends(t)
      BY <1>3, <2>1, <2>4
    <2>5. ASSUME NEW m, Goes(t, [Top(t) EXCEPT !.at = "init", !.mod = m])
          PROVE  LoggersInv'
      BY <1>2, <2>1, <2>2, <2>5 DEF Goes
    <2>6. QED
      BY <2>3, <2>4, <2>5
  <1>7. ASSUME NEW m, NEW k, NEW v, NEW b, SetBegins(t, m, k, v, b)
        PROVE  LoggersInv'
    <2>1. PICK c : c = Call("set", "change", m, [slot |-> k, value |-> v, through |-> b])
      OBVIOUS
    <2>2. c.at # "logger"
      BY <2>1 DEF Call
    <2>3. Begins(t, <<c>>) /\ UNCHANGED cache
      BY <1>7, <2>1 DEF SetBegins
    <2>4. QED
      BY <1>2, <2>2, <2>3
  <1>8. ASSUME SetEnds(t)
        PROVE  LoggersInv'
    <2>1. calls[t] # <<>> /\ Ends(t)
      BY <1>8 DEF SetEnds, At
    <2>2. OwnCopy(t)
      <3>1. UNCHANGED cache \/ cache' = [cache EXCEPT ![t] = src']
        BY <1>8 DEF SetEnds, Synced
      <3>2. QED
        BY <3>1 DEF OwnCopy, RevInv, DataInv
    <2>3. QED
      BY <1>3, <2>1, <2>2
  <1>9. ASSUME (\E m : Destroy(t, m)) \/ (\E p : SetProgramName(t, p)) \/ \E from, l : SetLevel(t, from, l)
        PROVE  LoggersInv'
    <2>1. UNCHANGED <<calls, cache>>
      BY <1>9 DEF Destroy, SetProgramName, SetLevel
    <2>2. QED
      BY <1>1, <2>1
  <1>10. QED
    BY <1>4, <1>5, <1>6, <1>7, <1>8, <1>9

(* Who logs enters a logger of the copy that he has just compared or made. *)
LEMMA LogKeepsLoggers ==
  ASSUME ThreadsAssumption, RevInv, LoggersInv, NEW t \in Threads, NEW m, NEW l, Log(t, m, l) \/ Get(t, m)
  PROVE  LoggersInv'
  <1>1. OwnCopy(t) /\ cache' = cache
    BY DEF Log, Get, OwnCopy
  <1>2. ASSUME NEW c, c.at # "logger", Begins(t, <<c>>)
        PROVE  LoggersInv'
    <2>1. PICK cs : cs = <<c>>
      OBVIOUS
    <2>2. cs = <<>> \/ \E d : cs = <<d>> /\ d.at # "logger"
      BY <1>2, <2>1
    <2>3. Begins(t, cs)
      BY <1>2, <2>1
    <2>4. QED
      BY <1>1, <2>2, <2>3, NoLogger
  <1>3. \A op, arg : Call(op, "copy", m, arg).at # "logger" /\ IsCall(Call(op, "copy", m, arg))
    BY DEF Call, IsCall
  <1>4. ASSUME NEW c, IsCall(c), Begins(t, Route(c, m, cache[t]))
        PROVE  LoggersInv'
    BY <1>1, <1>4, Routed
  <1>5. (\E op, arg : Begins(t, <<Call(op, "copy", m, arg)>>))
        \/ \E op, arg : Begins(t, Route(Call(op, "copy", m, arg), m, cache[t]))
    BY Zenon DEF Log, Get
  <1>6. QED
    BY <1>2, <1>3, <1>4, <1>5

(* The copy is replaced only when the thread runs no logger from it.       *)
LEMMA RunKeepsLoggers ==
  ASSUME ThreadsAssumption, RevInv, LoggersInv, NEW t \in Threads, Copy(t) \/ LoggerReturns(t) \/ Catch(t)
  PROVE  LoggersInv'
  <1>1. calls[t] # <<>> /\ IsCall(Top(t))
    BY TopOK DEF Copy, LoggerReturns, Catch, At, CallOK
  <1>2. OwnCopy(t)
    <2>1. cache' = cache \/ cache' = [cache EXCEPT ![t] = src]
      BY DEF Copy, Synced, LoggerReturns, Catch
    <2>2. QED
      BY <2>1 DEF OwnCopy, RevInv, DataInv
  <1>3. CASE Becomes(t, <<>>)
    BY <1>1, <1>2, <1>3, NoLogger
  <1>4. ASSUME NEW m, Becomes(t, Route(Top(t), m, cache'[t]))
        PROVE  LoggersInv'
    BY <1>1, <1>2, <1>4, Routed
  <1>5. CASE Copy(t)
    <2>1. cache'[t] = src
      BY <1>5 DEF Copy, Synced, RevInv, DataInv
    <2>2. QED
      BY <1>3, <1>4, <1>5, <2>1 DEF Copy
  <1>6. CASE LoggerReturns(t)
    BY <1>3, <1>4, <1>6 DEF LoggerReturns
  <1>7. CASE Catch(t)
    BY <1>3, <1>7 DEF Catch, Ends
  <1>8. QED
    BY <1>5, <1>6, <1>7

(* No step takes a copy from under the logger that runs.                   *)
LEMMA NextLoggersInv ==
  ASSUME ThreadsAssumption, RevInv, LoggersInv, [Next]_vars
  PROVE  LoggersInv'
  <1>1. CASE UNCHANGED vars
    BY <1>1 DEF vars, LoggersInv
  <1>2. ASSUME NEW t \in Writers,
               \/ \E m, l : Construct(t, m, l)
               \/ InitBegins(t) \/ InitEnds(t)
               \/ \E m : Destroy(t, m)
               \/ \E m, k, v, b : SetBegins(t, m, k, v, b)
               \/ SetEnds(t)
               \/ \E p : SetProgramName(t, p)
               \/ \E from, l : SetLevel(t, from, l)
        PROVE  LoggersInv'
    <2>1. t \in Threads
      BY DEF ThreadsAssumption
    <2>2. QED
      BY <1>2, <2>1, ChangesKeepLoggers
  <1>3. ASSUME NEW t \in Threads, NEW m, NEW l, Log(t, m, l) \/ Get(t, m)
        PROVE  LoggersInv'
    BY <1>3, LogKeepsLoggers
  <1>4. ASSUME NEW t \in Threads, Copy(t) \/ LoggerReturns(t) \/ Catch(t)
        PROVE  LoggersInv'
    BY <1>4, RunKeepsLoggers
  <1>5. QED
    BY <1>1, <1>2, <1>3, <1>4 DEF Next

(* A logger that does not log exists while it runs, whatever the other     *)
(* threads set in the meantime, for any threads, modules and loggers: the  *)
(* copy in its thread keeps it (Module::do_log, get_synced_data).          *)
THEOREM RunningKept == Spec => []RunningLoggerKept
  <1>1. Init => LoggersInv
    BY DEF Init, LoggersInv
  <1>2. RevInv /\ LoggersInv /\ [Next]_vars => LoggersInv'
    BY NextLoggersInv, ThreadsAssumption
  <1>3. LoggersInv => RunningLoggerKept
    BY DEF LoggersInv, RunningLoggerKept, KeptIn, Kept
  <1>4. QED
    BY <1>1, <1>2, <1>3, RevisionsHold, PTL DEF Spec

(***************************************************************************)
(* The tree: who is registered has a registered parent or none, is a child *)
(* of it once, and stands in the index under its name; who waits is not    *)
(* registered; and there is no cycle.                                      *)
(***************************************************************************)
OneOfEach(s) == \A i, j \in DOMAIN s : s[i] = s[j] => i = j
TreeShape == [parent : [Mods -> Mods \cup {Null}], children : [Mods -> Seq(Mods)], name : [Mods -> Seq(STRING)],
              level : [Mods -> Levels \cup {Null}], through : [Mods -> BOOLEAN],
              index : SUBSET (Seq(STRING) \X Mods), waiting : Seq(Mods)]
Children(T, m) == {c \in Registered(T) : T.parent[c] = m}
IsTree(T) ==
  /\ T \in TreeShape /\ Registered(T) \subseteq Exists(T)
  /\ T.index = {<<T.name[m], m>> : m \in Registered(T)}
  /\ \A m \in Registered(T) : T.parent[m] \in Registered(T) \cup {Null}
  /\ \A m \in Mods : OneOfEach(T.children[m]) /\ ToSet(T.children[m]) = Children(T, m)
  /\ OneOfEach(T.waiting) /\ ToSet(T.waiting) \subseteq Exists(T) \ Registered(T)
Deeper(T, d) == \A m \in Registered(T) : T.parent[m] # Null => d[T.parent[m]] < d[m]
Rooted(T) == \E n \in Nat : \E d \in [Mods -> 0..n] : Deeper(T, d)

(* What a walk down from some modules reaches: the least set that has them *)
(* and, with each, its kids.                                               *)
Closed(kids, S) == \A x \in S : kids[x] \subseteq S
Reach(kids, from) == {x \in Mods : \A S \in SUBSET Mods : from \subseteq S /\ Closed(kids, S) => x \in S}
Kids(T) == [m \in Mods |-> ToSet(T.children[m])]
Under(T, m) == Reach(Kids(T), {m})

(* The data: an entry for who is registered, with a formatter in effect.   *)
Nearest(T, map) == \A m \in Registered(T), k \in Slots :
  map[m][k].eff = IF map[m][k].own = Null /\ T.parent[m] # Null THEN map[T.parent[m]][k].eff ELSE map[m][k].own
Formatted(map) == \A m \in DOMAIN map : map[m].formatter.eff # Null
Values(k) == (IF k = "logger" THEN Loggers ELSE Formatters) \cup {Null}
Entry == [logger : [own : Values("logger"), eff : Values("logger")],
          formatter : [own : Values("formatter"), eff : Values("formatter")]]
GoodMap(T, map) == map \in [Registered(T) -> Entry] /\ Formatted(map) /\ Nearest(T, map)
EntriesInv ==
  /\ IsData(src) /\ GoodMap(tree, src.map)
  /\ \A t \in Threads : IsData(cache[t]) /\ Formatted(cache[t].map)

(* One module at a time is being registered, which it was ready for.       *)
Makes(c) == c.op = "ctor"
CanEnter(T, m) == m \in Exists(T) \ Registered(T) /\ T.parent[m] \in Registered(T) \cup {Null}
BuildInv ==
  /\ ~Building => \A i \in DOMAIN tree.waiting : MustWait(tree, tree.waiting[i])
  /\ \A t \in Threads : \A i \in DOMAIN calls[t] : Makes(calls[t][i]) =>
       /\ CanEnter(tree, calls[t][i].mod)
       /\ \A u \in Threads : \A j \in DOMAIN calls[u] : Makes(calls[u][j]) => u = t /\ j = i

(* What calls are about.  A message of a registered module is on its way   *)
(* up from a registered module, whose ancestors are all in the copy.       *)
IsChange(set) == set.slot \in Slots /\ set.value \in Values(set.slot) /\ set.through \in BOOLEAN
CallTyped(c) ==
  /\ Makes(c) <=> c.at \in {"init", "enter"}
  /\ c.at = "change" => c.op = "set" /\ IsChange(c.arg)
  /\ c.at \in {"logger", "threw"} => c.op = "log"
  /\ c.at = "copy" => c.op \in {"log", "get"}
  /\ c.op = "log" => c.arg \in BOOLEAN
  /\ c.at \in {"copy", "change", "logger"} => c.mod \in Mods
CallFinds(c, T, map) ==
  /\ c.at = "logger" => c.formatter # Null
  /\ c.op = "log" /\ c.arg =>
       /\ c.at # "threw"
       /\ c.at \in {"copy", "logger"} => c.mod \in Registered(T)
       /\ c.at = "logger" => \A m \in Registered(T) : c.mod \in Under(T, m) => m \in DOMAIN map
MessagesInv == \A t \in Threads : \A i \in DOMAIN calls[t] :
  CallTyped(calls[t][i]) /\ CallFinds(calls[t][i], tree, cache[t].map)
RegistryInv ==
  /\ IsTree(tree) /\ Rooted(tree) /\ EntriesInv /\ BuildInv /\ MessagesInv
  /\ mtx \in Threads \cup {Null} /\ \A t \in Threads : Len(calls[t]) <= MaxCalls

(***************************************************************************)
(* Induction over numbers, stated with a set in place of a predicate.      *)
(***************************************************************************)
LEMMA Least ==
  ASSUME NEW S, S \subseteq Nat, S # {}
  PROVE  \E x \in S : \A y \in S : x <= y
  <1> DEFINE R == OpToRel(<, Nat)
  <1>1. IsWellFoundedOn(R, Nat)
    BY NatLessThanWellFounded
  <1>2. \A x, y \in Nat : x < y => <<x, y>> \in R
    BY DEF OpToRel
  <1> HIDE DEF R
  <1>3. PICK x \in S : \A y \in S : ~ (<<y, x>> \in R)
    BY <1>1, WFMin
  <1>4. ASSUME NEW y \in S PROVE x <= y
    <2>1. x \in Nat /\ y \in Nat /\ ~(y < x)
      BY <1>2, <1>3
    <2>2. QED
      BY <2>1
  <1>5. QED
    BY <1>4

(* Induction over the numbers, for a set of them.                          *)
LEMMA Induction ==
  ASSUME NEW S, 0 \in S, \A n \in Nat : n \in S => n + 1 \in S
  PROVE  Nat \subseteq S
  <1> SUFFICES ASSUME Nat \ S # {} PROVE FALSE
    OBVIOUS
  <1>1. PICK n \in Nat \ S : \A y \in Nat \ S : n <= y
    BY Least
  <1>2. n - 1 \in Nat /\ n = (n - 1) + 1 /\ ~(n <= n - 1)
    OBVIOUS
  <1>3. n - 1 \in S
    BY <1>1, <1>2
  <1>4. QED
    BY <1>2, <1>3

(***************************************************************************)
(* Walks down.                                                             *)
(***************************************************************************)
IsKids(kids) == kids \in [Mods -> SUBSET Mods]
NextOf(kids, from) == UNION {kids[x] : x \in from}
Spreads(f, kids) ==
  f = [s \in SUBSET Mods |-> s \cup IF NextOf(kids, s) = {} THEN {} ELSE f[NextOf(kids, s)]]

(* What is reached has what it starts from and is closed, and is the least *)
(* such set.                                                               *)
LEMMA Reaches ==
  ASSUME NEW kids, IsKids(kids), NEW from \in SUBSET Mods
  PROVE  /\ Reach(kids, from) \in SUBSET Mods /\ from \subseteq Reach(kids, from)
         /\ Closed(kids, Reach(kids, from))
         /\ \A S \in SUBSET Mods : from \subseteq S /\ Closed(kids, S) => Reach(kids, from) \subseteq S
  BY DEF Reach, Closed, IsKids

(* It is what it starts from and what is reached from the next ones.       *)
LEMMA ReachUnfolds ==
  ASSUME NEW kids, IsKids(kids), NEW from \in SUBSET Mods
  PROVE  /\ NextOf(kids, from) \in SUBSET Mods
         /\ Reach(kids, from) = from \cup Reach(kids, NextOf(kids, from))
         /\ Reach(kids, {}) = {}
  <1>1. NextOf(kids, from) \in SUBSET Mods
    BY DEF NextOf, IsKids
  <1> DEFINE all  == Reach(kids, from)
             rest == Reach(kids, NextOf(kids, from))
  <1>2. all \in SUBSET Mods /\ from \subseteq all /\ Closed(kids, all)
    BY Reaches
  <1>3. rest \in SUBSET Mods /\ NextOf(kids, from) \subseteq rest /\ Closed(kids, rest)
    BY <1>1, Reaches
  <1>4. Closed(kids, from \cup rest)
    BY <1>3 DEF Closed, NextOf
  <1>5. all \subseteq from \cup rest
    <2>1. from \cup rest \in SUBSET Mods
      BY <1>3
    <2>2. QED
      BY <1>4, <2>1, Reaches
  <1>6. NextOf(kids, from) \subseteq all
    BY <1>2 DEF Closed, NextOf
  <1>7. rest \subseteq all
    BY <1>1, <1>2, <1>6, Reaches
  <1>8. Reach(kids, {}) = {}
    <2>1. {} \in SUBSET Mods /\ Closed(kids, {})
      BY DEF Closed
    <2>2. QED
      BY <2>1, Reaches
  <1>9. QED
    BY <1>1, <1>2, <1>5, <1>7, <1>8

(* A function that walks down level by level exists.                       *)
LEMMA SpreadExists ==
  ASSUME NEW kids, IsKids(kids)
  PROVE  \E f : Spreads(f, kids)
  <1> DEFINE g == [s \in SUBSET Mods |-> Reach(kids, s)]
  <1>1. ASSUME NEW s \in SUBSET Mods
        PROVE  g[s] = s \cup IF NextOf(kids, s) = {} THEN {} ELSE g[NextOf(kids, s)]
    <2>1. NextOf(kids, s) \in SUBSET Mods /\ Reach(kids, s) = s \cup Reach(kids, NextOf(kids, s))
      BY ReachUnfolds
    <2>2. Reach(kids, {}) = {}
      BY ReachUnfolds
    <2>3. QED
      BY <2>1, <2>2
  <1> HIDE DEF g
  <1>2. g = [s \in SUBSET Mods |-> g[s]]
    BY DEF g
  <1>3. Spreads(g, kids)
    BY <1>1, <1>2 DEF Spreads
  <1>4. QED
    BY <1>3

(* Where there is no cycle it finds just what is reached.                  *)
LEMMA SpreadReaches ==
  ASSUME NEW kids, IsKids(kids), NEW n \in Nat, NEW d \in [Mods -> 0..n],
         \A x \in Mods : \A c \in kids[x] : d[x] < d[c],
         NEW f, Spreads(f, kids), NEW from \in SUBSET Mods
  PROVE  f[from] = Reach(kids, from)
  <1> DEFINE S == {k \in Nat : \A s \in SUBSET Mods : (\A x \in s : d[x] + k > n) => f[s] = Reach(kids, s)}
  <1>1. ASSUME NEW s \in SUBSET Mods
        PROVE  /\ f[s] = s \cup IF NextOf(kids, s) = {} THEN {} ELSE f[NextOf(kids, s)]
               /\ NextOf(kids, s) \in SUBSET Mods /\ Reach(kids, s) = s \cup Reach(kids, NextOf(kids, s))
               /\ Reach(kids, {}) = {}
    BY ReachUnfolds DEF Spreads
  <1>2. 0 \in S
    <2>1. ASSUME NEW s \in SUBSET Mods, \A x \in s : d[x] + 0 > n
          PROVE  f[s] = Reach(kids, s)
      <3>1. s = {}
        BY <2>1
      <3>2. NextOf(kids, s) = {}
        BY <3>1 DEF NextOf
      <3>3. QED
        BY <1>1, <3>1, <3>2
    <2>2. QED
      BY <2>1
  <1>3. ASSUME NEW k \in Nat, k \in S
        PROVE  k + 1 \in S
    <2>1. ASSUME NEW s \in SUBSET Mods, \A x \in s : d[x] + (k + 1) > n
          PROVE  f[s] = Reach(kids, s)
      <3>1. ASSUME NEW c \in NextOf(kids, s)
            PROVE  d[c] + k > n
        <4>1. PICK x \in s : c \in kids[x]
          BY DEF NextOf
        <4>2. d[x] \in Nat /\ d[c] \in Nat /\ d[x] < d[c]
          BY <4>1 DEF IsKids
        <4>3. QED
          BY <2>1, <4>2
      <3>2. f[NextOf(kids, s)] = Reach(kids, NextOf(kids, s))
        BY <1>1, <1>3, <3>1
      <3>3. QED
        BY <1>1, <3>2
    <2>2. QED
      BY <2>1
  <1>4. n + 1 \in S
    <2>1. Nat \subseteq S
      <3> HIDE DEF S
      <3>1. QED
        BY <1>2, <1>3, Induction
    <2>2. QED
      BY <2>1
  <1>5. \A x \in from : d[x] + (n + 1) > n
    OBVIOUS
  <1>6. QED
    BY <1>4, <1>5

(* The kids of the tree lead down.                                         *)
LEMMA KidsDeeper ==
  ASSUME NEW T, IsTree(T), NEW n \in Nat, NEW d \in [Mods -> 0..n], Deeper(T, d), TreeAssumption
  PROVE  IsKids(Kids(T)) /\ \A x \in Mods : \A c \in Kids(T)[x] : d[x] < d[c]
  <1>1. \A x \in Mods : Kids(T)[x] = Children(T, x) /\ Children(T, x) \subseteq Registered(T)
    BY DEF Kids, IsTree, Children
  <1>2. Registered(T) \subseteq Mods
    BY DEF IsTree, Exists
  <1>3. IsKids(Kids(T))
    BY <1>1, <1>2 DEF IsKids, Kids
  <1>4. ASSUME NEW x \in Mods, NEW c \in Kids(T)[x]
        PROVE  d[x] < d[c]
    <2>1. c \in Registered(T) /\ T.parent[c] = x /\ x # Null
      BY <1>1, TreeAssumption DEF Children
    <2>2. QED
      BY <2>1 DEF Deeper
  <1>5. QED
    BY <1>3, <1>4

(* Below finds what is under the modules.                                  *)
LEMMA BelowIs ==
  ASSUME TreeAssumption, NEW T, IsTree(T), Rooted(T), NEW from \in SUBSET Mods
  PROVE  Below(T, from) = Reach(Kids(T), from)
  <1>0. PICK n \in Nat : \E d \in [Mods -> 0..n] : Deeper(T, d)
    BY DEF Rooted
  <1>1. PICK d \in [Mods -> 0..n] : Deeper(T, d)
    BY <1>0
  <1>2. IsKids(Kids(T)) /\ \A x \in Mods : \A c \in Kids(T)[x] : d[x] < d[c]
    BY <1>1, KidsDeeper
  <1>3. ASSUME NEW s \in SUBSET Mods
        PROVE  NextOf(Kids(T), s) = UNION {ToSet(T.children[x]) : x \in s}
    BY DEF NextOf, Kids
  <1> DEFINE Walks(f) == f = [s \in SUBSET Mods |->
                            s \cup LET next == UNION {ToSet(T.children[x]) : x \in s}
                                   IN  IF next = {} THEN {} ELSE f[next]]
  <1>4. PICK g : Walks(g)
    <2>1. PICK h : Spreads(h, Kids(T))
      BY <1>2, SpreadExists
    <2>2. Walks(h)
      BY <1>3, <2>1 DEF Spreads
    <2>3. QED
      BY <2>2
  <1>5. PICK f : Walks(f) /\ Below(T, from) = f[from]
    BY <1>4 DEF Below
  <1>6. Spreads(f, Kids(T))
    BY <1>3, <1>5 DEF Spreads
  <1>7. QED
    BY <1>1, <1>2, <1>5, <1>6, SpreadReaches

(* The children that have no value of their own take that of their parent. *)
Takers(T, map, k) == [m \in Mods |-> {c \in ToSet(T.children[m]) : map[c][k].own = Null}]

(* Who takes the value of a module in a slot, as what a walk reaches.      *)
LEMMA HeirsAre ==
  ASSUME TreeAssumption, NEW T, IsTree(T), Rooted(T), NEW map, NEW m \in Mods, NEW k
  PROVE  /\ IsKids(Takers(T, map, k))
         /\ Heirs(T, map, m, k) = Reach(Takers(T, map, k), {m}) \ {m}
  <1>0. PICK n \in Nat : \E d \in [Mods -> 0..n] : Deeper(T, d)
    BY DEF Rooted
  <1>1. PICK d \in [Mods -> 0..n] : Deeper(T, d)
    BY <1>0
  <1>2. IsKids(Kids(T)) /\ \A x \in Mods : \A c \in Kids(T)[x] : d[x] < d[c]
    BY <1>1, KidsDeeper
  <1>3. IsKids(Takers(T, map, k)) /\ \A x \in Mods : \A c \in Takers(T, map, k)[x] : d[x] < d[c]
    BY <1>2 DEF IsKids, Takers, Kids
  <1>4. ASSUME NEW s \in SUBSET Mods
        PROVE  NextOf(Takers(T, map, k), s)
                 = {c \in UNION {ToSet(T.children[x]) : x \in s} : map[c][k].own = Null}
    <2>1. \A x \in s : Takers(T, map, k)[x] = {c \in ToSet(T.children[x]) : map[c][k].own = Null}
      BY DEF Takers
    <2>2. NextOf(Takers(T, map, k), s) = UNION {{c \in ToSet(T.children[x]) : map[c][k].own = Null} : x \in s}
      BY <2>1 DEF NextOf
    <2>3. QED
      BY <2>2
  <1> DEFINE Walks(f) == f = [s \in SUBSET Mods |->
                s \cup LET next == {c \in UNION {ToSet(T.children[x]) : x \in s} : map[c][k].own = Null}
                       IN  IF next = {} THEN {} ELSE f[next]]
  <1>5. PICK g : Walks(g)
    <2>1. PICK h : Spreads(h, Takers(T, map, k))
      BY <1>3, SpreadExists
    <2>2. Walks(h)
      BY <1>4, <2>1 DEF Spreads
    <2>3. QED
      BY <2>2
  <1>6. PICK f : Walks(f) /\ Heirs(T, map, m, k) = f[{m}] \ {m}
    BY <1>5 DEF Heirs
  <1>7. Spreads(f, Takers(T, map, k))
    BY <1>4, <1>6 DEF Spreads
  <1>8. {m} \in SUBSET Mods
    OBVIOUS
  <1>9. f[{m}] = Reach(Takers(T, map, k), {m})
    BY <1>1, <1>3, <1>7, <1>8, SpreadReaches
  <1>10. QED
    BY <1>3, <1>6, <1>9

(***************************************************************************)
(* Lists: appending something new, and taking one element out.             *)
(***************************************************************************)
LEMMA Appended ==
  ASSUME NEW S, NEW s \in Seq(S), OneOfEach(s), NEW e \in S, e \notin ToSet(s)
  PROVE  /\ Append(s, e) \in Seq(S) /\ OneOfEach(Append(s, e))
         /\ ToSet(Append(s, e)) = ToSet(s) \cup {e}
  <1> DEFINE r == Append(s, e)
  <1>1. Len(s) \in Nat /\ DOMAIN s = 1..Len(s)
    BY LenProperties
  <1>2. /\ r \in Seq(S) /\ Len(r) = Len(s) + 1 /\ DOMAIN r = 1..(Len(s) + 1)
        /\ \A i \in 1..Len(s) : r[i] = s[i]
        /\ r[Len(s) + 1] = e
    BY AppendProperties, LenProperties
  <1> HIDE DEF r
  <1>3. \A i \in DOMAIN r : (i \in DOMAIN s /\ r[i] = s[i]) \/ (i = Len(s) + 1 /\ r[i] = e)
    BY <1>1, <1>2
  <1>4. OneOfEach(r)
    BY <1>3 DEF OneOfEach, ToSet
  <1>5. ToSet(r) = ToSet(s) \cup {e}
    BY <1>1, <1>2, <1>3 DEF ToSet
  <1>6. QED
    BY <1>2, <1>4, <1>5 DEF r

(* The first of the numbers of a set.                                      *)
LEMMA MinIs ==
  ASSUME NEW S, S \subseteq Nat, S # {}
  PROVE  Min(S) \in S /\ \A y \in S : Min(S) <= y
  <1>1. \E x \in S : \A y \in S : x <= y
    BY Least
  <1>2. QED
    BY <1>1 DEF Min

(* A list with no element twice, and one taken out.                        *)
LEMMA TakenOut ==
  ASSUME NEW S, NEW s \in Seq(S), OneOfEach(s), NEW e
  PROVE  /\ RemoveFirst(s, e) \in Seq(S) /\ OneOfEach(RemoveFirst(s, e))
         /\ ToSet(RemoveFirst(s, e)) = ToSet(s) \ {e}
  <1>1. Len(s) \in Nat /\ DOMAIN s = 1..Len(s) /\ \A i \in 1..Len(s) : s[i] \in S
    BY LenProperties, ElementOfSeq
  <1>2. CASE \A i \in 1..Len(s) : s[i] # e
    <2>1. RemoveFirst(s, e) = s
      BY <1>2 DEF RemoveFirst
    <2>2. QED
      BY <1>1, <1>2, <2>1 DEF ToSet
  <1>3. ASSUME NEW o \in 1..Len(s), s[o] = e
        PROVE  /\ RemoveFirst(s, e) \in Seq(S) /\ OneOfEach(RemoveFirst(s, e))
               /\ ToSet(RemoveFirst(s, e)) = ToSet(s) \ {e}
    <2>1. \A i \in 1..Len(s) : s[i] = e => i = o
      BY <1>1, <1>3 DEF OneOfEach
    <2>2. SelectInSeq(s, LAMBDA v : v = e) = o
      <3>1. {i \in 1..Len(s) : s[i] = e} = {o}
        BY <1>3, <2>1
      <3>2. Min({o}) = o
        <4>1. {o} \subseteq Nat /\ {o} # {}
          BY <1>1
        <4>2. Min({o}) \in {o}
          BY <4>1, MinIs
        <4>3. QED
          BY <4>2
      <3>3. QED
        BY <3>1, <3>2 DEF SelectInSeq
    <2> DEFINE a == SubSeq(s, 1, o - 1)
               b == SubSeq(s, o + 1, Len(s))
               r == a \o b
    <2>3. RemoveFirst(s, e) = r
      BY <1>3, <2>2 DEF RemoveFirst, RemoveAt
    <2>4. /\ a \in Seq(S) /\ Len(a) = o - 1 /\ \A i \in 1..(o - 1) : a[i] = s[i]
      BY <1>1
    <2>5. /\ b \in Seq(S) /\ Len(b) = Len(s) - o /\ \A i \in 1..(Len(s) - o) : b[i] = s[o + i]
      <3>1. PICK n \in Nat : n = Len(s)
        BY <1>1
      <3>2. PICK p \in Nat : p = o + 1
        BY <1>1
      <3>3. o \in 1..n /\ p \in Int /\ n \in Int
        BY <3>1
      <3>4. /\ \A i \in p..n : i \in 1..n
            /\ n - p + 1 = n - o /\ (~(p <= n) => n - o = 0)
            /\ \A i \in 1..(n - o) : p + i - 1 = o + i
        BY <3>2, <3>3
      <3>5. \A i \in p..n : s[i] \in S
        BY <1>1, <3>1, <3>4
      <3>6. /\ SubSeq(s, p, n) \in Seq(S) /\ Len(SubSeq(s, p, n)) = IF p <= n THEN n - p + 1 ELSE 0
            /\ \A i \in 1..(n - p + 1) : SubSeq(s, p, n)[i] = s[p + i - 1]
        BY <3>3, <3>5, SubSeqProperties
      <3>7. b = SubSeq(s, p, n)
        BY <3>1, <3>2
      <3> HIDE DEF b
      <3>8. /\ b \in Seq(S) /\ Len(b) = n - o /\ \A i \in 1..(n - o) : b[i] = s[o + i]
        BY <3>4, <3>6, <3>7
      <3>9. QED
        BY <3>1, <3>8
    <2> HIDE DEF a, b
    <2>6. /\ r \in Seq(S) /\ Len(r) = Len(s) - 1 /\ DOMAIN r = 1..(Len(s) - 1)
          /\ \A i \in 1..(Len(s) - 1) : r[i] = IF i < o THEN s[i] ELSE s[i + 1]
      <3>1. /\ r \in Seq(S) /\ Len(r) = Len(a) + Len(b)
            /\ \A i \in 1..(Len(a) + Len(b)) : r[i] = IF i <= Len(a) THEN a[i] ELSE b[i - Len(a)]
        BY <2>4, <2>5, ConcatProperties
      <3> HIDE DEF r
      <3>2. Len(r) = Len(s) - 1 /\ DOMAIN r = 1..(Len(s) - 1)
        BY <1>1, <2>4, <2>5, <3>1, LenProperties
      <3>3. ASSUME NEW i \in 1..(Len(s) - 1)
            PROVE  r[i] = IF i < o THEN s[i] ELSE s[i + 1]
        <4>1. CASE i < o
          <5>1. i \in 1..(o - 1) /\ i <= Len(a) /\ i \in 1..(Len(a) + Len(b))
            BY <1>1, <2>4, <2>5, <4>1
          <5>2. QED
            BY <2>4, <3>1, <4>1, <5>1
        <4>2. CASE ~(i < o)
          <5>1. i - (o - 1) \in 1..(Len(s) - o) /\ ~(i <= Len(a)) /\ i \in 1..(Len(a) + Len(b))
                /\ o + (i - (o - 1)) = i + 1
            BY <1>1, <2>4, <2>5, <4>2
          <5>2. r[i] = b[i - (o - 1)]
            BY <2>4, <3>1, <5>1
          <5>3. b[i - (o - 1)] = s[o + (i - (o - 1))]
            BY <2>5, <5>1
          <5>4. QED
            BY <4>2, <5>1, <5>2, <5>3
        <4>3. QED
          BY <4>1, <4>2
      <3>4. QED
        BY <3>1, <3>2, <3>3
    <2> HIDE DEF r
    <2>7. ASSUME NEW i \in DOMAIN r
          PROVE  \E j \in DOMAIN s \ {o} : r[i] = s[j] /\ j = IF i < o THEN i ELSE i + 1
      <3>1. i \in 1..(Len(s) - 1) /\ i \in 1..Len(s) /\ i + 1 \in 1..Len(s)
        BY <1>1, <2>6
      <3>2. QED
        BY <1>1, <2>6, <3>1
    <2>8. OneOfEach(r)
      <3>1. ASSUME NEW i \in DOMAIN r, NEW j \in DOMAIN r, r[i] = r[j]
            PROVE  i = j
        <4>1. i \in Nat /\ j \in Nat
          BY <2>6
        <4>2. (IF i < o THEN i ELSE i + 1) = IF j < o THEN j ELSE j + 1
          BY <2>7, <3>1 DEF OneOfEach
        <4>3. QED
          BY <4>1, <4>2
      <3>2. QED
        BY <3>1 DEF OneOfEach
    <2>9. ASSUME NEW j \in DOMAIN s \ {o}
          PROVE  \E i \in DOMAIN r : r[i] = s[j]
      <3>1. CASE j < o
        <4>1. j \in 1..(Len(s) - 1)
          BY <1>1, <3>1
        <4>2. QED
          BY <2>6, <3>1, <4>1
      <3>2. CASE ~(j < o)
        <4>1. j - 1 \in 1..(Len(s) - 1) /\ ~(j - 1 < o) /\ (j - 1) + 1 = j
          BY <1>1, <3>2
        <4>2. QED
          BY <2>6, <4>1
      <3>3. QED
        BY <3>1, <3>2
    <2>10. ToSet(r) = ToSet(s) \ {e}
      <3>1. \A j \in DOMAIN s : s[j] = e <=> j = o
        BY <1>1, <1>3, <2>1
      <3>2. QED
        BY <2>7, <2>9, <3>1 DEF ToSet
    <2>11. QED
      BY <2>3, <2>6, <2>8, <2>10
  <1>4. QED
    BY <1>2, <1>3

(* The first on the list who need not wait, or nobody.                     *)
LEMMA ReadyIs ==
  ASSUME NEW T, T.waiting \in Seq(Mods)
  PROVE  /\ Ready(T) = 0 => \A i \in DOMAIN T.waiting : MustWait(T, T.waiting[i])
         /\ Ready(T) # 0 => Ready(T) \in DOMAIN T.waiting /\ ~MustWait(T, T.waiting[Ready(T)])
  <1> DEFINE I == {i \in 1..Len(T.waiting) : ~MustWait(T, T.waiting[i])}
  <1>1. Ready(T) = IF I # {} THEN Min(I) ELSE 0
    BY DEF Ready, SelectInSeq
  <1>2. DOMAIN T.waiting = 1..Len(T.waiting) /\ Len(T.waiting) \in Nat
    BY LenProperties
  <1>3. I \subseteq Nat /\ 0 \notin I
    BY <1>2
  <1>4. I # {} => Min(I) \in I
    BY <1>3, MinIs
  <1>5. QED
    BY <1>1, <1>2, <1>3, <1>4

(***************************************************************************)
(* What is done to the tree keeps it one.                                  *)
(***************************************************************************)

(* The fields that a tree has.                                             *)
LEMMA TreeFields ==
  ASSUME NEW T, IsTree(T)
  PROVE  /\ T.parent \in [Mods -> Mods \cup {Null}] /\ T.children \in [Mods -> Seq(Mods)]
         /\ T.name \in [Mods -> Seq(STRING)] /\ T.level \in [Mods -> Levels \cup {Null}]
         /\ T.through \in [Mods -> BOOLEAN] /\ T.waiting \in Seq(Mods)
         /\ Registered(T) \subseteq Mods
  BY DEF IsTree, TreeShape, Exists

(* Only the parents of registered modules count.                           *)
LEMMA RootedSame ==
  ASSUME NEW T, Rooted(T), NEW U, Registered(U) \subseteq Registered(T),
         \A x \in Registered(U) : U.parent[x] \in {T.parent[x], Null}
  PROVE  Rooted(U)
  <1>1. PICK n \in Nat : \E d \in [Mods -> 0..n] : Deeper(T, d)
    BY DEF Rooted
  <1>2. PICK d \in [Mods -> 0..n] : Deeper(T, d)
    BY <1>1
  <1>3. Deeper(U, d)
    BY <1>2 DEF Deeper
  <1>4. QED
    BY <1>3 DEF Rooted

(* Flags and levels are no part of the shape.                              *)
LEMMA FlagKeepsTree ==
  ASSUME NEW T, IsTree(T), Rooted(T), NEW flags \in [Mods -> BOOLEAN],
         NEW U, U = [T EXCEPT !.through = flags]
  PROVE  /\ IsTree(U) /\ Rooted(U) /\ Registered(U) = Registered(T) /\ Exists(U) = Exists(T)
         /\ U.parent = T.parent /\ U.children = T.children /\ U.waiting = T.waiting
  <1>1. /\ U \in TreeShape /\ U.parent = T.parent /\ U.children = T.children /\ U.waiting = T.waiting
        /\ U.index = T.index /\ U.name = T.name /\ U.level = T.level
    BY DEF IsTree, TreeShape
  <1>2. Registered(U) = Registered(T) /\ Exists(U) = Exists(T)
    BY <1>1 DEF Registered, Exists
  <1>3. IsTree(U)
    BY <1>1, <1>2 DEF IsTree, Children
  <1>4. QED
    BY <1>1, <1>2, <1>3, RootedSame

(* Module::set_level: only levels change.                                  *)
LEMMA LevelKeepsTree ==
  ASSUME LevelsAssumption, NEW T, IsTree(T), Rooted(T), NEW from, NEW l \in Levels,
         NEW U, U = WithLevel(T, from, l)
  PROVE  /\ IsTree(U) /\ Rooted(U) /\ Registered(U) = Registered(T) /\ Exists(T) \subseteq Exists(U)
         /\ U.parent = T.parent /\ U.children = T.children /\ U.waiting = T.waiting
  <1>1. PICK levels : levels = [x \in Mods |-> IF x \in Below(T, from) THEN l ELSE T.level[x]]
    OBVIOUS
  <1>2. /\ U = [T EXCEPT !.level = levels] /\ levels \in [Mods -> Levels \cup {Null}]
        /\ \A x \in Mods : levels[x] \in {l, T.level[x]}
    BY <1>1, TreeFields DEF WithLevel
  <1>3. /\ U \in TreeShape /\ U.parent = T.parent /\ U.children = T.children /\ U.waiting = T.waiting
        /\ U.index = T.index /\ U.name = T.name
        /\ U.level = levels
    BY <1>2 DEF IsTree, TreeShape
  <1>4. Registered(U) = Registered(T) /\ Exists(T) \subseteq Exists(U)
    BY <1>2, <1>3 DEF Registered, Exists, LevelsAssumption
  <1>5. IsTree(U)
    BY <1>3, <1>4 DEF IsTree, Children
  <1>6. QED
    BY <1>3, <1>4, <1>5, RootedSame

(* Module::Module: a module that was not there has no children yet.        *)
LEMMA ConstructedTree ==
  ASSUME TreeAssumption, LevelsAssumption, NEW T, IsTree(T), Rooted(T), NEW m \in Mods, m \notin Exists(T),
         NEW p \in Mods \cup {Null}, NEW l \in Levels, NEW U, U = Constructed(T, m, p, l)
  PROVE  /\ IsTree(U) /\ Rooted(U) /\ Registered(U) = Registered(T) /\ Exists(U) = Exists(T) \cup {m}
         /\ U.parent = [T.parent EXCEPT ![m] = p] /\ U.children = T.children /\ U.waiting = T.waiting
  <1>1. /\ U \in TreeShape /\ U.parent = [T.parent EXCEPT ![m] = p] /\ U.children = T.children
        /\ U.waiting = T.waiting /\ U.index = T.index
        /\ U.name = [T.name EXCEPT ![m] = LocalName[m]] /\ U.level = [T.level EXCEPT ![m] = l]
    BY DEF IsTree, TreeShape, Constructed, TreeAssumption
  <1>2. m \notin Registered(T) /\ Registered(T) \subseteq Mods
    BY DEF IsTree, Exists
  <1>3. Registered(U) = Registered(T)
    BY <1>1 DEF Registered
  <1>4. Exists(U) = Exists(T) \cup {m}
    BY <1>1, TreeFields DEF Exists, LevelsAssumption
  <1>5. \A x \in Registered(T) : U.parent[x] = T.parent[x] /\ U.name[x] = T.name[x]
    BY <1>1, <1>2, TreeFields
  <1>6. U.index = {<<U.name[x], x>> : x \in Registered(T)}
    BY <1>1, <1>5 DEF IsTree
  <1>7. \A x \in Mods : Children(U, x) = Children(T, x)
    BY <1>3, <1>5 DEF Children
  <1>8. IsTree(U)
    BY <1>1, <1>3, <1>4, <1>5, <1>6, <1>7 DEF IsTree
  <1>9. Rooted(U)
    BY <1>3, <1>5, RootedSame
  <1>10. QED
    BY <1>1, <1>3, <1>4, <1>8, <1>9

(* The list of those that wait.                                            *)
LEMMA WaitsTree ==
  ASSUME NEW T, IsTree(T), Rooted(T), NEW m \in Exists(T) \ Registered(T), m \notin ToSet(T.waiting),
         NEW U, U = Waits(T, m)
  PROVE  /\ IsTree(U) /\ Rooted(U) /\ Registered(U) = Registered(T) /\ Exists(U) = Exists(T)
         /\ U.parent = T.parent /\ U.children = T.children /\ ToSet(U.waiting) = ToSet(T.waiting) \cup {m}
  <1>1. m \in Mods
    BY DEF Exists
  <1>2. /\ Append(T.waiting, m) \in Seq(Mods) /\ OneOfEach(Append(T.waiting, m))
        /\ ToSet(Append(T.waiting, m)) = ToSet(T.waiting) \cup {m}
    BY <1>1, Appended DEF IsTree, TreeShape
  <1>3. /\ U \in TreeShape /\ U.parent = T.parent /\ U.children = T.children
        /\ U.waiting = Append(T.waiting, m) /\ U.index = T.index /\ U.name = T.name /\ U.level = T.level
    BY <1>2 DEF IsTree, TreeShape, Waits
  <1>4. Registered(U) = Registered(T) /\ Exists(U) = Exists(T)
    BY <1>3 DEF Registered, Exists
  <1>5. IsTree(U)
    BY <1>2, <1>3, <1>4 DEF IsTree, Children
  <1>6. QED
    BY <1>2, <1>3, <1>4, <1>5, RootedSame

(* Module::init: the module becomes a leaf.                                *)
LEMMA InTreeTree ==
  ASSUME TreeAssumption, NEW T, IsTree(T), Rooted(T), NEW m, CanEnter(T, m), NEW U, U = InTree(T, m)
  PROVE  /\ IsTree(U) /\ Rooted(U) /\ m \in Mods
         /\ Registered(U) = Registered(T) \cup {m} /\ Exists(U) = Exists(T)
         /\ U.parent = T.parent /\ ToSet(U.waiting) = ToSet(T.waiting) \ {m}
         /\ \A x \in Mods : Children(U, x) = Children(T, x) \cup IF T.parent[m] = x THEN {m} ELSE {}
         /\ Children(T, m) = {}
  <1> DEFINE p == T.parent[m]
  <1>1. m \in Mods /\ m \notin Registered(T) /\ m \in Exists(T) /\ p \in Registered(T) \cup {Null}
        /\ Null \notin Mods /\ Registered(T) \subseteq Mods
    BY TreeFields DEF CanEnter, Exists, TreeAssumption
  <1>2. \A x \in Mods : T.children[x] \in Seq(Mods) /\ OneOfEach(T.children[x])
                        /\ ToSet(T.children[x]) = Children(T, x) /\ m \notin Children(T, x)
    BY <1>1 DEF IsTree, TreeShape, Children
  <1>3. /\ \A x \in Mods : /\ Append(T.children[x], m) \in Seq(Mods) /\ OneOfEach(Append(T.children[x], m))
                           /\ ToSet(Append(T.children[x], m)) = Children(T, x) \cup {m}
    BY <1>1, <1>2, Appended
  <1>4. /\ RemoveFirst(T.waiting, m) \in Seq(Mods) /\ OneOfEach(RemoveFirst(T.waiting, m))
        /\ ToSet(RemoveFirst(T.waiting, m)) = ToSet(T.waiting) \ {m}
    BY TakenOut DEF IsTree, TreeShape
  <1>5. FullName(T, m) \in Seq(STRING)
    <2>1. T.name[m] \in Seq(STRING) /\ (p # Null => T.name[p] \in Seq(STRING))
      BY <1>1, TreeFields
    <2>2. QED
      BY <2>1, ConcatProperties DEF FullName
  <1>6. /\ U \in TreeShape /\ U.parent = T.parent /\ U.waiting = RemoveFirst(T.waiting, m)
        /\ U.level = T.level /\ U.name = [T.name EXCEPT ![m] = FullName(T, m)]
        /\ U.index = T.index \cup {<<FullName(T, m), m>>}
        /\ U.children = IF p = Null THEN T.children ELSE [T.children EXCEPT ![p] = Append(T.children[p], m)]
    <2>1. PICK joined : joined = IF p = Null THEN T ELSE [T EXCEPT !.children[p] = Append(@, m)]
      OBVIOUS
    <2>2. /\ joined \in TreeShape /\ joined.parent = T.parent /\ joined.waiting = T.waiting
          /\ joined.level = T.level /\ joined.name = T.name /\ joined.index = T.index
          /\ joined.children = IF p = Null THEN T.children ELSE [T.children EXCEPT ![p] = Append(T.children[p], m)]
      <3>1. CASE p = Null
        BY <2>1, <3>1 DEF IsTree
      <3>2. CASE p # Null
        <4>1. p \in Mods /\ Append(T.children[p], m) \in Seq(Mods)
          BY <1>1, <1>3, <3>2
        <4>2. QED
          BY <2>1, <3>2, <4>1 DEF IsTree, TreeShape
      <3>3. QED
        BY <3>1, <3>2
    <2>3. U = [joined EXCEPT !.name[m] = FullName(T, m), !.index = @ \cup {<<FullName(T, m), m>>},
                             !.waiting = RemoveFirst(@, m)]
      BY <2>1 DEF InTree
    <2>4. [T.name EXCEPT ![m] = FullName(T, m)] \in [Mods -> Seq(STRING)]
      BY <1>1, <1>5, TreeFields
    <2>5. /\ U.parent = T.parent /\ U.waiting = RemoveFirst(T.waiting, m)
          /\ U.level = T.level /\ U.name = [T.name EXCEPT ![m] = FullName(T, m)]
          /\ U.index = T.index \cup {<<FullName(T, m), m>>} /\ U.children = joined.children
      BY <2>2, <2>3 DEF TreeShape
    <2>6. U \in TreeShape
      <3>1. PICK name, index, waiting :
              /\ name = [T.name EXCEPT ![m] = FullName(T, m)]
              /\ index = T.index \cup {<<FullName(T, m), m>>}
              /\ waiting = RemoveFirst(T.waiting, m)
        OBVIOUS
      <3>2. index \in SUBSET (Seq(STRING) \X Mods)
        BY <1>1, <1>5, <3>1 DEF IsTree, TreeShape
      <3>3. name \in [Mods -> Seq(STRING)] /\ waiting \in Seq(Mods)
        BY <1>4, <2>4, <3>1, TreeFields
      <3>4. PICK J : J = joined
        OBVIOUS
      <3>5. U = [J EXCEPT !.name = name, !.index = index, !.waiting = waiting]
        BY <2>2, <2>3, <3>1, <3>4
      <3>6. J \in TreeShape
        BY <2>2, <3>4
      <3>7. QED
        BY <3>2, <3>3, <3>5, <3>6 DEF TreeShape
    <2>7. QED
      BY <2>2, <2>5, <2>6
  <1>7. U.index = {<<U.name[x], x>> : x \in Registered(T) \cup {m}}
    <2>1. \A x \in Registered(T) : U.name[x] = T.name[x]
      BY <1>1, <1>6, TreeFields
    <2>2. U.name[m] = FullName(T, m)
      BY <1>1, <1>6, TreeFields
    <2>3. T.index = {<<T.name[x], x>> : x \in Registered(T)}
      BY DEF IsTree
    <2>4. QED
      BY <1>6, <2>1, <2>2, <2>3
  <1>8. Registered(U) = Registered(T) \cup {m}
    <2>1. PICK R : R = Registered(T) \cup {m}
      OBVIOUS
    <2>2. \A e : e \in U.index <=> \E x \in R : e = <<U.name[x], x>>
      BY <1>7, <2>1
    <2>3. Registered(U) = R
      <3>1. \A e \in U.index : e[2] \in R
        BY <2>2
      <3>2. \A x \in R : <<U.name[x], x>> \in U.index /\ <<U.name[x], x>>[2] = x
        BY <2>2
      <3>3. Registered(U) \subseteq R
        BY <3>1 DEF Registered
      <3>4. R \subseteq Registered(U)
        BY <3>2 DEF Registered
      <3>5. QED
        BY <3>3, <3>4
    <2>4. QED
      BY <2>1, <2>3
  <1>9. Exists(U) = Exists(T)
    BY <1>6 DEF Exists
  <1>10. \A x \in Mods : Children(U, x) = Children(T, x) \cup IF p = x THEN {m} ELSE {}
    BY <1>6, <1>8 DEF Children
  <1>11. Children(T, m) = {}
    BY <1>1 DEF Children, IsTree
  <1>12. ASSUME NEW x \in Mods
         PROVE  OneOfEach(U.children[x]) /\ ToSet(U.children[x]) = Children(U, x)
    <2>1. CASE p = x
      <3>1. U.children[x] = Append(T.children[x], m)
        BY <1>1, <1>6, <2>1, TreeFields
      <3>2. QED
        BY <1>3, <1>10, <2>1, <3>1
    <2>2. CASE p # x
      <3>1. U.children[x] = T.children[x]
        BY <1>1, <1>6, <2>2, TreeFields
      <3>2. QED
        BY <1>2, <1>10, <2>2, <3>1
    <2>3. QED
      BY <2>1, <2>2
  <1>13. IsTree(U)
    <2>1. \A x \in Registered(U) : U.parent[x] \in Registered(U) \cup {Null}
      BY <1>1, <1>6, <1>8 DEF IsTree
    <2>2. OneOfEach(U.waiting) /\ ToSet(U.waiting) \subseteq Exists(U) \ Registered(U)
      BY <1>4, <1>6, <1>8, <1>9 DEF IsTree
    <2>3. Registered(U) \subseteq Exists(U)
      BY <1>1, <1>8, <1>9 DEF IsTree
    <2>4. QED
      BY <1>6, <1>7, <1>8, <1>12, <2>1, <2>2, <2>3 DEF IsTree
  <1>14. Rooted(U)
    <2>1. PICK n \in Nat : \E d \in [Mods -> 0..n] : Deeper(T, d)
      BY DEF Rooted
    <2>2. PICK d \in [Mods -> 0..n] : Deeper(T, d)
      BY <2>1
    <2> DEFINE e == [d EXCEPT ![m] = n + 1]
    <2>3. e \in [Mods -> 0..(n + 1)] /\ n + 1 \in Nat
      <3>1. n + 1 \in 0..(n + 1) /\ 0..n \subseteq 0..(n + 1)
        OBVIOUS
      <3>2. \A x \in Mods : e[x] \in 0..(n + 1)
        BY <2>2, <3>1
      <3>3. e = [x \in Mods |-> e[x]]
        BY <2>2
      <3> HIDE DEF e
      <3>4. e \in [Mods -> 0..(n + 1)]
        BY <3>2, <3>3
      <3>5. QED
        BY <3>4
    <2>4. ASSUME NEW x \in Registered(U), U.parent[x] # Null
          PROVE  e[U.parent[x]] < e[x]
      <3>1. U.parent[x] = T.parent[x] /\ T.parent[x] \in Registered(T) /\ T.parent[x] # m
        BY <1>1, <1>6, <1>8, <2>4 DEF IsTree
      <3>2. e[T.parent[x]] = d[T.parent[x]] /\ d[T.parent[x]] \in 0..n
        BY <1>1, <2>2, <3>1
      <3>3. CASE x = m
        <4>1. e[x] = n + 1
          BY <1>1, <2>2, <3>3
        <4>2. QED
          BY <3>1, <3>2, <4>1
      <3>4. CASE x # m
        <4>1. x \in Registered(T) /\ e[x] = d[x]
          BY <1>1, <1>8, <2>2, <3>4
        <4>2. QED
          BY <2>2, <2>4, <3>1, <3>2, <4>1 DEF Deeper
      <3>5. QED
        BY <3>3, <3>4
    <2>5. QED
      BY <2>3, <2>4 DEF Rooted, Deeper
  <1>15. QED
    BY <1>1, <1>4, <1>6, <1>8, <1>9, <1>10, <1>11, <1>13, <1>14

(* Module::~Module: the children become roots.                             *)
LEMMA OutOfTreeTree ==
  ASSUME TreeAssumption, NEW T, IsTree(T), Rooted(T), NEW m \in Registered(T), NEW U, U = OutOfTree(T, m)
  PROVE  /\ IsTree(U) /\ Rooted(U) /\ Registered(U) = Registered(T) \ {m} /\ Exists(U) = Exists(T) \ {m}
         /\ U.waiting = T.waiting
         /\ \A x \in Mods : /\ U.parent[x] = IF x = m \/ x \in Children(T, m) THEN Null ELSE T.parent[x]
                            /\ Children(U, x) = IF x = m THEN {} ELSE Children(T, x) \ {m}
  <1>1. m \in Mods /\ Null \notin Mods /\ Registered(T) \subseteq Mods /\ m \in Exists(T)
        /\ ToSet(T.children[m]) = Children(T, m)
    BY TreeFields DEF TreeAssumption, IsTree
  <1>2. \A x \in Mods : /\ RemoveFirst(T.children[x], m) \in Seq(Mods) /\ OneOfEach(RemoveFirst(T.children[x], m))
                        /\ ToSet(RemoveFirst(T.children[x], m)) = Children(T, x) \ {m}
    BY TakenOut DEF IsTree, TreeShape
  <1>3. <<>> \in Seq(Mods) /\ <<>> \in Seq(STRING) /\ OneOfEach(<<>>) /\ ToSet(<<>>) = {}
    BY DEF OneOfEach, ToSet
  <1> DEFINE parent   == [x \in Mods |-> IF x = m \/ x \in ToSet(T.children[m]) THEN Null ELSE T.parent[x]]
             children == [x \in Mods |-> IF x = m THEN <<>> ELSE RemoveFirst(T.children[x], m)]
             name     == [T.name EXCEPT ![m] = <<>>]
             level    == [T.level EXCEPT ![m] = Null]
             through  == [T.through EXCEPT ![m] = FALSE]
  <1>4. U = [parent |-> parent, children |-> children, name |-> name, level |-> level, through |-> through,
             index |-> Unindexed(T, m), waiting |-> T.waiting]
    BY <1>1 DEF OutOfTree, IsTree, TreeShape
  <1>5. /\ parent \in [Mods -> Mods \cup {Null}] /\ children \in [Mods -> Seq(Mods)]
        /\ name \in [Mods -> Seq(STRING)] /\ level \in [Mods -> Levels \cup {Null}]
        /\ through \in [Mods -> BOOLEAN]
    BY <1>2, <1>3, TreeFields
  <1>6. Unindexed(T, m) \in SUBSET (Seq(STRING) \X Mods)
    BY DEF IsTree, TreeShape, Unindexed
  <1>7. \A x \in Mods : /\ parent[x] = IF x = m \/ x \in Children(T, m) THEN Null ELSE T.parent[x]
                        /\ children[x] = IF x = m THEN <<>> ELSE RemoveFirst(T.children[x], m)
                        /\ name[x] = IF x = m THEN <<>> ELSE T.name[x]
                        /\ level[x] = IF x = m THEN Null ELSE T.level[x]
    BY <1>1, TreeFields
  <1> HIDE DEF parent, children, name, level, through
  <1>4a. /\ U.parent = parent /\ U.children = children /\ U.name = name /\ U.level = level
         /\ U.index = Unindexed(T, m) /\ U.waiting = T.waiting
    BY <1>4
  <1>8. U \in TreeShape
    BY <1>4, <1>5, <1>6, TreeFields DEF TreeShape
  <1>9. Registered(U) = Registered(T) \ {m}
    <2>1. PICK R : R = Registered(T) \ {m}
      OBVIOUS
    <2>2. \A x \in R : U.name[x] = T.name[x]
      BY <1>1, <1>4a, <1>7, <2>1
    <2>3. \A e : e \in T.index <=> \E x \in Registered(T) : e = <<T.name[x], x>>
      BY DEF IsTree
    <2>4. \A e : e \in U.index <=> e \in T.index /\ e # <<T.name[m], m>>
      BY <1>4a DEF Unindexed
    <2>5. \A e : e \in U.index <=> \E x \in R : e = <<U.name[x], x>>
      BY <2>1, <2>2, <2>3, <2>4
    <2>6. Registered(U) = R
      <3>1. \A e \in U.index : e[2] \in R
        BY <2>5
      <3>2. \A x \in R : <<U.name[x], x>> \in U.index /\ <<U.name[x], x>>[2] = x
        BY <2>5
      <3>3. Registered(U) \subseteq R
        BY <3>1 DEF Registered
      <3>4. R \subseteq Registered(U)
        BY <3>2 DEF Registered
      <3>5. QED
        BY <3>3, <3>4
    <2>7. QED
      BY <2>1, <2>6
  <1>10. U.index = {<<U.name[x], x>> : x \in Registered(U)}
    <2>1. \A x \in Registered(U) : U.name[x] = T.name[x] /\ x # m /\ x \in Registered(T)
      BY <1>1, <1>4a, <1>7, <1>9
    <2>2. \A e : e \in T.index <=> \E x \in Registered(T) : e = <<T.name[x], x>>
      BY DEF IsTree
    <2>3. \A e : e \in U.index <=> e \in T.index /\ e # <<T.name[m], m>>
      BY <1>4a DEF Unindexed
    <2>4. \A e : e \in U.index <=> \E x \in Registered(U) : e = <<U.name[x], x>>
      BY <1>9, <2>1, <2>2, <2>3
    <2>5. QED
      BY <2>4
  <1>11. Exists(U) = Exists(T) \ {m}
    BY <1>4a, <1>7 DEF Exists
  <1>12. \A x \in Mods : Children(U, x) = IF x = m THEN {} ELSE Children(T, x) \ {m}
    <2>1. ASSUME NEW x \in Mods, NEW c \in Registered(T) \ {m}
          PROVE  U.parent[c] = x <=> x # m /\ T.parent[c] = x
      <3>1. U.parent[c] = IF c \in Children(T, m) THEN Null ELSE T.parent[c]
        BY <1>1, <1>4a, <1>7
      <3>2. c \in Children(T, m) <=> T.parent[c] = m
        BY DEF Children
      <3>3. QED
        BY <1>1, <3>1, <3>2
    <2>2. QED
      BY <1>1, <1>9, <2>1 DEF Children
  <1>13. ASSUME NEW x \in Mods
         PROVE  OneOfEach(U.children[x]) /\ ToSet(U.children[x]) = Children(U, x)
    <2>1. CASE x = m
      BY <1>3, <1>4a, <1>7, <1>12, <2>1
    <2>2. CASE x # m
      BY <1>2, <1>4a, <1>7, <1>12, <2>2
    <2>3. QED
      BY <2>1, <2>2
  <1>14. \A x \in Registered(U) : U.parent[x] \in Registered(U) \cup {Null} /\ U.parent[x] \in {T.parent[x], Null}
    <2>1. ASSUME NEW x \in Registered(U)
          PROVE  U.parent[x] \in Registered(U) \cup {Null} /\ U.parent[x] \in {T.parent[x], Null}
      <3>1. x \in Registered(T) /\ x # m /\ T.parent[x] \in Registered(T) \cup {Null}
        BY <1>9 DEF IsTree
      <3>2. U.parent[x] = IF x \in Children(T, m) THEN Null ELSE T.parent[x]
        BY <1>1, <1>4a, <1>7, <3>1
      <3>3. x \in Children(T, m) <=> T.parent[x] = m
        BY <3>1 DEF Children
      <3>4. QED
        BY <1>9, <3>1, <3>2, <3>3
    <2>2. QED
      BY <2>1
  <1>15. IsTree(U)
    <2>1. OneOfEach(U.waiting) /\ ToSet(U.waiting) \subseteq Exists(U) \ Registered(U)
      BY <1>4a, <1>9, <1>11 DEF IsTree
    <2>2. Registered(U) \subseteq Exists(U)
      BY <1>9, <1>11 DEF IsTree
    <2>3. QED
      BY <1>8, <1>10, <1>13, <1>14, <2>1, <2>2 DEF IsTree
  <1>16. Rooted(U)
    <2>1. Registered(U) \subseteq Registered(T)
      BY <1>9
    <2>2. QED
      BY <1>14, <2>1, RootedSame
  <1>17. QED
    BY <1>4a, <1>7, <1>9, <1>11, <1>12, <1>15, <1>16

(***************************************************************************)
(* What is under a module.                                                 *)
(***************************************************************************)
LEMMA KidsAre ==
  ASSUME NEW T, IsTree(T)
  PROVE  IsKids(Kids(T)) /\ \A x \in Mods : Kids(T)[x] = Children(T, x)
  BY TreeFields DEF IsKids, Kids, IsTree, Children

(* A module is under itself, and who is under one of the children is under *)
(* their parent.                                                           *)
LEMMA UnderUp ==
  ASSUME TreeAssumption, NEW T, IsTree(T), NEW a \in Mods
  PROVE  /\ Under(T, a) \in SUBSET Mods /\ a \in Under(T, a)
         /\ \A x \in Under(T, a) : Children(T, x) \subseteq Under(T, a)
         /\ \A x \in Registered(T) : T.parent[x] \in Under(T, a) => x \in Under(T, a)
  <1>1. /\ Under(T, a) \in SUBSET Mods /\ {a} \subseteq Under(T, a)
        /\ Closed(Kids(T), Under(T, a))
    BY KidsAre, Reaches DEF Under
  <1>2. \A x \in Under(T, a) : Children(T, x) \subseteq Under(T, a)
    BY <1>1, KidsAre DEF Closed
  <1>3. QED
    BY <1>1, <1>2 DEF Children

(* What is under a module is the least such set.                           *)
LEMMA UnderLeast ==
  ASSUME NEW T, IsTree(T), NEW a \in Mods, NEW S \in SUBSET Mods, a \in S,
         \A x \in S : Children(T, x) \subseteq S
  PROVE  Under(T, a) \subseteq S
  <1>1. Closed(Kids(T), S)
    BY KidsAre DEF Closed
  <1>2. {a} \in SUBSET Mods /\ {a} \subseteq S
    OBVIOUS
  <1>3. QED
    BY <1>1, <1>2, KidsAre, Reaches DEF Under

(* Where the children are the same, so is what is under.                   *)
LEMMA UnderSame ==
  ASSUME NEW T, IsTree(T), NEW U, U.children = T.children, NEW a
  PROVE  Under(U, a) = Under(T, a)
  BY DEF Under, Kids

(* A new leaf has nobody under it.                                         *)
LEMMA UnderInTree ==
  ASSUME TreeAssumption, NEW T, IsTree(T), Rooted(T), NEW m, CanEnter(T, m), NEW U, U = InTree(T, m),
         NEW a \in Mods, NEW x \in Registered(T), x \in Under(U, a)
  PROVE  a \in Registered(T) /\ x \in Under(T, a)
  <1>1. /\ IsTree(U) /\ m \in Mods /\ Children(T, m) = {} /\ m \notin Registered(T)
        /\ \A y \in Mods : Children(U, y) \subseteq Children(T, y) \cup {m}
    BY InTreeTree DEF CanEnter
  <1>2. /\ Under(T, a) \in SUBSET Mods /\ a \in Under(T, a)
        /\ \A y \in Under(T, a) : Children(T, y) \subseteq Under(T, a)
    BY UnderUp
  <1>3. Under(U, a) \subseteq Under(T, a) \cup {m}
    <2>1. PICK S : S = Under(T, a) \cup {m}
      OBVIOUS
    <2>2. S \in SUBSET Mods /\ a \in S /\ \A y \in S : Children(U, y) \subseteq S
      BY <1>1, <1>2, <2>1
    <2>3. Under(U, a) \subseteq S
      BY <1>1, <2>2, UnderLeast
    <2>4. QED
      BY <2>1, <2>3
  <1>4. x \in Under(T, a)
    BY <1>1, <1>3
  <1>5. a \in Registered(T)
    <2>1. CASE Children(T, a) = {}
      <3>1. PICK S : S = {a}
        OBVIOUS
      <3>2. S \in SUBSET Mods /\ a \in S /\ \A y \in S : Children(T, y) \subseteq S
        BY <2>1, <3>1
      <3>3. Under(T, a) \subseteq S
        BY <3>2, UnderLeast
      <3>4. QED
        BY <1>4, <3>1, <3>3
    <2>2. ASSUME NEW c \in Children(T, a)
          PROVE  a \in Registered(T)
      BY <2>2 DEF Children, IsTree, TreeAssumption
    <2>3. QED
      BY <2>1, <2>2
  <1>6. QED
    BY <1>4, <1>5

(* Nothing comes under a module because another one goes.                  *)
LEMMA UnderOutOfTree ==
  ASSUME TreeAssumption, NEW T, IsTree(T), Rooted(T), NEW m \in Registered(T), NEW U, U = OutOfTree(T, m),
         NEW a \in Mods
  PROVE  Under(U, a) \subseteq Under(T, a)
  <1>1. IsTree(U) /\ \A y \in Mods : Children(U, y) \subseteq Children(T, y)
    BY OutOfTreeTree
  <1>2. /\ Under(T, a) \in SUBSET Mods /\ a \in Under(T, a)
        /\ \A y \in Under(T, a) : Children(T, y) \subseteq Under(T, a)
    BY UnderUp
  <1>3. QED
    BY <1>1, <1>2, UnderLeast

(***************************************************************************)
(* The data of the modules.                                                *)
(***************************************************************************)
LEMMA Slotted ==
  ASSUME NEW e \in Entry, NEW k \in Slots
  PROVE  e[k].own \in Values(k) /\ e[k].eff \in Values(k)
  BY DEF Entry, Slots

(* An entry has a value of its own and one in effect for each slot.        *)
LEMMA EntryIs ==
  ASSUME NEW f, f = [k \in Slots |-> [own |-> f[k].own, eff |-> f[k].eff]],
         \A k \in Slots : f[k].own \in Values(k) /\ f[k].eff \in Values(k)
  PROVE  f \in Entry
  BY DEF Entry, Slots

(* Data with entries for some modules are what MapType says.               *)
LEMMA MapTyped ==
  ASSUME NEW R \in SUBSET Mods, NEW map \in [R -> Entry]
  PROVE  map \in MapType
  BY DEF MapType, Entry, Values

(* init(): a new module has what its parent has, or the default formatter. *)
LEMMA EntersMap ==
  ASSUME TreeAssumption, NEW T, IsTree(T), Rooted(T), NEW m, CanEnter(T, m), NEW U, U = InTree(T, m),
         NEW map, GoodMap(T, map)
  PROVE  GoodMap(U, WithModule(T, map, m))
  <1> DEFINE new == WithModule(T, map, m)
             p   == T.parent[m]
  <1>1. /\ m \in Mods /\ m \notin Registered(T) /\ p \in Registered(T) \cup {Null} /\ Null \notin Mods
        /\ Registered(T) \subseteq Mods
    BY TreeFields DEF CanEnter, Exists, TreeAssumption
  <1>2. Registered(U) = Registered(T) \cup {m} /\ U.parent = T.parent /\ DOMAIN map = Registered(T)
    BY InTreeTree DEF GoodMap
  <1>3. /\ new = [x \in Registered(U) |-> new[x]]
        /\ \A x \in Registered(T) : new[x] = map[x]
        /\ new[m] = Inherits(T, map, m)
    BY <1>1, <1>2 DEF WithModule
  <1>4. /\ Inherits(T, map, m) \in Entry /\ Inherits(T, map, m).formatter.eff # Null
        /\ \A k \in Slots : Inherits(T, map, m)[k].eff
             = IF Inherits(T, map, m)[k].own = Null /\ p # Null THEN map[p][k].eff ELSE Inherits(T, map, m)[k].own
    <2>1. CASE p = Null
      <3>1. Inherits(T, map, m) = [logger    |-> [own |-> Null, eff |-> Null],
                                   formatter |-> [own |-> Default, eff |-> Default]]
        BY <2>1 DEF Inherits
      <3>2. QED
        BY <2>1, <3>1 DEF Entry, Values, Slots, TreeAssumption
    <2>2. CASE p # Null
      <3>1. PICK f : f = [k \in Slots |-> [own |-> Null, eff |-> map[p][k].eff]]
        OBVIOUS
      <3>2. Inherits(T, map, m) = f
        BY <2>2, <3>1 DEF Inherits
      <3>3. map[p] \in Entry /\ map[p].formatter.eff # Null
        BY <1>1, <1>2, <2>2 DEF GoodMap, Formatted
      <3>4. \A k \in Slots : f[k].own = Null /\ f[k].eff = map[p][k].eff /\ f[k].eff \in Values(k)
        BY <3>1, <3>3, Slotted
      <3>5. f \in Entry
        <4>1. f = [k \in Slots |-> [own |-> f[k].own, eff |-> f[k].eff]]
          BY <3>1, <3>4
        <4>2. \A k \in Slots : f[k].own \in Values(k) /\ f[k].eff \in Values(k)
          BY <3>4 DEF Values
        <4>3. QED
          BY <4>1, <4>2, EntryIs
      <3>6. f.formatter.eff # Null
        BY <3>3, <3>4 DEF Slots
      <3>7. QED
        BY <2>2, <3>2, <3>4, <3>5, <3>6
    <2>3. QED
      BY <2>1, <2>2
  <1> HIDE DEF new
  <1>5. new \in [Registered(U) -> Entry]
    <2>1. \A x \in Registered(U) : new[x] \in Entry
      BY <1>2, <1>3, <1>4 DEF GoodMap
    <2>2. QED
      BY <1>3, <2>1
  <1>6. Formatted(new)
    <2>1. \A x \in Registered(U) : new[x].formatter.eff # Null
      BY <1>2, <1>3, <1>4 DEF GoodMap, Formatted
    <2>2. QED
      BY <1>5, <2>1 DEF Formatted
  <1>7. ASSUME NEW x \in Registered(U), NEW k \in Slots
        PROVE  new[x][k].eff = IF new[x][k].own = Null /\ U.parent[x] # Null
                               THEN new[U.parent[x]][k].eff ELSE new[x][k].own
    <2>1. CASE x = m
      BY <1>1, <1>2, <1>3, <1>4, <2>1
    <2>2. CASE x # m
      <3>1. x \in Registered(T) /\ T.parent[x] \in Registered(T) \cup {Null}
        BY <1>2, <2>2 DEF IsTree
      <3>2. map[x][k].eff = IF map[x][k].own = Null /\ T.parent[x] # Null
                            THEN map[T.parent[x]][k].eff ELSE map[x][k].own
        BY <3>1 DEF GoodMap, Nearest
      <3>3. QED
        BY <1>2, <1>3, <3>1, <3>2
    <2>3. QED
      BY <2>1, <2>2
  <1>8. QED
    BY <1>5, <1>6, <1>7 DEF GoodMap, Nearest, new

(* ~Module: what was in effect for the children becomes their own.         *)
LEMMA LeavesMap ==
  ASSUME TreeAssumption, NEW T, IsTree(T), Rooted(T), NEW m \in Registered(T), NEW U, U = OutOfTree(T, m),
         NEW map, GoodMap(T, map)
  PROVE  GoodMap(U, WithoutModule(T, map, m))
  <1> DEFINE new == WithoutModule(T, map, m)
  <1>1. /\ m \in Mods /\ Registered(T) \subseteq Mods /\ Null \notin Mods /\ DOMAIN map = Registered(T)
        /\ ToSet(T.children[m]) = Children(T, m)
    BY TreeFields DEF TreeAssumption, GoodMap, IsTree
  <1>2. /\ Registered(U) = Registered(T) \ {m}
        /\ \A x \in Registered(U) : U.parent[x] = IF x \in Children(T, m) THEN Null ELSE T.parent[x]
    BY <1>1, OutOfTreeTree
  <1>3. \A x \in Registered(U) : x \in Children(T, m) =>
          new[x] = [k \in Slots |-> [own |-> map[x][k].eff, eff |-> map[x][k].eff]]
    BY <1>1, <1>2 DEF WithoutModule
  <1>4. \A x \in Registered(U) : x \notin Children(T, m) => new[x] = map[x]
    BY <1>1, <1>2 DEF WithoutModule
  <1>5. new = [x \in Registered(U) |-> new[x]]
    BY <1>1, <1>2 DEF WithoutModule
  <1> HIDE DEF new
  <1>6. ASSUME NEW x \in Registered(U)
        PROVE  /\ new[x] \in Entry /\ new[x].formatter.eff # Null
               /\ \A k \in Slots : new[x][k].eff = map[x][k].eff
    <2>1. map[x] \in Entry /\ map[x].formatter.eff # Null
      BY <1>1, <1>2 DEF GoodMap, Formatted
    <2>2. CASE x \in Children(T, m)
      <3>1. PICK f : f = [k \in Slots |-> [own |-> map[x][k].eff, eff |-> map[x][k].eff]]
        OBVIOUS
      <3>2. \A k \in Slots : f[k].own = map[x][k].eff /\ f[k].eff = map[x][k].eff /\ f[k].eff \in Values(k)
        BY <2>1, <3>1, Slotted
      <3>3. f = [k \in Slots |-> [own |-> f[k].own, eff |-> f[k].eff]]
        BY <3>1, <3>2
      <3>4. f \in Entry
        BY <3>2, <3>3, EntryIs
      <3>5. new[x] = f /\ f.formatter.eff # Null
        BY <1>3, <2>1, <2>2, <3>1, <3>2 DEF Slots
      <3>6. QED
        BY <3>2, <3>4, <3>5
    <2>3. CASE x \notin Children(T, m)
      BY <1>4, <2>1, <2>3
    <2>4. QED
      BY <2>2, <2>3
  <1>7. new \in [Registered(U) -> Entry] /\ Formatted(new)
    BY <1>5, <1>6 DEF Formatted
  <1>8. ASSUME NEW x \in Registered(U), NEW k \in Slots
        PROVE  new[x][k].eff = IF new[x][k].own = Null /\ U.parent[x] # Null
                               THEN new[U.parent[x]][k].eff ELSE new[x][k].own
    <2>1. CASE x \in Children(T, m)
      <3>1. new[x][k] = [own |-> map[x][k].eff, eff |-> map[x][k].eff]
        BY <1>3, <2>1
      <3>2. new[x][k].own = new[x][k].eff /\ U.parent[x] = Null
        BY <1>2, <2>1, <3>1
      <3>3. QED
        BY <3>2
    <2>2. CASE x \notin Children(T, m)
      <3>1. /\ x \in Registered(T) /\ T.parent[x] \in Registered(T) \cup {Null} /\ T.parent[x] # m
            /\ U.parent[x] = T.parent[x] /\ new[x] = map[x]
        BY <1>2, <1>4, <2>2 DEF IsTree, Children
      <3>2. map[x][k].eff = IF map[x][k].own = Null /\ T.parent[x] # Null
                            THEN map[T.parent[x]][k].eff ELSE map[x][k].own
        BY <3>1 DEF GoodMap, Nearest
      <3>3. T.parent[x] # Null => new[T.parent[x]][k].eff = map[T.parent[x]][k].eff
        BY <1>2, <1>6, <3>1
      <3>4. QED
        BY <3>1, <3>2, <3>3
    <2>3. QED
      BY <2>1, <2>2
  <1>9. QED
    BY <1>7, <1>8 DEF GoodMap, Nearest, new

(* set_logger, set_formatter: the value goes down to those that have none  *)
(* of their own, and nowhere else.                                         *)
LEMMA SetsMap ==
  ASSUME TreeAssumption, NEW T, IsTree(T), Rooted(T), NEW m \in Registered(T), NEW k \in Slots,
         NEW v \in Values(k), NEW map, GoodMap(T, map)
  PROVE  GoodMap(T, WithValue(T, map, m, k, v))
  <1> DEFINE new == WithValue(T, map, m, k, v)
             H   == Heirs(T, map, m, k)
             own == Own(T, m, k, v)
             E   == Effective(T, map, m, k, v)
             p   == T.parent[m]
  <1>1. /\ m \in Mods /\ Registered(T) \subseteq Mods /\ Null \notin Mods /\ DOMAIN map = Registered(T)
        /\ p \in Registered(T) \cup {Null} /\ \A x \in Registered(T) : map[x] \in Entry
    BY TreeFields DEF TreeAssumption, GoodMap, IsTree
  <1>2. own \in Values(k) /\ (own # Null => v # Null \/ p = Null)
    BY DEF Own, Values, TreeAssumption, Slots
  <1>3. E = IF own = Null /\ p # Null THEN map[p][k].eff ELSE own
    BY DEF Effective, Own
  <1>4. E \in Values(k) /\ (k = "formatter" => E # Null)
    <2>1. CASE own = Null /\ p # Null
      <3>1. p \in Registered(T) /\ map[p] \in Entry /\ map[p].formatter.eff # Null
        BY <1>1, <2>1 DEF GoodMap, Formatted
      <3>2. QED
        BY <1>3, <2>1, <3>1, Slotted
    <2>2. CASE ~(own = Null /\ p # Null)
      <3>1. k = "formatter" => own # Null
        BY <2>2 DEF Own, TreeAssumption
      <3>2. QED
        BY <1>2, <1>3, <2>2, <3>1
    <2>3. QED
      BY <2>1, <2>2
  <1>5. /\ H \subseteq Mods
        /\ \A x \in Registered(T) : x \in H => x # m /\ map[x][k].own = Null /\ T.parent[x] \in H \cup {m}
        /\ \A x \in Registered(T) : x # m /\ map[x][k].own = Null /\ T.parent[x] \in H \cup {m} => x \in H
    <2> DEFINE kids == Takers(T, map, k)
               all  == Reach(kids, {m})
    <2>1. IsKids(kids) /\ H = all \ {m}
      BY <1>1, HeirsAre
    <2>2. \A x \in Mods : kids[x] = {c \in Children(T, x) : map[c][k].own = Null}
      BY DEF Takers, IsTree
    <2>3. /\ all \in SUBSET Mods /\ {m} \subseteq all /\ Closed(kids, all)
          /\ \A S \in SUBSET Mods : {m} \subseteq S /\ Closed(kids, S) => all \subseteq S
      <3>1. {m} \in SUBSET Mods
        BY <1>1
      <3> HIDE DEF kids
      <3>2. QED
        BY <2>1, <3>1, Reaches
    <2> HIDE DEF kids, all
    <2>4. \A x \in Registered(T) : map[x][k].own = Null /\ T.parent[x] \in all => x \in all
      BY <1>1, <2>2, <2>3 DEF Closed, Children
    <2> DEFINE S == {x \in all : x = m \/ (map[x][k].own = Null /\ T.parent[x] \in all)}
    <2>5. all \subseteq S
      <3>1. S \in SUBSET Mods /\ {m} \subseteq S
        BY <2>3
      <3>2. ASSUME NEW x \in S, NEW c \in kids[x]
            PROVE  c \in S
        <4>1. x \in all /\ x \in Mods /\ c \in Registered(T) /\ T.parent[c] = x /\ map[c][k].own = Null
          BY <2>2, <2>3, <3>2 DEF Children
        <4>2. QED
          BY <2>4, <4>1
      <3>3. Closed(kids, S)
        BY <3>2 DEF Closed
      <3> HIDE DEF S
      <3>4. QED
        BY <2>3, <3>1, <3>3
    <2>6. H \cup {m} = all
      BY <2>1, <2>3
    <2>7. QED
      BY <2>1, <2>3, <2>4, <2>5, <2>6
  <1>6. p \notin H \cup {m}
    <2>1. PICK n \in Nat : \E d \in [Mods -> 0..n] : Deeper(T, d)
      BY DEF Rooted
    <2>2. PICK d \in [Mods -> 0..n] : Deeper(T, d)
      BY <2>1
    <2> DEFINE S == {x \in Mods : d[m] <= d[x]}
               kids == Takers(T, map, k)
    <2>3. H \cup {m} \subseteq S
      <3>1. IsKids(kids) /\ H = Reach(kids, {m}) \ {m}
        BY <1>1, HeirsAre
      <3>2. \A x \in Mods : kids[x] \subseteq Children(T, x)
        BY DEF Takers, IsTree
      <3>3. S \in SUBSET Mods /\ {m} \subseteq S
        BY <1>1, <2>2
      <3>4. ASSUME NEW x \in S, NEW c \in kids[x]
            PROVE  c \in S
        <4>1. c \in Registered(T) /\ T.parent[c] = x /\ x # Null /\ c \in Mods
          BY <1>1, <3>2 DEF Children
        <4>2. d[x] < d[c] /\ d[m] <= d[x] /\ d[m] \in Nat /\ d[x] \in Nat /\ d[c] \in Nat
          BY <1>1, <2>2, <4>1 DEF Deeper
        <4>3. QED
          BY <4>1, <4>2
      <3> HIDE DEF S, kids
      <3>5. Closed(kids, S)
        BY <3>4 DEF Closed
      <3>6. {m} \in SUBSET Mods
        BY <1>1
      <3>7. Reach(kids, {m}) \subseteq S
        BY <3>1, <3>3, <3>5, <3>6, Reaches
      <3>8. QED
        BY <3>1, <3>3, <3>7
    <2>4. p # Null => d[p] < d[m]
      BY <2>2 DEF Deeper
    <2>5. p \notin S
      <3>1. CASE p = Null
        BY <1>1, <3>1
      <3>2. CASE p # Null
        <4>1. d[p] \in Nat /\ d[m] \in Nat
          BY <1>1, <2>2, <3>2
        <4>2. QED
          BY <2>4, <3>2, <4>1
      <3>3. QED
        BY <3>1, <3>2
    <2>6. QED
      BY <2>3, <2>5
  <1>7. /\ new = [x \in Registered(T) |-> new[x]]
        /\ new[m] = [map[m] EXCEPT ![k] = [own |-> own, eff |-> E]]
        /\ \A x \in Registered(T) : x # m /\ x \in H => new[x] = [map[x] EXCEPT ![k].eff = E]
        /\ \A x \in Registered(T) : x # m /\ x \notin H => new[x] = map[x]
    BY <1>1 DEF WithValue
  <1> HIDE DEF new, H, own, E, p
  <1>8. ASSUME NEW x \in Registered(T)
        PROVE  /\ new[x] \in Entry
               /\ new[x][k].own = IF x = m THEN own ELSE map[x][k].own
               /\ new[x][k].eff = IF x \in H \cup {m} THEN E ELSE map[x][k].eff
               /\ \A j \in Slots \ {k} : new[x][j] = map[x][j]
    <2>1. map[x] \in Entry
      BY <1>1
    <2>2. CASE x = m
      BY <1>2, <1>4, <1>7, <2>1, <2>2 DEF Entry, Slots
    <2>3. CASE x # m /\ x \in H
      <3>1. PICK e \in Entry : e = map[x]
        BY <2>1
      <3>2. new[x] = [e EXCEPT ![k].eff = E]
        BY <1>7, <2>3, <3>1
      <3>3. new[x] \in Entry /\ new[x][k].own = e[k].own /\ new[x][k].eff = E
            /\ \A j \in Slots \ {k} : new[x][j] = e[j]
        <4>1. CASE k = "logger"
          BY <1>4, <3>2, <4>1 DEF Entry, Slots
        <4>2. CASE k = "formatter"
          BY <1>4, <3>2, <4>2 DEF Entry, Slots
        <4>3. QED
          BY <4>1, <4>2 DEF Slots
      <3>4. QED
        BY <2>3, <3>1, <3>3
    <2>4. CASE x # m /\ x \notin H
      BY <1>7, <2>1, <2>4
    <2>5. QED
      BY <2>2, <2>3, <2>4
  <1>9. new \in [Registered(T) -> Entry]
    BY <1>7, <1>8
  <1>10. Formatted(new)
    <2>1. ASSUME NEW x \in Registered(T)
          PROVE  new[x].formatter.eff # Null
      <3>1. map[x].formatter.eff # Null
        BY <1>1 DEF GoodMap, Formatted
      <3>2. "formatter" \in Slots
        BY DEF Slots
      <3>3. CASE k = "formatter"
        BY <1>4, <1>8, <3>1, <3>3
      <3>4. CASE k # "formatter"
        BY <1>8, <3>1, <3>2, <3>4
      <3>5. QED
        BY <3>3, <3>4
    <2>2. QED
      BY <1>9, <2>1 DEF Formatted
  <1>11. ASSUME NEW x \in Registered(T), NEW j \in Slots
         PROVE  new[x][j].eff = IF new[x][j].own = Null /\ T.parent[x] # Null
                                THEN new[T.parent[x]][j].eff ELSE new[x][j].own
    <2>1. T.parent[x] \in Registered(T) \cup {Null}
      BY DEF IsTree
    <2>2. map[x][j].eff = IF map[x][j].own = Null /\ T.parent[x] # Null
                          THEN map[T.parent[x]][j].eff ELSE map[x][j].own
      BY DEF GoodMap, Nearest
    <2>3. CASE j # k
      BY <1>8, <2>1, <2>2, <2>3
    <2>4. CASE j = k /\ x = m
      <3>1. new[x][j].own = own /\ new[x][j].eff = E
        BY <1>8, <2>4
      <3>2. p # Null => p \in Registered(T) /\ new[p][k].eff = map[p][k].eff
        BY <1>1, <1>6, <1>8
      <3>3. QED
        BY <1>3, <2>4, <3>1, <3>2 DEF p
    <2>5. CASE j = k /\ x # m /\ x \in H
      <3>1. map[x][k].own = Null /\ T.parent[x] \in H \cup {m} /\ T.parent[x] # Null
        <4>1. Null \notin H
          BY <1>1, <1>5
        <4>2. QED
          BY <1>1, <1>5, <2>5, <4>1
      <3>2. QED
        BY <1>8, <2>1, <2>5, <3>1
    <2>6. CASE j = k /\ x # m /\ x \notin H
      <3>1. map[x][k].own = Null => T.parent[x] \notin H \cup {m}
        BY <1>5, <2>6
      <3>2. QED
        BY <1>8, <2>1, <2>2, <2>6, <3>1
    <2>7. QED
      BY <2>3, <2>4, <2>5, <2>6
  <1>12. QED
    BY <1>9, <1>10, <1>11 DEF GoodMap, Nearest, new

(***************************************************************************)
(* The calls after a step.                                                 *)
(***************************************************************************)
LEMMA TopIs ==
  ASSUME RevInv, NEW t \in Threads, calls[t] # <<>>
  PROVE  Len(calls[t]) \in DOMAIN calls[t] /\ Top(t) = calls[t][Len(calls[t])] /\ IsCall(Top(t))
  <1>1. calls[t] \in Seq(Elements(calls[t])) /\ DOMAIN calls[t] = 1..Len(calls[t])
    BY ElementsSeq DEF RevInv, CallsInv
  <1>2. Len(calls[t]) \in DOMAIN calls[t]
    BY <1>1, EmptySeq
  <1>3. QED
    BY <1>2, TopOK DEF Top, Last, CallOK

(* What is left of the calls of the thread, with what the step puts there. *)
Left(t, cs, old) ==
  /\ \A u \in Threads \ {t} : calls'[u] = calls[u]
  /\ \A i \in DOMAIN calls'[t] : \/ i \in old /\ calls'[t][i] = calls[t][i]
                                 \/ cs # <<>> /\ calls'[t][i] = cs[1] /\ i = Len(calls'[t])
  /\ \A i \in old : i \in DOMAIN calls'[t] /\ calls'[t][i] = calls[t][i]
  /\ cs # <<>> => \E i \in DOMAIN calls'[t] : calls'[t][i] = cs[1]

(* A thread begins a call.                                                 *)
LEMMA CallsBegin ==
  ASSUME RevInv, MaxCallsAssumption, NEW t \in Threads, NEW cs, cs \in Seq(Elements(cs)), Len(cs) <= 1,
         Begins(t, cs), Len(calls[t]) <= MaxCalls
  PROVE  Left(t, cs, DOMAIN calls[t]) /\ Len(calls'[t]) <= MaxCalls
  <1>1. /\ calls[t] \in Seq(Elements(calls[t])) /\ DOMAIN calls[t] = 1..Len(calls[t]) /\ Len(calls[t]) \in Nat
        /\ calls = [u \in Threads |-> calls[u]]
    BY ElementsSeq DEF RevInv, CallsInv
  <1>2. PICK r : r = calls[t] \o cs
    OBVIOUS
  <1>3. calls'[t] = r /\ \A u \in Threads \ {t} : calls'[u] = calls[u]
    BY <1>1, <1>2 DEF Begins
  <1>4. /\ DOMAIN r = 1..Len(r) /\ Len(r) = Len(calls[t]) + Len(cs)
        /\ \A i \in 1..Len(calls[t]) : r[i] = calls[t][i]
        /\ cs # <<>> => r[Len(r)] = cs[1]
    BY <1>1, <1>2, Pushed
  <1>5. Len(cs) \in Nat /\ (Len(cs) = 0 => cs = <<>>)
    BY LenProperties, EmptySeq
  <1>6. ASSUME NEW i \in DOMAIN r
        PROVE  (i \in DOMAIN calls[t] /\ r[i] = calls[t][i]) \/ (cs # <<>> /\ r[i] = cs[1] /\ i = Len(r))
    <2>1. i \in 1..Len(calls[t]) \/ (i = Len(r) /\ Len(cs) # 0)
      BY <1>1, <1>4, <1>5
    <2>2. QED
      BY <1>1, <1>4, <2>1, EmptySeq
  <1>7. Len(r) <= MaxCalls
    <2>1. CASE calls[t] = <<>>
      BY <1>1, <1>4, <1>5, <2>1, EmptySeq DEF MaxCallsAssumption
    <2>2. CASE calls[t] # <<>>
      <3>1. Len(calls[t]) < MaxCalls
        BY <2>2 DEF Begins, Free
      <3>2. QED
        BY <1>1, <1>4, <1>5, <3>1 DEF MaxCallsAssumption
    <2>3. QED
      BY <2>1, <2>2
  <1>8. \A i \in DOMAIN calls[t] : i \in DOMAIN r /\ r[i] = calls[t][i]
    BY <1>1, <1>4, <1>5
  <1>9. cs # <<>> => Len(r) \in DOMAIN r
    <2>1. cs # <<>> => Len(cs) # 0
      BY EmptySeq
    <2>2. QED
      BY <1>1, <1>4, <1>5, <2>1
  <1>10. QED
    BY <1>3, <1>4, <1>6, <1>7, <1>8, <1>9 DEF Left

(* A thread goes on with its innermost call, or ends it.                   *)
LEMMA CallsBecome ==
  ASSUME RevInv, MaxCallsAssumption, NEW t \in Threads, NEW cs, cs \in Seq(Elements(cs)), Len(cs) <= 1,
         calls[t] # <<>>, Becomes(t, cs), Len(calls[t]) <= MaxCalls
  PROVE  Left(t, cs, DOMAIN calls[t] \ {Len(calls[t])}) /\ Len(calls'[t]) <= MaxCalls
  <1>1. /\ calls[t] \in Seq(Elements(calls[t])) /\ DOMAIN calls[t] = 1..Len(calls[t]) /\ Len(calls[t]) \in Nat
        /\ calls = [u \in Threads |-> calls[u]]
    BY ElementsSeq DEF RevInv, CallsInv
  <1>2. PICK base : base = Front(calls[t])
    OBVIOUS
  <1>3. /\ base \in Seq(Elements(base)) /\ Len(base) = Len(calls[t]) - 1
        /\ \A i \in 1..(Len(calls[t]) - 1) : base[i] = calls[t][i]
    BY <1>1, <1>2, FrontSeq, ElementsSeq
  <1>4. PICK r : r = base \o cs
    OBVIOUS
  <1>5. calls'[t] = r /\ \A u \in Threads \ {t} : calls'[u] = calls[u]
    BY <1>1, <1>2, <1>4 DEF Becomes
  <1>6. /\ DOMAIN r = 1..Len(r) /\ Len(r) = Len(base) + Len(cs)
        /\ \A i \in 1..Len(base) : r[i] = base[i]
        /\ cs # <<>> => r[Len(r)] = cs[1]
    BY <1>3, <1>4, Pushed
  <1>7. Len(cs) \in Nat /\ (Len(cs) = 0 => cs = <<>>) /\ Len(calls[t]) # 0
    BY <1>1, LenProperties, EmptySeq
  <1>8. ASSUME NEW i \in DOMAIN r
        PROVE  \/ i \in DOMAIN calls[t] \ {Len(calls[t])} /\ r[i] = calls[t][i]
               \/ cs # <<>> /\ r[i] = cs[1] /\ i = Len(r)
    <2>1. i \in 1..(Len(calls[t]) - 1) \/ (i = Len(r) /\ Len(cs) # 0)
      BY <1>1, <1>3, <1>6, <1>7
    <2>2. CASE i \in 1..(Len(calls[t]) - 1)
      <3>1. i \in 1..Len(calls[t]) /\ i # Len(calls[t]) /\ i \in 1..Len(base)
        BY <1>1, <1>3, <2>2
      <3>2. QED
        BY <1>1, <1>3, <1>6, <2>2, <3>1
    <2>3. CASE i = Len(r) /\ Len(cs) # 0
      BY <1>6, <2>3, EmptySeq
    <2>4. QED
      BY <2>1, <2>2, <2>3
  <1>9. Len(r) <= MaxCalls
    BY <1>1, <1>3, <1>6, <1>7 DEF MaxCallsAssumption
  <1>10. ASSUME NEW i \in DOMAIN calls[t] \ {Len(calls[t])}
         PROVE  i \in DOMAIN r /\ r[i] = calls[t][i]
    <2>1. i \in 1..(Len(calls[t]) - 1) /\ i \in 1..Len(base) /\ i \in DOMAIN r
      BY <1>1, <1>3, <1>6, <1>7
    <2>2. QED
      BY <1>3, <1>6, <2>1
  <1>11. cs # <<>> => Len(r) \in DOMAIN r
    <2>1. cs # <<>> => Len(cs) # 0
      BY EmptySeq
    <2>2. QED
      BY <1>1, <1>3, <1>6, <1>7, <2>1
  <1>12. QED
    BY <1>5, <1>6, <1>8, <1>9, <1>10, <1>11 DEF Left

(* Either way, when a step begins a call or goes on with its innermost one. *)
LEMMA CallsLeft ==
  ASSUME RevInv, MaxCallsAssumption, NEW t \in Threads, NEW cs, cs = <<>> \/ \E c : cs = <<c>>,
         Begins(t, cs) \/ (calls[t] # <<>> /\ Becomes(t, cs)), \A u \in Threads : Len(calls[u]) <= MaxCalls
  PROVE  /\ \A u \in Threads : Len(calls'[u]) <= MaxCalls
         /\ Begins(t, cs) => Left(t, cs, DOMAIN calls[t])
         /\ calls[t] # <<>> /\ Becomes(t, cs) => Left(t, cs, DOMAIN calls[t] \ {Len(calls[t])})
  <1>1. cs \in Seq(Elements(cs)) /\ Len(cs) <= 1
    BY OneCall
  <1>2. Begins(t, cs) => Left(t, cs, DOMAIN calls[t]) /\ Len(calls'[t]) <= MaxCalls
    BY <1>1, CallsBegin
  <1>3. calls[t] # <<>> /\ Becomes(t, cs) =>
          Left(t, cs, DOMAIN calls[t] \ {Len(calls[t])}) /\ Len(calls'[t]) <= MaxCalls
    BY <1>1, CallsBecome
  <1>4. QED
    BY <1>2, <1>3 DEF Left

(***************************************************************************)
(* Messages keep finding their data.                                       *)
(***************************************************************************)
LEMMA FindsSame ==
  ASSUME NEW c, NEW T, IsTree(T), NEW map, CallFinds(c, T, map), NEW U, Registered(U) = Registered(T),
         U.children = T.children
  PROVE  CallFinds(c, U, map)
  <1>1. \A a : Under(U, a) = Under(T, a)
    BY UnderSame
  <1>2. QED
    BY <1>1 DEF CallFinds

(* init(): a new leaf is above nobody.                                     *)
LEMMA FindsEntered ==
  ASSUME TreeAssumption, NEW c, NEW T, IsTree(T), Rooted(T), NEW map, CallFinds(c, T, map),
         NEW m, CanEnter(T, m), NEW U, U = InTree(T, m), c.at = "logger" => c.op = "log"
  PROVE  CallFinds(c, U, map)
  <1>1. Registered(U) = Registered(T) \cup {m} /\ Registered(T) \subseteq Mods /\ m \in Mods
    BY InTreeTree, TreeFields
  <1>2. ASSUME c.op = "log", c.arg, c.at = "logger", NEW a \in Registered(U), c.mod \in Under(U, a)
        PROVE  a \in DOMAIN map
    <2>1. c.mod \in Registered(T) /\ a \in Mods
      BY <1>1, <1>2 DEF CallFinds
    <2>2. a \in Registered(T) /\ c.mod \in Under(T, a)
      BY <1>2, <2>1, UnderInTree
    <2>3. QED
      BY <1>2, <2>2 DEF CallFinds
  <1>3. QED
    BY <1>1, <1>2 DEF CallFinds

(* ~Module: no message is on its way up to the module.                     *)
LEMMA FindsLeft ==
  ASSUME TreeAssumption, NEW c, NEW T, IsTree(T), Rooted(T), NEW map, CallFinds(c, T, map),
         NEW m \in Registered(T), NEW U, U = OutOfTree(T, m), c.mod # m
  PROVE  CallFinds(c, U, map)
  <1>1. Registered(U) = Registered(T) \ {m} /\ Registered(T) \subseteq Mods
    BY OutOfTreeTree, TreeFields
  <1>2. \A a \in Registered(U) : Under(U, a) \subseteq Under(T, a)
    BY <1>1, UnderOutOfTree
  <1>3. QED
    BY <1>1, <1>2 DEF CallFinds

(* do_log with data that have the module and those above it.               *)
LEMMA RouteFinds ==
  ASSUME TreeAssumption, NEW c, IsCall(c), c.op = "log", c.arg \in BOOLEAN, NEW T, IsTree(T),
         NEW data, Formatted(data.map), NEW m \in Mods,
         c.arg => m \in Registered(T) /\ \A a \in Registered(T) : m \in Under(T, a) => a \in DOMAIN data.map
  PROVE  /\ Route(c, m, data) = <<>> \/ \E d : Route(c, m, data) = <<d>>
         /\ \A d : Route(c, m, data) = <<d>> =>
              ~Makes(d) /\ CallTyped(d) /\ CallFinds(d, T, data.map)
  <1> DEFINE fails == [c EXCEPT !.at = "threw"]
             goes  == [c EXCEPT !.at = "logger", !.mod = m, !.rev = data.rev,
                                !.logger = data.map[m].logger.eff, !.formatter = data.map[m].formatter.eff]
  <1>1. \/ Route(c, m, data) = <<>>
        \/ Route(c, m, data) = <<fails>> /\ m \notin DOMAIN data.map
        \/ Route(c, m, data) = <<goes>> /\ m \in DOMAIN data.map
    BY DEF Route
  <1>2. fails.at = "threw" /\ fails.op = "log" /\ fails.arg = c.arg
    BY DEF IsCall
  <1>3. /\ goes.at = "logger" /\ goes.op = "log" /\ goes.arg = c.arg /\ goes.mod = m
        /\ goes.formatter = data.map[m].formatter.eff
    BY DEF IsCall
  <1> HIDE DEF fails, goes
  <1>4. m \notin DOMAIN data.map => ~c.arg
    BY UnderUp
  <1>5. m \notin DOMAIN data.map => ~Makes(fails) /\ CallTyped(fails) /\ CallFinds(fails, T, data.map)
    BY <1>2, <1>4 DEF Makes, CallTyped, CallFinds
  <1>6. m \in DOMAIN data.map => ~Makes(goes) /\ CallTyped(goes) /\ CallFinds(goes, T, data.map)
    BY <1>3 DEF Makes, CallTyped, CallFinds, Formatted
  <1>7. \A a, b : <<a>> = <<b>> => a = b
    OBVIOUS
  <1>8. \A d : <<d>> # <<>>
    OBVIOUS
  <1>9. QED
    BY <1>1, <1>5, <1>6, <1>7, <1>8

(***************************************************************************)
(* The steps, once more.                                                   *)
(***************************************************************************)
LogAssumption == TreeAssumption /\ ThreadsAssumption /\ ParentAssumption /\ LevelsAssumption /\ MaxCallsAssumption
None(cs) == cs = <<>> \/ \E c : cs = <<c>>

(* The calls of one thread change.                                         *)
LEMMA MessagesStep ==
  ASSUME RegistryInv, NEW t \in Threads, NEW cs, NEW old, old \subseteq DOMAIN calls[t], Left(t, cs, old), None(cs),
         \A u \in Threads : \A i \in DOMAIN calls[u] : CallFinds(calls[u][i], tree', cache'[u].map),
         \A c : cs = <<c>> => CallTyped(c) /\ CallFinds(c, tree', cache'[t].map)
  PROVE  MessagesInv'
  <1>1. \A u \in Threads : \A i \in DOMAIN calls[u] : CallTyped(calls[u][i])
    BY DEF RegistryInv, MessagesInv
  <1>2. cs # <<>> => CallTyped(cs[1]) /\ CallFinds(cs[1], tree', cache'[t].map)
    BY OneCall DEF None
  <1>3. ASSUME NEW u \in Threads, NEW i \in DOMAIN calls'[u]
        PROVE  CallTyped(calls'[u][i]) /\ CallFinds(calls'[u][i], tree', cache'[u].map)
    <2>1. CASE u # t
      BY <1>1, <2>1 DEF Left
    <2>2. CASE u = t
      BY <1>1, <1>2, <2>2 DEF Left
    <2>3. QED
      BY <2>1, <2>2
  <1>4. QED
    BY <1>3 DEF MessagesInv

(* No call changes.                                                        *)
LEMMA MessagesSame ==
  ASSUME RegistryInv, UNCHANGED <<calls, cache>>,
         \A u \in Threads : \A i \in DOMAIN calls[u] : CallFinds(calls[u][i], tree', cache[u].map)
  PROVE  MessagesInv'
  BY DEF RegistryInv, MessagesInv

(* A step that is not of a constructor.                                    *)
LEMMA BuildKept ==
  ASSUME RegistryInv, NEW t \in Threads, NEW cs, None(cs), \A c : cs = <<c>> => ~Makes(c),
         NEW old, old \subseteq DOMAIN calls[t], Left(t, cs, old),
         \A i \in DOMAIN calls[t] \ old : ~Makes(calls[t][i]),
         tree'.waiting = tree.waiting, tree'.parent = tree.parent, Registered(tree') = Registered(tree),
         Exists(tree) \subseteq Exists(tree')
  PROVE  BuildInv'
  <1>1. cs # <<>> => ~Makes(cs[1])
    BY OneCall DEF None
  <1>2. ASSUME NEW u \in Threads, NEW i \in DOMAIN calls'[u], Makes(calls'[u][i])
        PROVE  i \in DOMAIN calls[u] /\ calls'[u][i] = calls[u][i]
    <2>1. CASE u # t
      BY <2>1 DEF Left
    <2>2. CASE u = t
      BY <1>1, <1>2, <2>2 DEF Left
    <2>3. QED
      BY <2>1, <2>2
  <1>3. ASSUME NEW u \in Threads, NEW i \in DOMAIN calls[u], Makes(calls[u][i])
        PROVE  i \in DOMAIN calls'[u] /\ calls'[u][i] = calls[u][i]
    <2>1. CASE u # t
      BY <2>1 DEF Left
    <2>2. CASE u = t
      BY <1>3, <2>2 DEF Left
    <2>3. QED
      BY <2>1, <2>2
  <1>4. Building => Building'
    BY <1>3 DEF Building, Makes
  <1>5. \A m : CanEnter(tree, m) => CanEnter(tree', m)
    BY DEF CanEnter
  <1>6. \A m : MustWait(tree', m) <=> MustWait(tree, m)
    BY DEF MustWait
  <1>7. ~Building' => \A i \in DOMAIN tree'.waiting : MustWait(tree', tree'.waiting[i])
    BY <1>4, <1>6 DEF RegistryInv, BuildInv
  <1>8. ASSUME NEW u \in Threads, NEW i \in DOMAIN calls'[u], Makes(calls'[u][i])
        PROVE  /\ CanEnter(tree', calls'[u][i].mod)
               /\ \A v \in Threads : \A j \in DOMAIN calls'[v] : Makes(calls'[v][j]) => v = u /\ j = i
    BY <1>2, <1>5, <1>8 DEF RegistryInv, BuildInv
  <1>9. QED
    BY <1>7, <1>8 DEF BuildInv

(* Entries of the same modules below the same parents.                     *)
LEMMA GoodSame ==
  ASSUME NEW T, NEW map, GoodMap(T, map), NEW U, Registered(U) = Registered(T),
         \A x \in Registered(T) : U.parent[x] = T.parent[x]
  PROVE  GoodMap(U, map)
  BY DEF GoodMap, Nearest

(* The data stay, and so do the parents of registered modules.             *)
LEMMA EntriesSame ==
  ASSUME RegistryInv, UNCHANGED <<src, cache>>, Registered(tree') = Registered(tree),
         \A x \in Registered(tree) : tree'.parent[x] = tree.parent[x]
  PROVE  EntriesInv'
  <1>1. GoodMap(tree', src.map)
    BY GoodSame DEF RegistryInv, EntriesInv
  <1>2. QED
    BY <1>1 DEF RegistryInv, EntriesInv, IsData

(* The data with another map or program and a later revision.              *)
LEMMA DataWith ==
  ASSUME RevInv, RegistryInv, NEW n \in Nat, NEW x
  PROVE  /\ Bumped(src, n).map = src.map /\ Bumped(src, n).program = src.program
         /\ Bumped(src, n).rev \in Nat
         /\ [Bumped(src, n) EXCEPT !.map = x].map = x /\ [Bumped(src, n) EXCEPT !.map = x].program = src.program
         /\ [Bumped(src, n) EXCEPT !.map = x].rev \in Nat
         /\ [Bumped(src, n) EXCEPT !.program = x].program = x
         /\ [Bumped(src, n) EXCEPT !.program = x].map = src.map
         /\ [Bumped(src, n) EXCEPT !.program = x].rev \in Nat
         /\ [src EXCEPT !.map = x].map = x /\ [src EXCEPT !.map = x].program = src.program
         /\ [src EXCEPT !.map = x].rev \in Nat
  <1>1. IsRecord(src) /\ src.rev \in Nat
    BY DEF RevInv, DataInv
  <1>2. src.rev + n \in Nat
    BY <1>1
  <1>3. IsRecord(Bumped(src, n)) /\ Bumped(src, n).rev = src.rev + n
        /\ Bumped(src, n).map = src.map /\ Bumped(src, n).program = src.program
    BY <1>1 DEF Bumped, IsRecord
  <1>4. QED
    BY <1>1, <1>2, <1>3 DEF IsRecord

(* A good map is typed.                                                    *)
LEMMA GoodTyped ==
  ASSUME NEW T, IsTree(T), NEW map, GoodMap(T, map)
  PROVE  map \in MapType /\ DOMAIN map = Registered(T) /\ Formatted(map)
  BY MapTyped, TreeFields DEF GoodMap

(* Module::Module, who is registered at once or waits.                     *)
LEMMA ConstructRegistry ==
  ASSUME LogAssumption, RevInv, RegistryInv, NEW t \in Threads, NEW m \in Mods, Construct(t, m, StartLevel)
  PROVE  RegistryInv'
  <1> DEFINE made == Constructed(tree, m, Parent[m], StartLevel)
  <1>1. /\ TreeAssumption /\ LevelsAssumption /\ IsTree(tree) /\ Rooted(tree) /\ m \notin Exists(tree)
        /\ Parent[m] \in Mods \cup {Null} /\ StartLevel \in Levels /\ ~Building
        /\ UNCHANGED <<src, cache, mtx>>
    BY DEF LogAssumption, LevelsAssumption, ParentAssumption, RegistryInv, Construct
  <1>2. /\ IsTree(made) /\ Rooted(made) /\ Registered(made) = Registered(tree)
        /\ Exists(made) = Exists(tree) \cup {m} /\ made.parent = [tree.parent EXCEPT ![m] = Parent[m]]
        /\ made.children = tree.children /\ made.waiting = tree.waiting
    BY <1>1, ConstructedTree
  <1> HIDE DEF made
  <1>3. /\ m \notin Registered(tree) /\ m \notin ToSet(tree.waiting) /\ ToSet(tree.waiting) \subseteq Mods
        /\ Registered(tree) \subseteq Mods
    BY <1>1, TreeFields DEF IsTree, Exists
  <1>4. /\ made.parent[m] = Parent[m]
        /\ \A x \in Registered(tree) \cup ToSet(tree.waiting) : made.parent[x] = tree.parent[x]
    BY <1>1, <1>2, <1>3, TreeFields
  <1>5. \A i \in DOMAIN tree.waiting : MustWait(made, tree.waiting[i])
    <2>1. \A i \in DOMAIN tree.waiting : MustWait(tree, tree.waiting[i])
      BY <1>1 DEF RegistryInv, BuildInv
    <2>2. \A i \in DOMAIN tree.waiting : tree.waiting[i] \in ToSet(tree.waiting)
      BY DEF ToSet
    <2>3. QED
      BY <1>2, <1>4, <2>1, <2>2 DEF MustWait
  <1>6. CASE MustWait(made, m)
    <2>1. tree' = Waits(made, m) /\ UNCHANGED calls
      BY <1>6 DEF Construct, made
    <2>2. m \in Exists(made) \ Registered(made) /\ m \notin ToSet(made.waiting)
      BY <1>2, <1>3
    <2>3. /\ IsTree(tree') /\ Rooted(tree') /\ Registered(tree') = Registered(made)
          /\ tree'.parent = made.parent /\ tree'.children = made.children
          /\ ToSet(tree'.waiting) = ToSet(made.waiting) \cup {m}
      BY <1>2, <2>1, <2>2, WaitsTree
    <2>4. EntriesInv'
      BY <1>1, <1>2, <1>4, <2>3, EntriesSame
    <2>5. \A u \in Threads : \A i \in DOMAIN calls[u] : CallFinds(calls[u][i], tree', cache[u].map)
      BY <1>1, <1>2, <2>3, FindsSame DEF RegistryInv, MessagesInv
    <2>6. MessagesInv'
      BY <1>1, <2>1, <2>5, MessagesSame
    <2>7. BuildInv'
      <3>1. ~Building'
        BY <1>1, <2>1 DEF Building
      <3>2. ASSUME NEW w \in ToSet(tree'.waiting)
            PROVE  MustWait(tree', w)
        <4>1. MustWait(made, w)
          BY <1>2, <1>5, <1>6, <2>3, <3>2 DEF ToSet
        <4>2. QED
          BY <2>3, <4>1 DEF MustWait
      <3>3. \A i \in DOMAIN tree'.waiting : MustWait(tree', tree'.waiting[i])
        BY <3>2 DEF ToSet
      <3>4. \A u \in Threads : \A i \in DOMAIN calls'[u] : ~Makes(calls'[u][i])
        BY <3>1 DEF Building, Makes
      <3>5. QED
        BY <3>3, <3>4 DEF BuildInv
    <2>8. QED
      BY <1>1, <2>1, <2>3, <2>4, <2>6, <2>7 DEF RegistryInv
  <1>7. CASE ~MustWait(made, m)
    <2>1. PICK c : c = Call("ctor", "init", m, m)
      OBVIOUS
    <2>2. tree' = made /\ Begins(t, <<c>>)
      BY <1>7, <2>1 DEF Construct, made
    <2>3. c.op = "ctor" /\ c.at = "init" /\ c.mod = m
      BY <2>1 DEF Call
    <2>4. PICK cs : cs = <<c>>
      OBVIOUS
    <2>5. None(cs) /\ cs # <<>> /\ cs[1] = c /\ \A d : cs = <<d>> => d = c
      BY <2>4 DEF None
    <2>6. Left(t, cs, DOMAIN calls[t]) /\ \A u \in Threads : Len(calls'[u]) <= MaxCalls
      BY <2>2, <2>4, <2>5, CallsLeft DEF None, LogAssumption, RegistryInv
    <2>7. EntriesInv'
      BY <1>1, <1>2, <1>4, <2>2, EntriesSame
    <2>8. CallTyped(c) /\ \A T, map : CallFinds(c, T, map)
      BY <2>3 DEF CallTyped, CallFinds, Makes
    <2>9. \A u \in Threads : \A i \in DOMAIN calls[u] : CallFinds(calls[u][i], tree', cache'[u].map)
      BY <1>1, <1>2, <2>2, FindsSame DEF RegistryInv, MessagesInv
    <2>10. MessagesInv'
      BY <2>5, <2>6, <2>8, <2>9, MessagesStep
    <2>11. CanEnter(tree', m)
      BY <1>2, <1>3, <1>7, <2>2 DEF CanEnter, MustWait
    <2>12. \A u \in Threads : \A i \in DOMAIN calls[u] : ~Makes(calls[u][i])
      BY <1>1 DEF Building, Makes
    <2>13. \A u \in Threads : \A i \in DOMAIN calls'[u] :
             Makes(calls'[u][i]) => u = t /\ calls'[u][i] = c /\ i = Len(calls'[t])
      BY <2>5, <2>6, <2>12 DEF Left
    <2>14. Building'
      BY <2>3, <2>5, <2>6 DEF Building, Left
    <2>15. BuildInv'
      BY <2>3, <2>11, <2>13, <2>14 DEF BuildInv
    <2>16. QED
      BY <1>1, <1>2, <2>2, <2>6, <2>7, <2>10, <2>15 DEF RegistryInv
  <1>8. QED
    BY <1>6, <1>7

(* The constructor that goes on, or returns when nobody is ready.          *)
LEMMA BuildMoves ==
  ASSUME RevInv, RegistryInv, NEW t \in Threads, calls[t] # <<>>, Makes(Top(t)), NEW cs, None(cs),
         Left(t, cs, DOMAIN calls[t] \ {Len(calls[t])}),
         \A c : cs = <<c>> => Makes(c) /\ CanEnter(tree', c.mod),
         cs = <<>> => \A i \in DOMAIN tree'.waiting : MustWait(tree', tree'.waiting[i])
  PROVE  BuildInv'
  <1>1. Len(calls[t]) \in DOMAIN calls[t] /\ Makes(calls[t][Len(calls[t])])
    BY TopIs
  <1>2. ASSUME NEW u \in Threads, NEW j \in DOMAIN calls[u], Makes(calls[u][j])
        PROVE  u = t /\ j = Len(calls[t])
    BY <1>1, <1>2 DEF RegistryInv, BuildInv
  <1>3. cs # <<>> => Makes(cs[1]) /\ CanEnter(tree', cs[1].mod)
    BY OneCall DEF None
  <1>4. ASSUME NEW u \in Threads, NEW j \in DOMAIN calls'[u], Makes(calls'[u][j])
        PROVE  u = t /\ cs # <<>> /\ calls'[u][j] = cs[1] /\ j = Len(calls'[t])
    <2>1. CASE u # t
      BY <1>2, <1>4, <2>1 DEF Left
    <2>2. CASE u = t
      BY <1>2, <1>4, <2>2 DEF Left
    <2>3. QED
      BY <2>1, <2>2
  <1>5. cs # <<>> => Building'
    BY <1>3 DEF Left, Building, Makes
  <1>6. QED
    BY <1>3, <1>4, <1>5 DEF BuildInv

(* The other fields of a call that goes on.                                *)
LEMMA CallWith ==
  ASSUME NEW c, IsCall(c), NEW at, NEW m
  PROVE  /\ [c EXCEPT !.at = at].at = at /\ [c EXCEPT !.at = at].op = c.op
         /\ [c EXCEPT !.at = at].mod = c.mod
         /\ [c EXCEPT !.at = at, !.mod = m].at = at /\ [c EXCEPT !.at = at, !.mod = m].op = c.op
         /\ [c EXCEPT !.at = at, !.mod = m].mod = m
  BY DEF IsCall

(* A constructor's call says nothing of messages.                          *)
LEMMA MakerTyped ==
  ASSUME NEW c, Makes(c), c.at \in {"init", "enter"}
  PROVE  CallTyped(c) /\ \A T, map : CallFinds(c, T, map)
  BY DEF Makes, CallTyped, CallFinds

(* Module::init up to its ++rev.                                           *)
LEMMA InitBeginsRegistry ==
  ASSUME LogAssumption, RevInv, RegistryInv, NEW t \in Threads, InitBegins(t)
  PROVE  RegistryInv'
  <1>1. /\ calls[t] # <<>> /\ Top(t).at = "init" /\ IsCall(Top(t)) /\ MaxCallsAssumption
        /\ src' = Bumped(src, 1) /\ mtx' = t /\ UNCHANGED <<tree, cache>>
    BY TopIs DEF InitBegins, At, Lock, LogAssumption
  <1>2. Makes(Top(t)) /\ CanEnter(tree, Top(t).mod)
    <2>1. Makes(Top(t))
      BY <1>1, TopIs DEF RegistryInv, MessagesInv, CallTyped
    <2>2. QED
      BY <1>1, <2>1, TopIs DEF RegistryInv, BuildInv
  <1>3. PICK c : c = [Top(t) EXCEPT !.at = "enter"]
    OBVIOUS
  <1>4. c.at = "enter" /\ Makes(c) /\ c.mod = Top(t).mod
    BY <1>1, <1>2, <1>3, CallWith DEF Makes
  <1>5. PICK cs : cs = <<c>>
    OBVIOUS
  <1>6. None(cs) /\ cs # <<>> /\ Becomes(t, cs) /\ \A d : cs = <<d>> => d = c
    BY <1>3, <1>5 DEF None, InitBegins, Goes
  <1>7. Left(t, cs, DOMAIN calls[t] \ {Len(calls[t])}) /\ \A u \in Threads : Len(calls'[u]) <= MaxCalls
    BY <1>1, <1>6, CallsLeft DEF None, RegistryInv
  <1>8. BuildInv'
    BY <1>1, <1>2, <1>4, <1>6, <1>7, BuildMoves
  <1>9. MessagesInv'
    <2>1. CallTyped(c) /\ \A T, map : CallFinds(c, T, map)
      BY <1>4, MakerTyped
    <2>2. \A u \in Threads : \A i \in DOMAIN calls[u] : CallFinds(calls[u][i], tree', cache'[u].map)
      BY <1>1 DEF RegistryInv, MessagesInv
    <2>3. QED
      BY <1>6, <1>7, <2>1, <2>2, MessagesStep
  <1>10. EntriesInv'
    <2>1. src'.map = src.map /\ src'.program = src.program /\ src'.rev \in Nat
      BY <1>1, DataWith
    <2>2. QED
      BY <1>1, <2>1 DEF RegistryInv, EntriesInv, IsData
  <1>11. QED
    BY <1>1, <1>7, <1>8, <1>9, <1>10 DEF RegistryInv

(* The rest of it, and who was waiting for the module.                     *)
LEMMA InitEndsRegistry ==
  ASSUME LogAssumption, RevInv, RegistryInv, NEW t \in Threads, InitEnds(t)
  PROVE  RegistryInv'
  <1> DEFINE m == Top(t).mod
  <1>1. /\ calls[t] # <<>> /\ Top(t).at = "enter" /\ IsCall(Top(t)) /\ MaxCallsAssumption /\ TreeAssumption
        /\ tree' = InTree(tree, m) /\ mtx' = Null /\ UNCHANGED cache /\ IsTree(tree) /\ Rooted(tree)
    BY TopIs DEF InitEnds, At, Unlock, LogAssumption, RegistryInv
  <1>2. Makes(Top(t)) /\ CanEnter(tree, m)
    <2>1. Makes(Top(t))
      BY <1>1, TopIs DEF RegistryInv, MessagesInv, CallTyped
    <2>2. QED
      BY <1>1, <2>1, TopIs DEF RegistryInv, BuildInv
  <1>3. /\ IsTree(tree') /\ Rooted(tree') /\ tree'.waiting \in Seq(Mods)
        /\ ToSet(tree'.waiting) \subseteq Exists(tree') \ Registered(tree')
    <2>1. IsTree(tree') /\ Rooted(tree')
      BY <1>1, <1>2, InTreeTree
    <2>2. QED
      BY <2>1, TreeFields DEF IsTree
  <1>4. EntriesInv'
    <2>1. GoodMap(tree', WithModule(tree, src.map, m))
      BY <1>1, <1>2, EntersMap DEF RegistryInv, EntriesInv
    <2>2. PICK n \in {0, 1} : src' = [Bumped(src, n) EXCEPT !.map = WithModule(tree, @, m)]
      BY DEF InitEnds
    <2>3. n \in Nat
      BY <2>2
    <2>4. Bumped(src, n).map = src.map
      BY <2>3, DataWith
    <2>5. PICK map : map = WithModule(tree, src.map, m)
      OBVIOUS
    <2>6. src' = [Bumped(src, n) EXCEPT !.map = map]
      BY <2>2, <2>4, <2>5
    <2>7. src'.map = map /\ src'.program = src.program /\ src'.rev \in Nat
      BY <2>3, <2>6, DataWith
    <2>8. map \in MapType
      BY <1>3, <2>1, <2>5, GoodTyped
    <2>9. IsData(src')
      BY <2>7, <2>8 DEF RegistryInv, EntriesInv, IsData
    <2>10. QED
      BY <1>1, <2>1, <2>5, <2>7, <2>9 DEF RegistryInv, EntriesInv, IsData
  <1>5. \A u \in Threads : \A i \in DOMAIN calls[u] : CallFinds(calls[u][i], tree', cache'[u].map)
    <2>1. ASSUME NEW u \in Threads, NEW i \in DOMAIN calls[u]
          PROVE  CallFinds(calls[u][i], tree', cache'[u].map)
      <3>1. CallFinds(calls[u][i], tree, cache[u].map) /\ (calls[u][i].at = "logger" => calls[u][i].op = "log")
        BY DEF RegistryInv, MessagesInv, CallTyped
      <3>2. QED
        BY <1>1, <1>2, <3>1, FindsEntered
    <2>2. QED
      BY <2>1
  <1>6. ASSUME NEW cs, None(cs), Becomes(t, cs),
               \A c : cs = <<c>> => Makes(c) /\ c.at = "init" /\ CanEnter(tree', c.mod),
               cs = <<>> => \A i \in DOMAIN tree'.waiting : MustWait(tree', tree'.waiting[i])
        PROVE  RegistryInv'
    <2>1. Left(t, cs, DOMAIN calls[t] \ {Len(calls[t])}) /\ \A u \in Threads : Len(calls'[u]) <= MaxCalls
      BY <1>1, <1>6, CallsLeft DEF None, RegistryInv
    <2>2. BuildInv'
      BY <1>1, <1>2, <1>6, <2>1, BuildMoves
    <2>3. \A c : cs = <<c>> => CallTyped(c) /\ CallFinds(c, tree', cache'[t].map)
      BY <1>6, MakerTyped
    <2>4. MessagesInv'
      BY <1>5, <1>6, <2>1, <2>3, MessagesStep
    <2>5. QED
      BY <1>1, <1>3, <1>4, <2>1, <2>2, <2>4 DEF RegistryInv
  <1>7. CASE Ready(tree') = 0
    <2>1. PICK cs : cs = <<>>
      OBVIOUS
    <2>2. Becomes(t, cs)
      BY <1>7, <2>1 DEF InitEnds, Ends
    <2>3. None(cs) /\ \A c : cs # <<c>>
      BY <2>1 DEF None
    <2>4. \A i \in DOMAIN tree'.waiting : MustWait(tree', tree'.waiting[i])
      BY <1>3, <1>7, ReadyIs
    <2>5. QED
      BY <1>6, <2>2, <2>3, <2>4
  <1>8. CASE Ready(tree') # 0
    <2>1. PICK w : w = tree'.waiting[Ready(tree')]
      OBVIOUS
    <2>2. CanEnter(tree', w)
      <3>1. Ready(tree') \in DOMAIN tree'.waiting /\ ~MustWait(tree', w)
        BY <1>3, <1>8, <2>1, ReadyIs
      <3>2. w \in ToSet(tree'.waiting)
        BY <2>1, <3>1 DEF ToSet
      <3>3. QED
        BY <1>3, <3>1, <3>2 DEF CanEnter, MustWait
    <2>3. PICK c : c = [Top(t) EXCEPT !.at = "init", !.mod = w]
      OBVIOUS
    <2>4. c.at = "init" /\ Makes(c) /\ c.mod = w
      BY <1>1, <1>2, <2>3, CallWith DEF Makes
    <2>5. PICK cs : cs = <<c>>
      OBVIOUS
    <2>6. Becomes(t, cs)
      BY <1>8, <2>1, <2>3, <2>5 DEF InitEnds, Goes
    <2>7. None(cs) /\ cs # <<>> /\ \A d : cs = <<d>> => d = c
      BY <2>5 DEF None
    <2>8. QED
      BY <1>6, <2>2, <2>4, <2>6, <2>7
  <1>9. QED
    BY <1>7, <1>8

(* Module::~Module.                                                        *)
LEMMA DestroyRegistry ==
  ASSUME LogAssumption, RevInv, RegistryInv, NEW t \in Threads, NEW m, Destroy(t, m)
  PROVE  RegistryInv'
  <1>1. /\ m \in Registered(tree) /\ ~Building /\ ~InUse(m) /\ tree' = OutOfTree(tree, m)
        /\ src' = [src EXCEPT !.map = WithoutModule(tree, src.map, m)]
        /\ UNCHANGED <<cache, mtx, calls>> /\ TreeAssumption /\ IsTree(tree) /\ Rooted(tree)
    BY DEF Destroy, LogAssumption, RegistryInv
  <1>2. /\ IsTree(tree') /\ Rooted(tree') /\ Registered(tree') = Registered(tree) \ {m}
        /\ tree'.waiting = tree.waiting
        /\ \A x \in Mods : tree'.parent[x] = IF x = m \/ x \in Children(tree, m) THEN Null ELSE tree.parent[x]
    BY <1>1, OutOfTreeTree
  <1>3. EntriesInv'
    <2>1. PICK map : map = WithoutModule(tree, src.map, m)
      OBVIOUS
    <2>2. GoodMap(tree', map)
      BY <1>1, <2>1, LeavesMap DEF RegistryInv, EntriesInv
    <2>3. src'.map = map /\ src'.program = src.program /\ src'.rev \in Nat
      BY <1>1, <2>1, DataWith
    <2>4. map \in MapType
      BY <1>2, <2>2, GoodTyped
    <2>5. IsData(src')
      BY <2>3, <2>4 DEF RegistryInv, EntriesInv, IsData
    <2>6. QED
      BY <1>1, <2>2, <2>3, <2>5 DEF RegistryInv, EntriesInv, IsData
  <1>4. MessagesInv'
    <2>1. ASSUME NEW u \in Threads, NEW i \in DOMAIN calls[u]
          PROVE  CallFinds(calls[u][i], tree', cache[u].map)
      <3>1. CallFinds(calls[u][i], tree, cache[u].map) /\ calls[u][i].mod # m
        BY <1>1 DEF RegistryInv, MessagesInv, InUse
      <3>2. QED
        BY <1>1, <3>1, FindsLeft
    <2>2. QED
      BY <1>1, <2>1, MessagesSame
  <1>5. BuildInv'
    <2>1. ~Building'
      BY <1>1 DEF Building
    <2>2. ASSUME NEW i \in DOMAIN tree.waiting
          PROVE  MustWait(tree', tree.waiting[i])
      <3>1. MustWait(tree, tree.waiting[i])
        BY <1>1 DEF RegistryInv, BuildInv
      <3>2. tree.waiting[i] \in Mods /\ tree.waiting[i] \notin Registered(tree)
        <4>1. tree.waiting[i] \in ToSet(tree.waiting)
          BY DEF ToSet
        <4>2. QED
          BY <1>1, <4>1 DEF IsTree, Exists
      <3>3. tree'.parent[tree.waiting[i]] = tree.parent[tree.waiting[i]]
        BY <1>1, <1>2, <3>2 DEF Children
      <3>4. QED
        BY <1>2, <3>1, <3>3 DEF MustWait
    <2>3. \A u \in Threads : \A i \in DOMAIN calls'[u] : ~Makes(calls'[u][i])
      BY <2>1 DEF Building, Makes
    <2>4. QED
      BY <1>2, <2>2, <2>3 DEF BuildInv
  <1>6. QED
    BY <1>1, <1>2, <1>3, <1>4, <1>5 DEF RegistryInv

(***************************************************************************)
(* Steps that are not of a constructor or a destructor.                    *)
(***************************************************************************)
LEMMA FindsAll ==
  ASSUME NEW c, NEW T, NEW map, CallFinds(c, T, map), NEW new, Registered(T) \subseteq DOMAIN new
  PROVE  CallFinds(c, T, new)
  BY DEF CallFinds

(* A call of another kind begins, goes on or ends; the tree stays.         *)
LEMMA OtherStep ==
  ASSUME LogAssumption, RevInv, RegistryInv, NEW t \in Threads, NEW cs, None(cs),
         Begins(t, cs) \/ (calls[t] # <<>> /\ Becomes(t, cs) /\ ~Makes(Top(t))),
         \A c : cs = <<c>> => ~Makes(c) /\ CallTyped(c) /\ CallFinds(c, tree', cache'[t].map),
         IsTree(tree'), Rooted(tree'), Registered(tree') = Registered(tree), Exists(tree) \subseteq Exists(tree'),
         tree'.parent = tree.parent, tree'.children = tree.children, tree'.waiting = tree.waiting,
         \A u \in Threads : cache'[u] = cache[u] \/ Registered(tree) \subseteq DOMAIN cache'[u].map,
         EntriesInv', mtx' \in Threads \cup {Null}
  PROVE  RegistryInv'
  <1>1. MaxCallsAssumption /\ IsTree(tree) /\ \A u \in Threads : Len(calls[u]) <= MaxCalls
    BY DEF LogAssumption, RegistryInv
  <1>2. /\ \A u \in Threads : Len(calls'[u]) <= MaxCalls
        /\ Begins(t, cs) => Left(t, cs, DOMAIN calls[t])
        /\ calls[t] # <<>> /\ Becomes(t, cs) => Left(t, cs, DOMAIN calls[t] \ {Len(calls[t])})
    BY <1>1, CallsLeft DEF None
  <1>3. calls[t] # <<>> => Top(t) = calls[t][Len(calls[t])]
    BY TopIs
  <1>4. PICK old \in SUBSET (DOMAIN calls[t]) :
          Left(t, cs, old) /\ \A i \in DOMAIN calls[t] \ old : ~Makes(calls[t][i])
    <2>1. CASE Begins(t, cs)
      BY <1>2, <2>1
    <2>2. CASE calls[t] # <<>> /\ Becomes(t, cs) /\ ~Makes(Top(t))
      BY <1>2, <1>3, <2>2
    <2>3. QED
      BY <2>1, <2>2
  <1>5. BuildInv'
    BY <1>4, BuildKept
  <1>6. ASSUME NEW u \in Threads, NEW i \in DOMAIN calls[u]
        PROVE  CallFinds(calls[u][i], tree', cache'[u].map)
    <2>1. CallFinds(calls[u][i], tree, cache[u].map)
      BY DEF RegistryInv, MessagesInv
    <2>2. CallFinds(calls[u][i], tree, cache'[u].map)
      BY <2>1, FindsAll
    <2>3. QED
      BY <1>1, <2>2, FindsSame
  <1>7. MessagesInv'
    BY <1>4, <1>6, MessagesStep
  <1>8. QED
    BY <1>2, <1>5, <1>7 DEF RegistryInv

(* No call changes, nor a copy.                                            *)
LEMMA StillStep ==
  ASSUME RegistryInv, UNCHANGED <<calls, cache, mtx>>,
         IsTree(tree'), Rooted(tree'), Registered(tree') = Registered(tree), Exists(tree) \subseteq Exists(tree'),
         tree'.parent = tree.parent, tree'.children = tree.children, tree'.waiting = tree.waiting, EntriesInv'
  PROVE  RegistryInv'
  <1>1. \A u \in Threads : \A i \in DOMAIN calls[u] : CallFinds(calls[u][i], tree', cache[u].map)
    BY FindsSame DEF RegistryInv, MessagesInv
  <1>2. MessagesInv'
    BY <1>1, MessagesSame
  <1>3. Building' <=> Building
    BY DEF Building
  <1>4. \A m : (MustWait(tree', m) <=> MustWait(tree, m)) /\ (CanEnter(tree, m) => CanEnter(tree', m))
    BY DEF MustWait, CanEnter
  <1>5. BuildInv'
    BY <1>3, <1>4 DEF RegistryInv, BuildInv
  <1>6. QED
    BY <1>2, <1>5 DEF RegistryInv

(* set_logger and set_formatter up to their ++rev.                         *)
LEMMA SetBeginsRegistry ==
  ASSUME LogAssumption, RevInv, RegistryInv, NEW t \in Threads, NEW m, NEW k \in Slots, NEW v \in Values(k),
         NEW b \in BOOLEAN, SetBegins(t, m, k, v, b)
  PROVE  RegistryInv'
  <1>1. /\ m \in Mods /\ src' = Bumped(src, 1) /\ mtx' = t /\ UNCHANGED <<tree, cache>>
        /\ IsTree(tree) /\ Rooted(tree)
    BY DEF SetBegins, Usable, Exists, Lock, RegistryInv
  <1>2. PICK c : c = Call("set", "change", m, [slot |-> k, value |-> v, through |-> b])
    OBVIOUS
  <1>3. c.op = "set" /\ c.at = "change" /\ c.mod = m /\ IsChange(c.arg)
    BY <1>2 DEF Call, IsChange
  <1>4. ~Makes(c) /\ CallTyped(c) /\ \A T, map : CallFinds(c, T, map)
    BY <1>1, <1>3 DEF Makes, CallTyped, CallFinds
  <1>5. PICK cs : cs = <<c>>
    OBVIOUS
  <1>6. None(cs) /\ Begins(t, cs) /\ \A d : cs = <<d>> => d = c
    BY <1>2, <1>5 DEF None, SetBegins
  <1>7. EntriesInv'
    <2>1. src'.map = src.map /\ src'.program = src.program /\ src'.rev \in Nat
      BY <1>1, DataWith
    <2>2. QED
      BY <1>1, <2>1 DEF RegistryInv, EntriesInv, IsData
  <1>8. QED
    BY <1>1, <1>4, <1>6, <1>7, OtherStep

(* The rest: the data, the copy of the thread and the flag.                *)
LEMMA SetEndsRegistry ==
  ASSUME LogAssumption, RevInv, RegistryInv, NEW t \in Threads, SetEnds(t)
  PROVE  RegistryInv'
  <1> DEFINE m   == Top(t).mod
             set == Top(t).arg
  <1>1. /\ calls[t] # <<>> /\ Top(t).at = "change" /\ CallTyped(Top(t)) /\ mtx' = Null /\ TreeAssumption
        /\ IsTree(tree) /\ Rooted(tree) /\ GoodMap(tree, src.map)
    BY TopIs DEF SetEnds, At, Unlock, LogAssumption, RegistryInv, MessagesInv, EntriesInv
  <1>2. ~Makes(Top(t)) /\ IsChange(set) /\ m \in Mods
    BY <1>1 DEF CallTyped
  <1>3. PICK cs : cs = <<>>
    OBVIOUS
  <1>4. None(cs) /\ Becomes(t, cs) /\ \A c : cs # <<c>>
    BY <1>3 DEF None, SetEnds, Ends
  <1>5. CASE UNCHANGED <<tree, src, cache>>
    <2>1. EntriesInv'
      BY <1>5, EntriesSame
    <2>2. QED
      BY <1>1, <1>2, <1>4, <1>5, <2>1, OtherStep
  <1>6. CASE m \in DOMAIN src.map
    <2>1. PICK map : map = WithValue(tree, src.map, m, set.slot, set.value)
      OBVIOUS
    <2>2. /\ src' = [src EXCEPT !.map = map] /\ cache' = Synced(t, src')
          /\ tree' = IF set.slot = "logger" THEN [tree EXCEPT !.through[m] = set.through] ELSE tree
      BY <1>6, <2>1 DEF SetEnds
    <2>3. m \in Registered(tree) /\ GoodMap(tree, map)
      <3>1. m \in Registered(tree)
        BY <1>1, <1>6 DEF GoodMap
      <3>2. QED
        BY <1>1, <1>2, <2>1, <3>1, SetsMap DEF IsChange
    <2>4. /\ IsTree(tree') /\ Rooted(tree') /\ Registered(tree') = Registered(tree) /\ Exists(tree') = Exists(tree)
          /\ tree'.parent = tree.parent /\ tree'.children = tree.children /\ tree'.waiting = tree.waiting
      <3>1. PICK b \in BOOLEAN : b = set.through
        BY <1>2 DEF IsChange
      <3>2. tree' = [tree EXCEPT !.through[m] = b] \/ tree' = tree
        BY <2>2, <3>1
      <3>3. CASE tree' = [tree EXCEPT !.through[m] = b]
        <4>1. PICK flags : flags = [tree.through EXCEPT ![m] = b]
          OBVIOUS
        <4>2. flags \in [Mods -> BOOLEAN]
          BY <1>1, <4>1, TreeFields
        <4>3. PICK T : T = [tree EXCEPT !.through = flags]
          OBVIOUS
        <4>4. /\ IsTree(T) /\ Rooted(T) /\ Registered(T) = Registered(tree) /\ Exists(T) = Exists(tree)
              /\ T.parent = tree.parent /\ T.children = tree.children /\ T.waiting = tree.waiting
          BY <1>1, <4>2, <4>3, FlagKeepsTree
        <4>5. tree' = T
          BY <3>3, <4>1, <4>3
        <4>6. QED
          BY <4>4, <4>5
      <3>4. CASE tree' = tree
        BY <1>1, <3>4
      <3>5. QED
        BY <3>2, <3>3, <3>4
    <2>5. src'.map = map /\ src'.program = src.program /\ src'.rev \in Nat
      BY <2>2, DataWith
    <2>6. map \in MapType /\ DOMAIN map = Registered(tree) /\ Formatted(map)
      BY <1>1, <2>3, GoodTyped
    <2>7. \A u \in Threads : cache'[u] = cache[u] \/ cache'[u] = src'
      BY <2>2 DEF Synced, RevInv, DataInv
    <2>8. EntriesInv'
      <3>1. IsData(src')
        BY <2>5, <2>6 DEF RegistryInv, EntriesInv, IsData
      <3>2. GoodMap(tree', src'.map)
        BY <2>3, <2>4, <2>5, GoodSame
      <3>3. \A u \in Threads : IsData(cache'[u]) /\ Formatted(cache'[u].map)
        BY <2>5, <2>6, <2>7, <3>1 DEF RegistryInv, EntriesInv
      <3>4. QED
        BY <3>1, <3>2, <3>3 DEF EntriesInv, IsData
    <2>9. \A u \in Threads : cache'[u] = cache[u] \/ Registered(tree) \subseteq DOMAIN cache'[u].map
      BY <2>5, <2>6, <2>7
    <2>10. QED
      BY <1>1, <1>2, <1>4, <2>4, <2>8, <2>9, OtherStep
  <1>7. QED
    BY <1>5, <1>6 DEF SetEnds

(* set_program_name.                                                       *)
LEMMA SetProgramNameRegistry ==
  ASSUME RevInv, RegistryInv, NEW t \in Threads, NEW p \in Programs, SetProgramName(t, p)
  PROVE  RegistryInv'
  <1>1. /\ src' = [Bumped(src, 1) EXCEPT !.program = p] /\ UNCHANGED <<tree, cache, mtx, calls>>
        /\ IsTree(tree) /\ Rooted(tree)
    BY DEF SetProgramName, RegistryInv
  <1>2. src'.map = src.map /\ src'.program = p /\ src'.rev \in Nat
    BY <1>1, DataWith
  <1>3. EntriesInv'
    BY <1>1, <1>2 DEF RegistryInv, EntriesInv, IsData
  <1>4. QED
    BY <1>1, <1>3, StillStep

(* set_level.                                                              *)
LEMMA SetLevelRegistry ==
  ASSUME LogAssumption, RegistryInv, NEW t \in Threads, NEW from, NEW l \in Levels, SetLevel(t, from, l)
  PROVE  RegistryInv'
  <1>1. /\ tree' = WithLevel(tree, from, l) /\ UNCHANGED <<src, cache, mtx, calls>>
        /\ IsTree(tree) /\ Rooted(tree) /\ LevelsAssumption
    BY DEF SetLevel, RegistryInv, LogAssumption
  <1>2. /\ IsTree(tree') /\ Rooted(tree') /\ Registered(tree') = Registered(tree)
        /\ Exists(tree) \subseteq Exists(tree')
        /\ tree'.parent = tree.parent /\ tree'.children = tree.children /\ tree'.waiting = tree.waiting
    BY <1>1, LevelKeepsTree
  <1>3. EntriesInv'
    BY <1>1, <1>2, EntriesSame
  <1>4. QED
    BY <1>1, <1>2, <1>3, StillStep

(* A copy with the current revision has an entry for every module.         *)
LEMMA CurrentHasAll ==
  ASSUME RevInv, RegistryInv, NEW t \in Threads, ~Stale(t)
  PROVE  Registered(tree) \subseteq DOMAIN cache[t].map
  <1>1. mtx = Null /\ cache[t].rev = src.rev
    BY DEF Stale, RevInv, DataInv
  <1>2. DOMAIN src.map = Registered(tree)
    BY DEF RegistryInv, EntriesInv, GoodMap
  <1>3. QED
    BY <1>1, <1>2 DEF RevInv, DataInv, EffectIsCurrent, HasCurrent

(* A message, with a copy that is current or to be made.                   *)
LEMMA LogRegistryStep ==
  ASSUME LogAssumption, RevInv, RegistryInv, NEW t \in Threads, NEW m, NEW l, Log(t, m, l)
  PROVE  RegistryInv'
  <1>1. /\ m \in Mods /\ UNCHANGED <<tree, src, cache, mtx>> /\ TreeAssumption /\ IsTree(tree) /\ Rooted(tree)
        /\ mtx \in Threads \cup {Null} /\ Formatted(cache[t].map)
    BY DEF Log, Usable, Exists, RegistryInv, LogAssumption, EntriesInv
  <1>2. EntriesInv'
    BY <1>1, EntriesSame
  <1>3. PICK c : c = Call("log", "copy", m, m \in Registered(tree))
    OBVIOUS
  <1>4. IsCall(c) /\ c.op = "log" /\ c.at = "copy" /\ c.mod = m /\ c.arg \in BOOLEAN
        /\ (c.arg <=> m \in Registered(tree))
    <2>1. IsCall(c) /\ c.op = "log" /\ c.at = "copy" /\ c.mod = m
      BY <1>3 DEF Call, IsCall
    <2>2. c.arg = (m \in Registered(tree))
      BY <1>3 DEF Call
    <2>3. c.arg \in BOOLEAN /\ (c.arg <=> m \in Registered(tree))
      <3>1. CASE m \in Registered(tree)
        <4>1. c.arg = TRUE
          BY <2>2, <3>1
        <4>2. QED
          BY <3>1, <4>1
      <3>2. CASE m \notin Registered(tree)
        <4>1. (m \in Registered(tree)) = FALSE
          BY <3>2
        <4>2. c.arg = FALSE
          BY <2>2, <4>1
        <4>3. QED
          BY <3>2, <4>2
      <3>3. QED
        BY <3>1, <3>2
    <2>4. QED
      BY <2>1, <2>3
  <1>5. ASSUME NEW cs, None(cs), Begins(t, cs),
               \A d : cs = <<d>> => ~Makes(d) /\ CallTyped(d) /\ CallFinds(d, tree, cache[t].map)
        PROVE  RegistryInv'
    BY <1>1, <1>2, <1>5, OtherStep
  <1>6. CASE Stale(t)
    <2>1. PICK cs : cs = <<c>>
      OBVIOUS
    <2>2. Begins(t, cs) /\ None(cs) /\ \A d : cs = <<d>> => d = c
      BY <1>3, <1>6, <2>1 DEF Log, None
    <2>3. ~Makes(c) /\ CallTyped(c) /\ CallFinds(c, tree, cache[t].map)
      BY <1>1, <1>4 DEF Makes, CallTyped, CallFinds
    <2>4. QED
      BY <1>5, <2>2, <2>3
  <1>7. CASE ~Stale(t)
    <2>1. PICK cs : cs = Route(c, m, cache[t])
      OBVIOUS
    <2>2. Begins(t, cs)
      BY <1>3, <1>7, <2>1 DEF Log
    <2>3. Registered(tree) \subseteq DOMAIN cache[t].map
      BY <1>7, CurrentHasAll
    <2>4. /\ None(cs)
          /\ \A d : cs = <<d>> => ~Makes(d) /\ CallTyped(d) /\ CallFinds(d, tree, cache[t].map)
      BY <1>1, <1>4, <2>1, <2>3, RouteFinds DEF None
    <2>5. QED
      BY <1>5, <2>2, <2>4
  <1>8. QED
    BY <1>6, <1>7

(* get_logger and get_formatter.                                           *)
LEMMA GetRegistry ==
  ASSUME LogAssumption, RevInv, RegistryInv, NEW t \in Threads, NEW m, Get(t, m)
  PROVE  RegistryInv'
  <1>1. /\ m \in Mods /\ UNCHANGED <<tree, src, cache, mtx>> /\ IsTree(tree) /\ Rooted(tree)
        /\ mtx \in Threads \cup {Null}
    BY DEF Get, Usable, Exists, RegistryInv
  <1>2. EntriesInv'
    BY <1>1, EntriesSame
  <1>3. PICK c : c = Call("get", "copy", m, Null)
    OBVIOUS
  <1>4. c.op = "get" /\ c.at = "copy" /\ c.mod = m
    BY <1>3 DEF Call
  <1>5. ~Makes(c) /\ CallTyped(c) /\ CallFinds(c, tree, cache[t].map)
    BY <1>1, <1>4 DEF Makes, CallTyped, CallFinds
  <1>6. PICK cs : cs = <<c>>
    OBVIOUS
  <1>7. Begins(t, cs) /\ None(cs) /\ \A d : cs = <<d>> => d = c
    BY <1>3, <1>6 DEF Get, None
  <1>8. QED
    BY <1>1, <1>2, <1>5, <1>7, OtherStep

(* get_synced_data.                                                        *)
LEMMA CopyRegistry ==
  ASSUME LogAssumption, RevInv, RegistryInv, NEW t \in Threads, Copy(t)
  PROVE  RegistryInv'
  <1>1. /\ UNCHANGED <<tree, src, mtx>> /\ cache' = Synced(t, src) /\ TreeAssumption /\ IsTree(tree)
        /\ Rooted(tree) /\ mtx \in Threads \cup {Null} /\ IsData(src) /\ GoodMap(tree, src.map)
    BY DEF Copy, RegistryInv, LogAssumption, EntriesInv
  <1>2. /\ calls[t] # <<>> /\ Top(t).at = "copy" /\ IsCall(Top(t)) /\ CallTyped(Top(t))
        /\ CallFinds(Top(t), tree, cache[t].map)
    BY TopIs DEF Copy, At, RegistryInv, MessagesInv
  <1>3. ~Makes(Top(t)) /\ Top(t).op \in {"log", "get"} /\ Top(t).mod \in Mods
    BY <1>2 DEF CallTyped
  <1>4. Formatted(src.map) /\ DOMAIN src.map = Registered(tree)
    BY <1>1, GoodTyped
  <1>5. cache'[t] = src /\ \A u \in Threads : cache'[u] = cache[u] \/ cache'[u] = src
    BY <1>1 DEF Synced, RevInv, DataInv
  <1>6. EntriesInv'
    <2>1. \A u \in Threads : IsData(cache'[u]) /\ Formatted(cache'[u].map)
      BY <1>1, <1>4, <1>5 DEF RegistryInv, EntriesInv
    <2>2. QED
      BY <1>1, <2>1 DEF EntriesInv, IsData
  <1>7. \A u \in Threads : cache'[u] = cache[u] \/ Registered(tree) \subseteq DOMAIN cache'[u].map
    BY <1>4, <1>5
  <1>8. ASSUME NEW cs, None(cs), Becomes(t, cs),
               \A d : cs = <<d>> => ~Makes(d) /\ CallTyped(d) /\ CallFinds(d, tree, src.map)
        PROVE  RegistryInv'
    BY <1>1, <1>2, <1>3, <1>5, <1>6, <1>7, <1>8, OtherStep
  <1>9. CASE Top(t).op = "get"
    <2>1. PICK cs : cs = <<>>
      OBVIOUS
    <2>2. Becomes(t, cs) /\ None(cs) /\ \A d : cs # <<d>>
      BY <1>9, <2>1 DEF Copy, None
    <2>3. QED
      BY <1>8, <2>2
  <1>10. CASE Top(t).op = "log"
    <2>1. PICK cs : cs = Route(Top(t), Top(t).mod, src)
      OBVIOUS
    <2>2. Becomes(t, cs)
      BY <1>10, <2>1 DEF Copy
    <2>3. Top(t).arg \in BOOLEAN /\ (Top(t).arg => Top(t).mod \in Registered(tree))
      BY <1>2, <1>10 DEF CallTyped, CallFinds
    <2>4. /\ None(cs)
          /\ \A d : cs = <<d>> => ~Makes(d) /\ CallTyped(d) /\ CallFinds(d, tree, src.map)
      <3>1. PICK c : c = Top(t)
        OBVIOUS
      <3>2. /\ IsCall(c) /\ c.op = "log" /\ c.arg \in BOOLEAN /\ c.mod \in Mods
            /\ c.arg => c.mod \in Registered(tree)
                        /\ \A a \in Registered(tree) : c.mod \in Under(tree, a) => a \in DOMAIN src.map
        BY <1>2, <1>3, <1>4, <1>10, <2>3, <3>1
      <3>3. cs = Route(c, c.mod, src)
        BY <2>1, <3>1
      <3>4. QED
        BY <1>1, <1>4, <3>2, <3>3, RouteFinds DEF None
    <2>5. QED
      BY <1>8, <2>2, <2>4
  <1>11. QED
    BY <1>3, <1>9, <1>10

(* The parent of a registered module is registered, and is above all that  *)
(* the module is above.                                                    *)
LEMMA LoggerReturnsRegistry ==
  ASSUME LogAssumption, RevInv, RegistryInv, NEW t \in Threads, LoggerReturns(t)
  PROVE  RegistryInv'
  <1> DEFINE c == Top(t)
             p == tree.parent[c.mod]
  <1>1. /\ UNCHANGED <<tree, src, cache, mtx>> /\ TreeAssumption /\ IsTree(tree) /\ Rooted(tree)
        /\ mtx \in Threads \cup {Null} /\ Formatted(cache[t].map)
    BY DEF LoggerReturns, RegistryInv, LogAssumption, EntriesInv
  <1>2. /\ calls[t] # <<>> /\ c.at = "logger" /\ IsCall(c) /\ CallTyped(c)
        /\ CallFinds(c, tree, cache[t].map)
    BY TopIs DEF LoggerReturns, At, RegistryInv, MessagesInv
  <1>3. ~Makes(c) /\ c.op = "log" /\ c.mod \in Mods /\ c.arg \in BOOLEAN
    BY <1>2 DEF CallTyped
  <1>4. EntriesInv'
    BY <1>1, EntriesSame
  <1>5. ASSUME NEW cs, None(cs), Becomes(t, cs),
               \A d : cs = <<d>> => ~Makes(d) /\ CallTyped(d) /\ CallFinds(d, tree, cache[t].map)
        PROVE  RegistryInv'
    BY <1>1, <1>2, <1>3, <1>4, <1>5, OtherStep
  <1>6. CASE Becomes(t, <<>>)
    <2>1. PICK cs : cs = <<>>
      OBVIOUS
    <2>2. Becomes(t, cs) /\ None(cs) /\ \A d : cs # <<d>>
      BY <1>6, <2>1 DEF None
    <2>3. QED
      BY <1>5, <2>2
  <1>7. CASE p # Null /\ Becomes(t, Route(c, p, cache[t]))
    <2>1. PICK cs : cs = Route(c, p, cache[t])
      OBVIOUS
    <2>2. Becomes(t, cs)
      BY <1>7, <2>1
    <2>3. p \in Mods
      BY <1>1, <1>3, <1>7, TreeFields
    <2>4. ASSUME c.arg
          PROVE  p \in Registered(tree) /\ \A a \in Registered(tree) : p \in Under(tree, a) => a \in DOMAIN cache[t].map
      <3>1. /\ c.mod \in Registered(tree)
            /\ \A a \in Registered(tree) : c.mod \in Under(tree, a) => a \in DOMAIN cache[t].map
        BY <1>2, <1>3, <2>4 DEF CallFinds
      <3>2. p \in Registered(tree) /\ Registered(tree) \subseteq Mods
        BY <1>1, <1>7, <3>1, TreeFields DEF IsTree
      <3>3. \A a \in Registered(tree) : p \in Under(tree, a) => c.mod \in Under(tree, a)
        BY <1>1, <3>1, <3>2, UnderUp
      <3>4. QED
        BY <3>1, <3>2, <3>3
    <2>5. /\ None(cs)
          /\ \A d : cs = <<d>> => ~Makes(d) /\ CallTyped(d) /\ CallFinds(d, tree, cache[t].map)
      <3>1. PICK e : e = c
        OBVIOUS
      <3>2. PICK q : q = p
        OBVIOUS
      <3>3. /\ IsCall(e) /\ e.op = "log" /\ e.arg \in BOOLEAN /\ q \in Mods
            /\ e.arg => q \in Registered(tree)
                        /\ \A a \in Registered(tree) : q \in Under(tree, a) => a \in DOMAIN cache[t].map
        BY <1>2, <1>3, <2>3, <2>4, <3>1, <3>2
      <3>4. cs = Route(e, q, cache[t])
        BY <2>1, <3>1, <3>2
      <3>5. QED
        BY <1>1, <3>3, <3>4, RouteFinds DEF None
    <2>6. QED
      BY <1>5, <2>2, <2>5
  <1>8. QED
    BY <1>6, <1>7 DEF LoggerReturns

(* The exception of map.at ends the call.                                  *)
LEMMA CatchRegistry ==
  ASSUME LogAssumption, RevInv, RegistryInv, NEW t \in Threads, Catch(t)
  PROVE  RegistryInv'
  <1>1. /\ UNCHANGED <<tree, src, cache, mtx>> /\ IsTree(tree) /\ Rooted(tree) /\ mtx \in Threads \cup {Null}
    BY DEF Catch, RegistryInv
  <1>2. EntriesInv'
    BY <1>1, EntriesSame
  <1>3. calls[t] # <<>> /\ Top(t).at = "threw" /\ CallTyped(Top(t))
    BY TopIs DEF Catch, At, RegistryInv, MessagesInv
  <1>4. PICK cs : cs = <<>>
    OBVIOUS
  <1>5. Becomes(t, cs) /\ None(cs) /\ \A d : cs # <<d>>
    BY <1>4 DEF Catch, Ends, None
  <1>6. QED
    BY <1>1, <1>2, <1>3, <1>5, OtherStep DEF CallTyped

(***************************************************************************)
(* The theorems about the tree and its data.                               *)
(***************************************************************************)
LEMMA InitRegistryInv ==
  ASSUME LogAssumption, Init
  PROVE  RegistryInv
  <1>1. /\ tree = NoTree /\ src = Data0 /\ cache = [t \in Threads |-> Data0] /\ mtx = Null
        /\ calls = [t \in Threads |-> <<>>]
    BY DEF Init
  <1>2. /\ tree \in TreeShape /\ tree.index = {} /\ tree.parent = [m \in Mods |-> Null]
        /\ tree.children = [m \in Mods |-> <<>>] /\ tree.waiting = <<>>
    BY <1>1, EmptySeq DEF NoTree, TreeShape
  <1>3. Registered(tree) = {}
    BY <1>2 DEF Registered
  <1>4. IsTree(tree)
    <2>1. ToSet(<<>>) = {} /\ OneOfEach(<<>>)
      BY DEF ToSet, OneOfEach
    <2>2. QED
      BY <1>2, <1>3, <2>1 DEF IsTree, Children
  <1>5. Rooted(tree)
    <2>1. [m \in Mods |-> 0] \in [Mods -> 0..0] /\ Deeper(tree, [m \in Mods |-> 0])
      BY <1>3 DEF Deeper
    <2>2. QED
      BY <2>1 DEF Rooted
  <1>6. Data0.rev = 0 /\ Data0.map = <<>> /\ Data0.program = Null
    BY DEF Data0
  <1>7. <<>> \in [{} -> Entry] /\ DOMAIN <<>> = {}
    OBVIOUS
  <1>8. <<>> \in MapType
    BY <1>7, MapTyped
  <1>9. EntriesInv
    BY <1>1, <1>3, <1>6, <1>7, <1>8 DEF EntriesInv, GoodMap, Formatted, Nearest, IsData
  <1>10. \A t \in Threads : calls[t] = <<>> /\ Len(calls[t]) = 0 /\ DOMAIN calls[t] = {}
    BY <1>1
  <1>11. BuildInv /\ MessagesInv
    BY <1>2, <1>7, <1>10 DEF BuildInv, MessagesInv
  <1>12. QED
    BY <1>1, <1>4, <1>5, <1>9, <1>10, <1>11 DEF RegistryInv, LogAssumption, MaxCallsAssumption

(* No step breaks the invariant.                                           *)
LEMMA NextRegistryInv ==
  ASSUME LogAssumption, RevInv, RegistryInv, [Next]_vars
  PROVE  RegistryInv'
  <1>0. Writers \subseteq Threads
    BY DEF LogAssumption, ThreadsAssumption
  <1>1. CASE UNCHANGED vars
    <2>1. EntriesInv'
      BY <1>1, EntriesSame DEF vars
    <2>2. QED
      BY <1>1, <2>1, StillStep DEF vars, RegistryInv
  <1>2. ASSUME NEW t \in Writers, NEW m \in Mods, Construct(t, m, StartLevel)
        PROVE  RegistryInv'
    BY <1>0, <1>2, ConstructRegistry
  <1>3. ASSUME NEW t \in Writers, InitBegins(t) \/ InitEnds(t) \/ SetEnds(t)
        PROVE  RegistryInv'
    BY <1>0, <1>3, InitBeginsRegistry, InitEndsRegistry, SetEndsRegistry
  <1>4. ASSUME NEW t \in Writers, NEW m \in Mods, Destroy(t, m)
        PROVE  RegistryInv'
    BY <1>0, <1>4, DestroyRegistry
  <1>5. ASSUME NEW t \in Writers, NEW m \in Mods, NEW v \in Loggers \cup {Null}, NEW b \in BOOLEAN,
               SetBegins(t, m, "logger", v, b)
        PROVE  RegistryInv'
    BY <1>0, <1>5, SetBeginsRegistry DEF Values, Slots
  <1>6. ASSUME NEW t \in Writers, NEW m \in Mods, NEW v \in Formatters \cup {Null},
               SetBegins(t, m, "formatter", v, FALSE)
        PROVE  RegistryInv'
    BY <1>0, <1>6, SetBeginsRegistry DEF Values, Slots
  <1>7. ASSUME NEW t \in Writers, NEW p \in Programs, SetProgramName(t, p)
        PROVE  RegistryInv'
    BY <1>0, <1>7, SetProgramNameRegistry
  <1>8. ASSUME NEW t \in Writers, NEW from, NEW l \in Levels, SetLevel(t, from, l)
        PROVE  RegistryInv'
    BY <1>0, <1>8, SetLevelRegistry
  <1>9. ASSUME NEW t \in Threads, NEW m, NEW l, Log(t, m, l) \/ Get(t, m)
        PROVE  RegistryInv'
    BY <1>9, LogRegistryStep, GetRegistry
  <1>10. ASSUME NEW t \in Threads, Copy(t) \/ LoggerReturns(t) \/ Catch(t)
         PROVE  RegistryInv'
    BY <1>10, CopyRegistry, LoggerReturnsRegistry, CatchRegistry
  <1>11. QED
    BY <1>1, <1>2, <1>3, <1>4, <1>5, <1>6, <1>7, <1>8, <1>9, <1>10 DEF Next

(* The tree, the data of the modules and the messages on their way up fit  *)
(* each other in every reachable state, whatever the tree and whichever    *)
(* threads change it (log.cc:145).                                         *)
THEOREM RegistryAlways == Spec => []RegistryInv
  <1>1. LogAssumption
    BY TreeAssumption, ThreadsAssumption, ParentAssumption, LevelsAssumption, MaxCallsAssumption DEF LogAssumption
  <1>2. Init => RegistryInv
    BY <1>1, InitRegistryInv
  <1>3. RevInv /\ RegistryInv /\ [Next]_vars => RegistryInv'
    BY <1>1, NextRegistryInv
  <1>4. QED
    BY <1>2, <1>3, RevisionsHold, PTL DEF Spec

(* What a module's entry says is in effect is what its nearest ancestor    *)
(* with a value of its own has, in trees of any shape and depth: the walks *)
(* down of set_logger and set_formatter, a constructor and a destructor    *)
(* leave nobody with an old value (_set_effective_logger).                 *)
THEOREM NearestAlways == Spec => []EffectiveIsNearest
  <1>1. RegistryInv => EffectiveIsNearest
    BY DEF RegistryInv, EntriesInv, GoodMap, Nearest, EffectiveIsNearest
  <1>2. QED
    BY <1>1, RegistryAlways, PTL

(***************************************************************************)
(* The own loggers and formatters in the copies.                           *)
(***************************************************************************)
(* Nothing that is compared changes.                                       *)
LEMMA OwnSame ==
  ASSUME OwnIsKnown, UNCHANGED <<src, cache, mtx>>, \A x \in DOMAIN src.map : tree'.parent[x] = tree.parent[x]
  PROVE  OwnIsKnown'
  BY DEF OwnIsKnown, HasCurrent

(* The revision is beyond every copy, or somebody has the mutex.           *)
LEMMA OwnMoves ==
  ASSUME RevInv, UNCHANGED cache, src'.rev \in Nat,
         mtx' # Null \/ src.rev < src'.rev \/ (mtx # Null /\ src.rev <= src'.rev)
  PROVE  OwnIsKnown'
  <1>1. ASSUME NEW t \in Threads, HasCurrent(t)' PROVE FALSE
    <2>1. mtx' = Null /\ cache[t].rev = src'.rev
      BY <1>1 DEF HasCurrent
    <2>2. /\ cache[t].rev \in Nat /\ src.rev \in Nat /\ cache[t].rev <= src.rev
          /\ mtx # Null => cache[t].rev < src.rev
      BY DEF RevInv, DataInv
    <2>3. QED
      BY <2>1, <2>2
  <1>2. QED
    BY <1>1 DEF OwnIsKnown

LEMMA ConstructOwn ==
  ASSUME RegistryInv, OwnIsKnown, NEW t \in Threads, NEW m \in Mods, NEW l, Construct(t, m, l)
  PROVE  OwnIsKnown'
  <1>1. /\ m \notin Registered(tree) /\ DOMAIN src.map = Registered(tree) /\ Registered(tree) \subseteq Mods
        /\ tree \in TreeShape
    BY TreeFields DEF Construct, RegistryInv, IsTree, EntriesInv, GoodMap
  <1>2. \A x \in Mods : x # m => tree'.parent[x] = tree.parent[x]
    <2>1. PICK made : made = Constructed(tree, m, Parent[m], l)
      OBVIOUS
    <2>2. made.parent = [tree.parent EXCEPT ![m] = Parent[m]]
      BY <1>1, <2>1 DEF Constructed, TreeShape
    <2>3. tree' = made \/ tree' = Waits(made, m)
      BY <2>1 DEF Construct
    <2>4. Waits(made, m).parent = made.parent
      BY <1>1, <2>1 DEF Waits, Constructed, TreeShape
    <2>5. QED
      BY <1>1, <2>2, <2>3, <2>4 DEF TreeShape
  <1>3. \A x \in DOMAIN src.map : tree'.parent[x] = tree.parent[x]
    BY <1>1, <1>2
  <1>4. QED
    BY <1>3, OwnSame DEF Construct

LEMMA InitEndsOwn ==
  ASSUME ThreadsAssumption, RevInv, NEW t \in Threads, InitEnds(t)
  PROVE  OwnIsKnown'
  <1>1. mtx # Null /\ UNCHANGED cache
    BY TopOK DEF InitEnds, At, Holding, ThreadsAssumption
  <1>2. src'.rev \in Nat /\ src.rev <= src'.rev
    <2>1. PICK n \in {0, 1} : \E x : src' = [Bumped(src, n) EXCEPT !.map = x]
      BY DEF InitEnds
    <2>2. QED
      BY <2>1, Moved
  <1>3. QED
    BY <1>1, <1>2, OwnMoves

(* Only the thread that changed something has a copy of it already.        *)
LEMMA SetEndsOwn ==
  ASSUME ThreadsAssumption, RevInv, RevInv', NEW t \in Threads, SetEnds(t)
  PROVE  OwnIsKnown'
  <1>1. mtx = t /\ mtx # Null
    BY TopOK DEF SetEnds, At, Holding, ThreadsAssumption
  <1>2. CASE UNCHANGED <<src, cache>>
    BY <1>1, <1>2, OwnMoves DEF RevInv, DataInv
  <1>3. ASSUME NEW x, src' = [src EXCEPT !.map = x], cache' = Synced(t, src')
        PROVE  OwnIsKnown'
    <2>1. src'.rev = src.rev /\ cache'[t] = src' /\ \A u \in Threads \ {t} : cache'[u] = cache[u]
      BY <1>3 DEF Synced, RevInv, DataInv, IsRecord
    <2>2. ASSUME NEW u \in Threads, u # t PROVE ~HasCurrent(u)'
      <3>1. cache[u].rev \in Nat /\ cache[u].rev < src.rev /\ src.rev \in Nat
        BY <1>1 DEF RevInv, DataInv
      <3>2. QED
        BY <2>1, <2>2, <3>1 DEF HasCurrent
    <2>3. QED
      BY <2>1, <2>2 DEF OwnIsKnown
  <1>4. QED
    BY <1>2, <1>3 DEF SetEnds

(* A child that becomes a root gets as its own what was in effect: the     *)
(* same as before where it had its own, and no copy says what it had not.  *)
LEMMA DestroyOwn ==
  ASSUME LogAssumption, RegistryInv, OwnIsKnown, NEW t \in Threads, NEW m, Destroy(t, m)
  PROVE  OwnIsKnown'
  <1>1. /\ m \in Registered(tree) /\ tree' = OutOfTree(tree, m) /\ UNCHANGED <<cache, mtx>>
        /\ src' = [src EXCEPT !.map = WithoutModule(tree, src.map, m)]
        /\ TreeAssumption /\ IsTree(tree) /\ Rooted(tree) /\ m \in Mods
        /\ DOMAIN src.map = Registered(tree) /\ Registered(tree) \subseteq Mods
    BY TreeFields DEF Destroy, LogAssumption, RegistryInv, EntriesInv, GoodMap
  <1>2. \A x \in Mods : tree'.parent[x] = IF x = m \/ x \in Children(tree, m) THEN Null ELSE tree.parent[x]
    BY <1>1, OutOfTreeTree
  <1>3. src'.map = WithoutModule(tree, src.map, m) /\ src'.rev = src.rev
    BY <1>1, DataWith
  <1>4. ToSet(tree.children[m]) = Children(tree, m)
    BY <1>1 DEF IsTree
  <1>5. SUFFICES ASSUME NEW u \in Threads, HasCurrent(u)', NEW x \in DOMAIN src'.map, NEW k \in Slots
                 PROVE  \/ cache[u].map[x][k].own = src'.map[x][k].own
                        \/ tree'.parent[x] = Null /\ cache[u].map[x][k].own = Null
    BY <1>1 DEF OwnIsKnown
  <1>6. x \in Registered(tree) /\ x # m /\ x \in Mods
    BY <1>1, <1>3 DEF WithoutModule
  <1>7. \/ cache[u].map[x][k].own = src.map[x][k].own
        \/ tree.parent[x] = Null /\ cache[u].map[x][k].own = Null
    <2>1. HasCurrent(u)
      BY <1>1, <1>3, <1>5 DEF HasCurrent
    <2>2. QED
      BY <1>1, <1>6, <2>1 DEF OwnIsKnown
  <1>8. CASE x \notin Children(tree, m)
    BY <1>2, <1>3, <1>4, <1>6, <1>7, <1>8 DEF WithoutModule
  <1>9. CASE x \in Children(tree, m)
    <2>1. tree'.parent[x] = Null /\ src'.map[x][k].own = src.map[x][k].eff
      BY <1>2, <1>3, <1>4, <1>6, <1>9 DEF WithoutModule
    <2>2. src.map[x][k].own # Null => src.map[x][k].eff = src.map[x][k].own
      BY <1>6 DEF RegistryInv, EntriesInv, GoodMap, Nearest
    <2>3. QED
      BY <1>7, <2>1, <2>2
  <1>10. QED
    BY <1>8, <1>9

LEMMA CopyOwn ==
  ASSUME RevInv, OwnIsKnown, NEW t \in Threads, Copy(t)
  PROVE  OwnIsKnown'
  <1>1. /\ mtx = Null /\ UNCHANGED <<tree, src, mtx>> /\ cache'[t] = src
        /\ \A u \in Threads \ {t} : cache'[u] = cache[u]
    BY DEF Copy, MayCopy, Synced, RevInv, DataInv
  <1>2. QED
    BY <1>1 DEF OwnIsKnown, HasCurrent

LEMMA NextOwn ==
  ASSUME LogAssumption, RevInv, RevInv', RegistryInv, OwnIsKnown, [Next]_vars
  PROVE  OwnIsKnown'
  <1>0. Writers \subseteq Threads /\ ThreadsAssumption
    BY DEF LogAssumption, ThreadsAssumption
  <1>1. CASE UNCHANGED vars
    BY <1>1, OwnSame DEF vars
  <1>2. ASSUME NEW t \in Writers, NEW m \in Mods, Construct(t, m, StartLevel)
        PROVE  OwnIsKnown'
    BY <1>0, <1>2, ConstructOwn
  <1>3. ASSUME NEW t \in Writers, InitBegins(t)
        PROVE  OwnIsKnown'
    BY <1>0, <1>3, OwnMoves DEF InitBegins, Lock, ThreadsAssumption, RevInv, DataInv
  <1>4. ASSUME NEW t \in Writers, InitEnds(t) \/ SetEnds(t)
        PROVE  OwnIsKnown'
    BY <1>0, <1>4, InitEndsOwn, SetEndsOwn
  <1>5. ASSUME NEW t \in Writers, NEW m \in Mods, Destroy(t, m)
        PROVE  OwnIsKnown'
    BY <1>0, <1>5, DestroyOwn
  <1>6. ASSUME NEW t \in Writers, NEW m, NEW k, NEW v, NEW b, SetBegins(t, m, k, v, b)
        PROVE  OwnIsKnown'
    BY <1>0, <1>6, OwnMoves DEF SetBegins, Lock, ThreadsAssumption, RevInv, DataInv
  <1>7. ASSUME NEW t \in Writers, NEW p \in Programs, SetProgramName(t, p)
        PROVE  OwnIsKnown'
    <2>1. src'.rev = src.rev + 1 /\ src.rev \in Nat /\ UNCHANGED cache
      BY <1>7, Moved DEF SetProgramName, RevInv, DataInv
    <2>2. QED
      BY <2>1, OwnMoves
  <1>8. ASSUME NEW t \in Writers, NEW from, NEW l, SetLevel(t, from, l)
        PROVE  OwnIsKnown'
    BY <1>8, OwnSame DEF SetLevel, WithLevel, RegistryInv, IsTree, TreeShape
  <1>9. ASSUME NEW t \in Threads, NEW m, NEW l, Log(t, m, l) \/ Get(t, m)
        PROVE  OwnIsKnown'
    BY <1>9, OwnSame DEF Log, Get
  <1>10. ASSUME NEW t \in Threads, Copy(t)
         PROVE  OwnIsKnown'
    BY <1>10, CopyOwn
  <1>11. ASSUME NEW t \in Threads, LoggerReturns(t) \/ Catch(t)
         PROVE  OwnIsKnown'
    BY <1>11, OwnSame DEF LoggerReturns, Catch
  <1>12. QED
    BY <1>1, <1>2, <1>3, <1>4, <1>5, <1>6, <1>7, <1>8, <1>9, <1>10, <1>11 DEF Next

(* A thread's copy with the current revision says the current things of    *)
(* what is in effect for every module, and of the own logger and formatter *)
(* of every module but those that lost their parent, for any threads,      *)
(* modules and changes (get_synced_data, ~Module).                         *)
THEOREM CopiesCurrent == Spec => []CopyIsCurrent
  <1>1. LogAssumption
    BY TreeAssumption, ThreadsAssumption, ParentAssumption, LevelsAssumption, MaxCallsAssumption DEF LogAssumption
  <1>2. Init => OwnIsKnown
    BY DEF Init, Data0, OwnIsKnown
  <1>3. RevInv /\ RevInv' /\ RegistryInv /\ OwnIsKnown /\ [Next]_vars => OwnIsKnown'
    BY <1>1, NextOwn
  <1>4. RevInv => EffectIsCurrent
    BY DEF RevInv, DataInv
  <1>5. Spec => []OwnIsKnown
    BY <1>2, <1>3, RevisionsHold, RegistryAlways, PTL DEF Spec
  <1>6. EffectIsCurrent /\ OwnIsKnown => CopyIsCurrent
    BY DEF CopyIsCurrent
  <1>7. QED
    BY <1>4, <1>5, <1>6, RevisionsHold, PTL

(* A message logged to a registered module, and what its loggers pass on   *)
(* to its parents, finds the data of each module in the thread's copy, and *)
(* there is a formatter wherever there is a logger (do_log).               *)
THEOREM DataAlwaysFound == Spec => []DataFound
  <1>1. RegistryInv => DataFound
    BY DEF RegistryInv, MessagesInv, CallTyped, CallFinds, DataFound
  <1>2. QED
    BY <1>1, RegistryAlways, PTL

(* There are as many entries in the index as registered modules.           *)
LEMMA IndexOnce ==
  ASSUME ParentAssumption, NEW T, IsTree(T)
  PROVE  Cardinality(T.index) = Cardinality(Registered(T))
  <1> DEFINE f == [m \in Registered(T) |-> <<T.name[m], m>>]
  <1>1. T.index = {<<T.name[m], m>> : m \in Registered(T)} /\ Registered(T) \subseteq Mods
    BY TreeFields DEF IsTree
  <1>2. IsFiniteSet(Registered(T))
    BY <1>1, FS_Subset DEF ParentAssumption
  <1>3. f \in [Registered(T) -> T.index] /\ \A x, y \in Registered(T) : f[x] = f[y] => x = y
    BY <1>1
  <1>4. \A e \in T.index : \E m \in Registered(T) : f[m] = e
    BY <1>1
  <1>5. f \in Bijection(Registered(T), T.index)
    BY <1>3, <1>4 DEF Bijection, Injection, Surjection, IsInjective
  <1>6. ExistsBijection(Registered(T), T.index)
    BY <1>5 DEF ExistsBijection
  <1>7. QED
    BY <1>2, <1>6, FS_Bijection

(* The list of waiting modules, the links between parents and children and *)
(* the index agree with each other, in whatever order modules of any tree  *)
(* are constructed and destroyed (Module::init, try_init_waiting).         *)
THEOREM TreeAlwaysAgrees == Spec => []TreeAgrees
  <1>1. ASSUME RegistryInv
        PROVE  TreeAgrees
    <2>1. IsTree(tree) /\ EntriesInv /\ BuildInv
      BY <1>1 DEF RegistryInv
    <2>2. TypeOK
      BY <1>1, <2>1, TreeFields DEF TypeOK, RegistryInv, EntriesInv, GoodMap
    <2>3. ASSUME NEW m \in Registered(tree)
          PROVE  /\ tree.parent[m] \in Registered(tree) \cup {Null}
                 /\ \A c \in Mods : c \in ToSet(tree.children[m]) <=> c \in Registered(tree) /\ tree.parent[c] = m
      BY <2>1, TreeFields DEF IsTree, Children
    <2>4. Cardinality(tree.index) = Cardinality(Registered(tree))
      BY <2>1, IndexOnce, ParentAssumption
    <2>5. QED
      BY <2>1, <2>2, <2>3, <2>4 DEF TreeAgrees, BuildInv
  <1>2. QED
    BY <1>1, RegistryAlways, PTL

(* What a walk down from some modules gives, and who takes the value of a  *)
(* module in a slot.                                                       *)
WalksInv ==
  /\ \A from \in SUBSET Mods : Below(tree, from) = Reach(Kids(tree), from)
  /\ \A m \in Mods, k \in Slots : Heirs(tree, src.map, m, k) = Reach(Takers(tree, src.map, k), {m}) \ {m}

(* The walks of set_level and of set_logger and set_formatter end, and     *)
(* reach what is below a module, or what takes its value from it: the tree *)
(* never has a cycle (Module::set_level, _set_effective_logger).           *)
THEOREM WalksAlwaysReach == Spec => []WalksInv
  <1>1. RegistryInv => WalksInv
    BY BelowIs, HeirsAre, TreeAssumption DEF RegistryInv, WalksInv
  <1>2. QED
    BY <1>1, RegistryAlways, PTL
=============================================================================
