----------------------------- MODULE LogRegistry ----------------------------
(***************************************************************************)
(* panda::log: modules, loggers and formatters changed by some threads     *)
(* while others log (log.cc).                                              *)
(*                                                                         *)
(* The data are changed under a mutex, and every change moves a revision.  *)
(* A thread that logs compares the revision of its own copy with the       *)
(* current one without the mutex, takes the mutex only to copy when they   *)
(* differ, and calls the logger that it finds in its copy.  The logger     *)
(* may itself log or change loggers: calls nest.                           *)
(***************************************************************************)
EXTENDS ModuleTree, FiniteSets

CONSTANTS
  Threads, Programs,
  Writers,     \* the threads that change modules, loggers and formatters
  Nesting,     \* the threads whose loggers log or change something themselves
  StartLevel,  \* the level that modules are constructed with
  Uses,        \* the modules that each thread logs to
  Parent,      \* the module each is constructed under, Null for a root
  MaxChanges,  \* bound on the calls that change something, constructors apart
  MaxCalls     \* bound on the nesting of calls in a thread

ASSUME ThreadsAssumption == Null \notin Threads /\ Writers \subseteq Threads /\ Nesting \subseteq Threads
ASSUME UsesAssumption == Uses \in [Threads -> SUBSET Mods]
ASSUME ParentAssumption == IsFiniteSet(Mods) /\ Parent \in [Mods -> Mods \cup {Null}]
ASSUME LevelsAssumption == StartLevel \in Levels /\ Null \notin Levels
ASSUME MaxCallsAssumption == MaxCalls \in Nat \ {0}

VARIABLES
  tree,    \* the Module objects and Instance::modules (see ModuleTree)
  src,     \* Instance::src_data
  cache,   \* mt_data and ct_data: what get_data() returns to each thread
  mtx,     \* the thread that holds Instance::mtx
  calls,   \* the calls in progress in each thread, the outermost first
  changes  \* how many changes were made
vars == <<tree, src, cache, mtx, calls, changes>>

Data0 == [rev |-> 0, map |-> <<>>, program |-> Null]

Init ==
  /\ tree = NoTree /\ src = Data0 /\ cache = [t \in Threads |-> Data0]
  /\ mtx = Null /\ calls = [t \in Threads |-> <<>>] /\ changes = 0

(* A call: what it is, how far it is, its module, the revision when it     *)
(* began, the revision and the logger it uses.                             *)
Call(op, at, m, arg) == [op |-> op, at |-> at, mod |-> m, arg |-> arg, since |-> src.rev, rev |-> 0,
                            logger |-> Null, formatter |-> Null]
Top(t)      == Last(calls[t])
At(t, at)   == calls[t] # <<>> /\ Top(t).at = at
Becomes(t, cs) == calls' = [calls EXCEPT ![t] = Front(@) \o cs]
Goes(t, c)  == Becomes(t, <<c>>)
Ends(t)     == Becomes(t, <<>>)
(* A thread starts something outside of any call or inside a logger.       *)
Free(t)     == calls[t] # <<>> => t \in Nesting /\ Top(t).at = "logger" /\ Len(calls[t]) < MaxCalls
Begins(t, cs) == Free(t) /\ calls' = [calls EXCEPT ![t] = @ \o cs]

Changes     == changes < MaxChanges /\ changes' = changes + 1

Lock(t)  == mtx = Null /\ mtx' = t
Unlock   == mtx' = Null
Bumped(d, n) == [d EXCEPT !.rev = @ + n]

(* get_data: each thread has its own copy.  (A variant has one for all.)   *)
SyncedAll(t, d) == [u \in Threads |-> d]
Synced(t, d)    == [cache EXCEPT ![t] = d]

(* A module can be used once its constructor has returned, registered or   *)
(* waiting.                                                                *)
Built(m) == \E t \in Threads : \E i \in DOMAIN calls[t] : calls[t][i].op = "ctor" /\ calls[t][i].arg = m
Usable   == {m \in Exists(tree) : ~Built(m)}

(* Constructors and the destructor of modules read the index and the list  *)
(* of waiting modules without the mutex: the program runs one at a time.   *)
Building == \E t \in Threads : \E i \in DOMAIN calls[t] : calls[t][i].op = "ctor"

-----------------------------------------------------------------------------
(* Module::Module.  A module that can be registered is, and then those     *)
(* that waited for it, until nobody on the list is ready.                  *)
Construct(t, m, l) ==
  LET made == Constructed(tree, m, Parent[m], l)
  IN  /\ m \notin Exists(tree) /\ ~Building
      /\ IF MustWait(made, m)
         THEN Free(t) /\ tree' = Waits(made, m) /\ UNCHANGED calls
         ELSE Begins(t, <<Call("ctor", "init", m, m)>>) /\ tree' = made
      /\ UNCHANGED <<src, cache, mtx, changes>>

(* Module::init, up to the ++rev that the other threads can see.           *)
InitBegins(t) ==
  /\ At(t, "init") /\ Lock(t)
  /\ src' = Bumped(src, 1) /\ Goes(t, [Top(t) EXCEPT !.at = "enter"])
  /\ UNCHANGED <<tree, cache, changes>>

(* The rest of it; _parent->init() only moves the revision.                *)
InitEnds(t) ==
  LET m    == Top(t).mod
      next == Ready(tree')
  IN  /\ At(t, "enter") /\ Unlock
      /\ tree' = InTree(tree, m)
      /\ src' = [Bumped(src, IF tree.parent[m] = Null THEN 0 ELSE 1) EXCEPT !.map = WithModule(tree, @, m)]
      /\ IF next = 0 THEN Ends(t) ELSE Goes(t, [Top(t) EXCEPT !.at = "init", !.mod = tree'.waiting[next]])
      /\ UNCHANGED <<cache, changes>>

(* Module::~Module.  Nobody uses the module, and no message on its way up  *)
(* the tree can still come to it: that is for the program to ensure.       *)
InUse(m) == \E t \in Threads : \E i \in DOMAIN calls[t] :
  LET c == calls[t][i] IN c.mod = m \/ (c.op = "log" /\ c.mod \in Below(tree, {m}))
Destroy(t, m) ==
  /\ m \in Registered(tree) /\ ~InUse(m) /\ ~Building /\ Changes
  /\ Free(t) /\ mtx = Null
  /\ tree' = OutOfTree(tree, m) /\ src' = [src EXCEPT !.map = WithoutModule(tree, @, m)]
  /\ UNCHANGED <<cache, mtx, calls>>

-----------------------------------------------------------------------------
(* set_logger and set_formatter: ++rev, then the data, this thread's copy  *)
(* and the flag.  For a module that still waits the data are not found.    *)
SetBegins(t, m, k, v, through) ==
  /\ m \in Usable /\ Changes /\ Lock(t)
  /\ Begins(t, <<Call("set", "change", m, [slot |-> k, value |-> v, through |-> through])>>)
  /\ src' = Bumped(src, 1)
  /\ UNCHANGED <<tree, cache>>
SetEnds(t) ==
  LET m   == Top(t).mod
      set == Top(t).arg
  IN  /\ At(t, "change") /\ Unlock /\ Ends(t) /\ UNCHANGED changes
      /\ IF m \notin DOMAIN src.map THEN UNCHANGED <<tree, src, cache>> ELSE
           /\ src' = [src EXCEPT !.map = WithValue(tree, @, m, set.slot, set.value)]
           /\ cache' = Synced(t, src')
           /\ tree' = IF set.slot = "logger" THEN [tree EXCEPT !.through[m] = set.through] ELSE tree

SetProgramName(t, p) ==
  /\ Free(t) /\ Changes /\ mtx = Null
  /\ src' = [Bumped(src, 1) EXCEPT !.program = p]
  /\ UNCHANGED <<tree, cache, mtx, calls>>

(* Module::set_level, and set_level by name: every module with the name.   *)
(* Levels have no revision: they are in the Module objects.                *)
SetLevel(t, from, l) ==
  /\ Free(t) /\ Changes /\ mtx = Null /\ from # {}
  /\ tree' = WithLevel(tree, from, l)
  /\ UNCHANGED <<src, cache, mtx, calls>>

-----------------------------------------------------------------------------
(* get_synced_data: the revisions are compared without the mutex; the data *)
(* are copied with it.  (Variants: a copy made once, and without the mutex.) *)
StaleOnce(t) == cache[t].rev = 0
Stale(t)     == cache[t].rev # src.rev
CopyAnytime  == TRUE
MayCopy      == mtx = Null

(* The message goes to the logger in effect for m in the thread's copy;    *)
(* where there is none the call ends, and where m is not in the copy,      *)
(* map.at throws.                                                          *)
Route(c, m, data) ==
  IF m \notin DOMAIN data.map THEN <<[c EXCEPT !.at = "threw"]>>
  ELSE IF data.map[m].logger.eff = Null THEN <<>>
  ELSE <<[c EXCEPT !.at = "logger", !.mod = m, !.rev = data.rev,
                   !.logger = data.map[m].logger.eff, !.formatter = data.map[m].formatter.eff]>>

(* A message that the level of its module lets through.                    *)
Log(t, m, l) ==
  LET c == Call("log", "copy", m, m \in Registered(tree))
  IN  /\ m \in Usable /\ l >= tree.level[m]
      /\ Begins(t, IF Stale(t) THEN <<c>> ELSE Route(c, m, cache[t]))
      /\ UNCHANGED <<tree, src, cache, mtx, changes>>
(* get_logger and get_formatter                                            *)
Get(t, m) ==
  /\ m \in Usable /\ Stale(t)
  /\ Begins(t, <<Call("get", "copy", m, Null)>>)
  /\ UNCHANGED <<tree, src, cache, mtx, changes>>

Copy(t) ==
  /\ At(t, "copy") /\ MayCopy
  /\ cache' = Synced(t, src)
  /\ Becomes(t, IF Top(t).op = "get" THEN <<>> ELSE Route(Top(t), Top(t).mod, src))
  /\ UNCHANGED <<tree, src, mtx, changes>>

(* The logger returns: a module that passes messages through gives it to   *)
(* the logger of its parent.                                               *)
LoggerReturns(t) ==
  LET c == Top(t)
  IN  /\ At(t, "logger")
      /\ Becomes(t, IF tree.through[c.mod] /\ tree.parent[c.mod] # Null
                    THEN Route(c, tree.parent[c.mod], cache[t]) ELSE <<>>)
      /\ UNCHANGED <<tree, src, cache, mtx, changes>>
Catch(t) == At(t, "threw") /\ Ends(t) /\ UNCHANGED <<tree, src, cache, mtx, changes>>

Next ==
  \/ \E t \in Writers :
       \/ \E m \in Mods : Construct(t, m, StartLevel)
       \/ InitBegins(t) \/ InitEnds(t)
       \/ \E m \in Mods : Destroy(t, m)
       \/ \E m \in Mods, v \in Loggers \cup {Null}, b \in BOOLEAN : SetBegins(t, m, "logger", v, b)
       \/ \E m \in Mods, v \in Formatters \cup {Null} : SetBegins(t, m, "formatter", v, FALSE)
       \/ SetEnds(t)
       \/ \E p \in Programs : SetProgramName(t, p)
       \/ \E l \in Levels : \/ \E m \in Usable : SetLevel(t, {m}, l)
                            \/ \E m \in Registered(tree) : SetLevel(t, Named(tree, tree.name[m]), l)
  \/ \E t \in Threads :
       \/ \E m \in Uses[t], l \in Levels : Log(t, m, l)
       \/ \E m \in Uses[t] : Get(t, m)
       \/ Copy(t) \/ LoggerReturns(t) \/ Catch(t)

Spec == Init /\ [][Next]_vars

(***************************************************************************)
(* Properties.                                                             *)
(***************************************************************************)
MapType  == UNION {[ms -> [logger    : [own : Loggers \cup {Null}, eff : Loggers \cup {Null}],
                           formatter : [own : Formatters \cup {Null}, eff : Formatters \cup {Null}]]]
                    : ms \in SUBSET Mods}
IsData(d) == d.rev \in Nat /\ d.map \in MapType /\ d.program \in Programs \cup {Null}
(* Type invariant: the data have an entry for each registered module.      *)
TypeOK ==
  /\ IsData(src) /\ \A t \in Threads : IsData(cache[t])
  /\ tree.parent \in [Mods -> Mods \cup {Null}] /\ tree.children \in [Mods -> Seq(Mods)]
  /\ tree.level \in [Mods -> Levels \cup {Null}] /\ tree.through \in [Mods -> BOOLEAN]
  /\ DOMAIN src.map = Registered(tree) /\ tree.waiting \in Seq(Mods)
  /\ mtx \in Threads \cup {Null}
  /\ \A t \in Threads : Len(calls[t]) <= MaxCalls

(* What is in effect for a module, kept in its own entry by every change   *)
(* of the tree and of a logger, is what a walk up the tree would find: the *)
(* value of the nearest ancestor that has its own ("nulling l/f restores   *)
(* parent's behaviour", tests/log/module.cc:179).                          *)
EffectiveIsNearest == \A m \in Registered(tree), k \in Slots :
  LET e == src.map[m][k]
      p == tree.parent[m]
  IN  e.eff = IF e.own = Null /\ p # Null THEN src.map[p][k].eff ELSE e.own

(* A copy that has the current revision says the current things of what is *)
(* in effect for every module, although the revision is compared without   *)
(* the mutex: nobody copies in the middle of a change and remains at what  *)
(* he copied.  It says the own logger and formatter of a module too, the   *)
(* ones get_logger and get_formatter return, except that it may not know   *)
(* those a module got from ~Module when it became a root.                  *)
HasCurrent(t) == mtx = Null /\ cache[t].rev = src.rev
EffectIsCurrent == \A t \in Threads : HasCurrent(t) =>
  /\ cache[t].program = src.program
  /\ \A m \in DOMAIN src.map : m \in DOMAIN cache[t].map /\
       \A k \in Slots : cache[t].map[m][k].eff = src.map[m][k].eff
OwnIsKnown == \A t \in Threads : HasCurrent(t) => \A m \in DOMAIN src.map, k \in Slots :
  \/ cache[t].map[m][k].own = src.map[m][k].own
  \/ tree.parent[m] = Null /\ cache[t].map[m][k].own = Null
CopyIsCurrent == EffectIsCurrent /\ OwnIsKnown

(* "we must set explicitly logger and formatter as these modules are now   *)
(* root modules" (log.cc:341): from then on get_logger and get_formatter   *)
(* return them, on whatever thread.                                        *)
OwnIsCurrent == \A t \in Threads : HasCurrent(t) => \A m \in DOMAIN src.map, k \in Slots :
  cache[t].map[m][k].own = src.map[m][k].own

(* A message logged after a change has returned is not given to a logger   *)
(* from before that change.                                                *)
UsesLatest == \A t \in Threads : \A i \in DOMAIN calls[t] :
  calls[t][i].at = "logger" => calls[t][i].rev >= calls[t][i].since

(* do_log finds the data of a registered module in the thread's copy, of   *)
(* one just made in the place of another too, and with a logger there is a *)
(* formatter to give it.                                                   *)
DataFound == \A t \in Threads : \A i \in DOMAIN calls[t] :
  /\ calls[t][i].at = "threw" => ~calls[t][i].arg
  /\ calls[t][i].at = "logger" => calls[t][i].formatter # Null

(* Who waits has no registered parent, and the tree agrees with itself.    *)
TreeAgrees ==
  /\ TypeOK
  /\ ~Building => \A i \in DOMAIN tree.waiting : MustWait(tree, tree.waiting[i])
  /\ \A m \in Registered(tree) :
       /\ tree.parent[m] \in Registered(tree) \cup {Null}
       /\ \A c \in Mods : c \in ToSet(tree.children[m]) <=> c \in Registered(tree) /\ tree.parent[c] = m
  /\ Cardinality(tree.index) = Cardinality(Registered(tree))

(* The loggers that some data keep alive.                                  *)
Keeps(d) == {d.map[m].logger.own : m \in DOMAIN d.map} \cup {d.map[m].logger.eff : m \in DOMAIN d.map}
Kept     == Keeps(src) \cup UNION {Keeps(cache[t]) : t \in Threads}

(* The logger that a thread runs exists, whatever the other threads set in *)
(* the meantime: the thread's own copy keeps it.                           *)
KeptIn(ts) == \A t \in ts : \A i \in DOMAIN calls[t] :
  calls[t][i].at = "logger" => calls[t][i].logger \in Kept
RunningLoggerKept == KeptIn(Threads \ Nesting)

(* "panda-log is thread-safe" (log.cc:23), for loggers that log as well.   *)
NestedLoggerKept == KeptIn(Nesting)
=============================================================================
