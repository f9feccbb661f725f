----------------------------- MODULE ModuleTree -----------------------------
(***************************************************************************)
(* The tree of log modules and the data kept for each of them (log.h:154,  *)
(* log.cc:28).  A module has a logger and a formatter of its own or none,  *)
(* and, so that a message needs no walk up the tree, the effective ones    *)
(* copied down from the nearest ancestor that has its own.                 *)
(*                                                                         *)
(* The operators below are what is done to the tree and to the data under  *)
(* one hold of the mutex.  Definitions named ...Nothing, ...LocalName,     *)
(* FrontIfReady and EffectiveIsOwn are variants with a fault, that the     *)
(* properties must notice.                                                 *)
(***************************************************************************)
EXTENDS Integers, SequencesExt

CONSTANTS
  Mods,        \* the places in memory where a Module can be
  Loggers, Formatters,
  Default,     \* the PatternFormatter that a root module makes for itself
  Levels,
  LocalName,   \* the name each module is constructed with, a sequence of components
  Null

Slots == {"logger", "formatter"}
ASSUME TreeAssumption ==
  /\ Default \in Formatters
  /\ Null \notin Mods \cup Loggers \cup Formatters
  /\ LocalName \in [Mods -> Seq(STRING)]

(* tree: the Module objects, the index by name (a multimap, here pairs)    *)
(* and the list of the modules that wait for their parent.                 *)
NoTree == [parent   |-> [m \in Mods |-> Null],
           children |-> [m \in Mods |-> <<>>],
           name     |-> [m \in Mods |-> <<>>],
           level    |-> [m \in Mods |-> Null],
           through  |-> [m \in Mods |-> FALSE],
           index    |-> {},
           waiting  |-> <<>>]

Exists(tree)      == {m \in Mods : tree.level[m] # Null}
Registered(tree)  == {e[2] : e \in tree.index}
Named(tree, name) == {e[2] : e \in {x \in tree.index : x[1] = name}}

(* Module::Module: the members; a module whose parent is not registered    *)
(* yet, because static objects of other files are constructed in any       *)
(* order, is put on the list.                                              *)
Constructed(tree, m, p, l) ==
  [tree EXCEPT !.parent[m] = p, !.level[m] = l, !.name[m] = LocalName[m]]
MustWait(tree, m) == tree.parent[m] \notin Registered(tree) \cup {Null}
Waits(tree, m)    == [tree EXCEPT !.waiting = Append(@, m)]

(* try_init_waiting: where the first is that need not wait any more, or 0. *)
FrontIfReady(tree) ==
  IF tree.waiting # <<>> /\ ~MustWait(tree, Head(tree.waiting)) THEN 1 ELSE 0
Ready(tree) == SelectInSeq(tree.waiting, LAMBDA m : ~MustWait(tree, m))

(* Module::init                                                            *)
FullName(tree, m) ==
  LET p == tree.parent[m] IN IF p = Null THEN tree.name[m] ELSE tree.name[p] \o tree.name[m]
InTree(tree, m) ==
  LET p      == tree.parent[m]
      joined == IF p = Null THEN tree ELSE [tree EXCEPT !.children[p] = Append(@, m)]
  IN  [joined EXCEPT !.name[m] = FullName(tree, m), !.index = @ \cup {<<FullName(tree, m), m>>},
                     !.waiting = RemoveFirst(@, m)]
InheritsNothing(tree, map, m) == [k \in Slots |-> [own |-> Null, eff |-> Null]]
Inherits(tree, map, m) ==
  LET p == tree.parent[m]
  IN  IF p = Null THEN [logger    |-> [own |-> Null, eff |-> Null],
                        formatter |-> [own |-> Default, eff |-> Default]]
                  ELSE [k \in Slots |-> [own |-> Null, eff |-> map[p][k].eff]]
WithModule(tree, map, m) == [x \in DOMAIN map \cup {m} |-> IF x = m THEN Inherits(tree, map, m) ELSE map[x]]

(* Module::~Module: the children become roots; the data keep for them what *)
(* was in effect.                                                          *)
Unindexed(tree, m) == tree.index \ {<<tree.name[m], m>>}
OutOfTree(tree, m) ==
  [tree EXCEPT !.parent   = [x \in Mods |-> IF x = m \/ x \in ToSet(tree.children[m]) THEN Null ELSE @[x]],
               !.children = [x \in Mods |-> IF x = m THEN <<>> ELSE RemoveFirst(@[x], m)],
               !.index    = Unindexed(tree, m),
               !.name[m] = <<>>, !.level[m] = Null, !.through[m] = FALSE]
WithoutModule(tree, map, m) ==
  [x \in DOMAIN map \ {m} |->
     IF x \in ToSet(tree.children[m]) THEN [k \in Slots |-> [own |-> map[x][k].eff, eff |-> map[x][k].eff]]
                                      ELSE map[x]]

(* set_logger, set_formatter: no value restores the parent's; a root has   *)
(* to have a formatter.  _set_effective_logger and _set_effective_formatter *)
(* go down to the modules that have their own.                             *)
Own(tree, m, k, v) == IF k = "formatter" /\ v = Null /\ tree.parent[m] = Null THEN Default ELSE v
EffectiveIsOwn(tree, map, m, k, v) == Own(tree, m, k, v)
Effective(tree, map, m, k, v) ==
  LET p == tree.parent[m]
  IN  IF v = Null /\ p # Null THEN map[p][k].eff ELSE Own(tree, m, k, v)
Heirs(tree, map, m, k) ==
  LET below[from \in SUBSET Mods] ==
        from \cup LET next == {c \in UNION {ToSet(tree.children[x]) : x \in from} : map[c][k].own = Null}
                  IN  IF next = {} THEN {} ELSE below[next]
  IN  below[{m}] \ {m}
WithValue(tree, map, m, k, v) ==
  [x \in DOMAIN map |->
     IF x = m THEN [map[m] EXCEPT ![k] = [own |-> Own(tree, m, k, v), eff |-> Effective(tree, map, m, k, v)]]
     ELSE IF x \in Heirs(tree, map, m, k) THEN [map[x] EXCEPT ![k].eff = Effective(tree, map, m, k, v)]
     ELSE map[x]]

(* Module::set_level: the module and everything below it.                  *)
Below(tree, from) ==
  LET below[s \in SUBSET Mods] ==
        s \cup LET next == UNION {ToSet(tree.children[x]) : x \in s}
               IN  IF next = {} THEN {} ELSE below[next]
  IN  below[from]
WithLevel(tree, from, l) ==
  [tree EXCEPT !.level = [x \in Mods |-> IF x \in Below(tree, from) THEN l ELSE @[x]]]
=============================================================================
