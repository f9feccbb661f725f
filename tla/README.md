# Verification of panda-lib

TLA+ modules that model the parts of panda-lib (`src/panda`) whose correctness
depends on the order of calls, on the interleaving of threads or on boundary
arithmetic: copy-on-write strings, the list that can be edited while it is
iterated, the callback dispatcher over it, reference counted objects with their
smart and weak pointers in one thread and in several, the memory pools their
blocks come from, the registry of log modules that several threads read and
change, the result classes `expected` and `excepted`, nested error codes, and the
pure algorithms (search, comparison, number conversion, variable length
integers). TLC checks them on small instances; TLAPS proves for every instance the
reference counts of strings, that each reads as a `std::string` of its own and
user memory is given back once, the links of the list that is edited while it is
iterated and what its iterators visit, the closures the dispatcher keeps and whom it calls,
the reference counts of objects whose destructors use them and of objects that threads share, with the pools their blocks come from,
the revision protocol of the log registry and the loggers it keeps, and the safety
of the result classes, with the refinement of their specification.
This file is the inventory of the library, the map from modules to code, what
the runs and the proofs show, where the code differs from what one would expect,
and the plan for the rest.

- [The system](#the-system)
- [Modules and code](#modules-and-code)
- [Runs](#runs)
- [Proofs](#proofs)
- [Findings](#findings)
- [Differences](#differences)
- [Limits](#limits)
- [Plan](#plan)

## The system

A C++ support library, mostly header-only. There is no scheduler and no main
loop: the behaviours are the sequences of calls a program makes, and for a few
parts the interleavings of its threads.

| Component | State it keeps | Operations | Hard part | What makes it correct |
|---|---|---|---|---|
| Copy-on-write strings (`basic_string.h`, `string.h`) | per object: `_state` (LITERAL, INTERNAL, EXTERNAL, SSO), `_str`, `_length`, `_storage`; per heap buffer: `refcnt`, `capacity`; per external buffer a destructor and its argument | construct, assign, move, swap, append, insert, replace, erase, reserve, resize, shrink_to_fit, c_str, buf, substr, offset | objects share buffers; arguments that alias the object; two buffer kinds and two allocators; reference counts kept by hand in every helper | each object reads as its own `std::string`; counts equal holders; user memory is returned once; read-only data is not written; windows stay in their blocks |
| Owning list (`owning_list.h`) | nodes with `value`, `valid`, strong `next`, raw `prev`; `first`, `last`, `_size` | push at both ends, remove, erase, clear, assign, iterate both ways | edited under live iterators, removed nodes still point into the list | links agree both ways; nothing leaks; iterators visit what was ahead and remains |
| Callback dispatcher (`CallbackDispatcher.h`) | an owning list of wrappers; an `Event` (an iterator) per dispatch on the stack | add, prepend, remove, remove_all, `operator()`, `Event::next` | listeners call each other and change the list, dispatch again, delete the dispatcher | the right listeners in the right order; nothing in use is deleted |
| Reference counts (`refcnt.h`, `refcnt.cc`) | `refcnt` of the object, its weak counter object | `iptr` copy, move, reset; `weak_iptr` lock; `on_delete` | object resurrected in `on_delete`; releases that re-enter; threads for `AtomicRefcnt` | deleted exactly once and only when unreferenced; `lock()` never returns a deleted object |
| Log registry (`log.h`, `log/log.*`) | tree of modules with a level each, index by name, shared `data` with own and effective loggers and formatters, its revision, a copy of it per thread, list of modules that wait for their parent | construct and destroy modules, set_logger, set_formatter, set_program_name, set_level, log, get_logger | copies refreshed by a revision check without the lock; loggers that log; modules constructed in any order by static initialisation | what is in effect is what the nearest ancestor has; a message logged after a change sees it; a logger in use is not deleted |
| Multi logger, pattern formatter (`log/multi.*`, `log/PatternFormatter.*`) | a list of channels; a format | log, format | channels that only format | each message reaches the channels whose level it has |
| Memory pools (`memory.h`, `memory.cc`) | per thread and size class a free list and the size of the next chunk; a table of thread-local instances | allocate, deallocate, the sized `new` and `delete` of `AllocatedObject` | freed on another thread than the one that allocated; three overlapping ranges of size classes | a block is in one place and large enough for whatever its pool gives it to |
| Error codes (`error.h`, `error.cc`) | per object an `iptr` to a `Data`: the numbers as a stack of bytes, the categories as a chain | construct, assign, wrap, copy, move, clear; contains, what, next | assignment changes the shared `Data` in place; two structures that must step together | an operation shows in the object it is called on; readers see one list |
| expected, excepted (`expected.h`, `excepted.h`) | a tagged union of value and error; `_checked` | construct, assign, emplace, swap, check, value, map, and_then, or_else, destroy | constructors that throw half way; a destructor that throws | always a value or an error; an unchecked error is reported |
| Numbers (`varint.h`, `from_chars.*`) | none | encode, decode; parse, print | boundaries of the integer types | inverse of each other; every overflow is found |
| String views and search (`basic_string_view.h`, parts of `basic_string.h`) | a pointer and a length | remove_prefix, remove_suffix, substr, swap; find, rfind, find_*_of, compare | unsigned positions that wrap | what `std::string` finds |
| Intrusive chain (`intrusive_chain.h`) | head, tail and size, links in the elements | push, pop, insert, erase, move | links and size kept by hand | links and size agree |
| Function objects, string containers, optional, hashes, exceptions, log layout | little or none | | templates, platform calls, adaptors over the standard containers | not modelled; see [Limits](#limits) |

How they meet: the dispatcher holds its listeners in an owning list, whose
nodes are kept alive by `iptr`; a listener is a `function`, an `iptr` to a
closure; a string's buffers come from an allocator that can be a memory pool, and so do
objects of classes that derive from `AllocatedObject`; an error code keeps its
numbers in a string and is the usual error of an `expected` or `excepted`;
the log registry uses strings, `iptr` and functions. Callbacks run inside the
call that triggers them (dispatcher, loggers, `on_delete`, the destructor of an
external buffer), so re-entry is the main interleaving. Threads matter to
`AtomicRefcnt`, the log registry and the pools; strings, lists, dispatchers,
results and error codes are used by one thread at a time (`doc/string.md` tells a program to call
`buf()` before it gives a copy to another thread, which is what
`BufIsSoleOwner` checks).

The hazards of the code, each at its line, with the properties that watch it or
the reason none does, are listed in `PROJECT.json`.

## Modules and code

### Strings

`StringValue` is the specification: every object is a sequence of characters, and
each operation says what its object becomes (or two, for move and swap), given the
characters that are passed: a text, or any part of any object, the one that is
changed included. It has no sharing. The actions of `CowString` use its operations for the
history variable `val`, and `ImplementsStringValue` is the refinement without it.

`CowStorage` models the storage layer. Each private helper of `basic_string.h`
(`_new_auto`, `_cow`, `_detach`, `_reserve_save`, `_reserve_drop`,
`_reserve_middle`, `_release`, ...) is an operator from a memory to the memory
it leaves. A memory is a record `[str, ctl, mem, held]`: the fields of each
object, the control block of each heap buffer, the characters of each block,
and which user memory is lent out. `_str` is a pair of a block and an offset, so
the pointer arithmetic of the helpers is kept.

`CowString` has the variables, and one action per public operation. Its helpers
build on the operators above in the order the code calls them. `assign` from
characters, from a string, from a substring, the aliased forms of `append`,
`insert` and `replace` (which take a local copy `Tmp`), moves and swaps between
allocators are all included. The constructor and the `assign` that take a control block
made by the caller are not. `val` is a history variable with the value each
object should have.

Abstractions: characters of `mem` outside every window are forgotten after
each call (`Settled`), since no later call reads them; `MaxSso`, the
significand of `float` and the growth factor keep their arithmetic at a smaller
scale; the order of allocations is not fixed (which unused buffer is taken does
not matter).

### Lists and dispatch

`CursorList` is the specification of a list with iterators. It has the list,
where each iterator stands, and what it has `ahead`. It has neither nodes nor
links.

`ListNodes` has the operations of `owning_list` as operators on
`[node, first, last, size]`: `PushBack`, `PushFront`, `RemoveNode`, `Clear`, the
two ways to advance (`Inc`, `Dec`), and `Collect`, which deletes what the
references count down to. Reference counting is modelled as reachability,
which is the same as long as references form no cycle: `NoCycle` checks that.
`Reached` is the least set of nodes that has the roots and is closed under `next`.

`OwningList` has one action per operation of the list and of its iterators.
`iterator` (`Fwd`) and `reverse_iterator` (`Rev`) own the node they stand on;
`prev` is a raw pointer and becomes `Dangling` when its node is deleted. The
class comment forbids advancing a reverse iterator over a deleted node, which
is the guard of `Advance`.

`Dispatcher` composes the list with a call stack. `events` has the iterator of
each dispatch in progress, `frames` the wrappers on the call stack. The action
of the innermost listener is free: it may add, remove, dispatch again, pass
control on, delete the dispatcher, return, or throw to any caller. A simple
callback's wrapper calls `next()` as its last act (`SimpleReturns`), so its
frame is replaced by the next one. `next()` after deletion of the dispatcher
reads nothing of it but the iterator in the event, and the model lets it run:
`tests/dispatcher.cc` ("killing dispatcher") relies on it.

### Reference counts

`RefcntHeap` has `Refcnt::release`, `Refcntd::release`, the assignments of
`iptr` and the operations of `weak_iptr` as operators on a heap. Every object
has one member that is an `iptr`, so that deleting one object releases another.
Releasing the last reference does not finish: it starts `on_delete` or the
destructor, which is user code, and what the interrupted call still has to do
(store the new pointer, take the other one's) waits on `stack` until that code
is over. A heap has a fixed set of addresses, and a new object may take the
address of an old one.

`Refcnt` has one action per operation, taken by the innermost callback in
progress or by the program. Four obligations of a program, that the code
relies on and does not check, are guards: the owner of an `iptr` is kept while
the `iptr` is assigned (`OwnersKept`), a callback does not use the `iptr` whose
assignment it runs in, no reference to an object in destruction is kept after
the callback, and a `weak_iptr` is moved only onto an empty one (the move swaps the
storage and copies the address, so a source that got the target's storage would answer
for one object with the address of another until it is assigned). Each has its hazard
in `PROJECT.json`.

### Log registry

`ModuleTree` has what is done to the tree and to the shared data under one hold
of `Instance::mtx`, as operators on a `tree` (parents, children, names, levels,
the index `Instance::modules`, the list of waiting modules) and on a map from
modules to what they own and what is in effect for them. `InTree` and
`OutOfTree` are `Module::init` and the destructor, `Effective` and `Heirs`
the recursion of `_set_effective_logger`, `WithLevel` that of `set_level`.

`LogRegistry` has the threads. `src` is `src_data`, `cache[t]` what `get_data()`
returns to thread `t` (`mt_data` or `ct_data`), `calls[t]` its calls in
progress, the innermost last. A step is what happens between two points where
another thread can see or change something:

| Code | Actions |
|---|---|
| `Module::Module`, `try_init_waiting`, `init` | `Construct`, then `InitBegins` (lock, `++rev`) and `InitEnds` (the data, the tree, unlock) for the module and for each that waited for it |
| `Module::~Module` | `Destroy` |
| `set_logger`, `set_formatter` | `SetBegins` (lock, `++rev`), `SetEnds` (the data, this thread's copy, unlock) |
| `set_program_name`, `set_level` | `SetProgramName`, `SetLevel` |
| `PANDA_LOG` and `do_log` | `Log` (level, comparison of the revisions), `Copy` (lock, copy, unlock), the logger running, `LoggerReturns` (passthrough to the parent), `Catch` (`map.at` threw) |
| `get_logger`, `get_formatter` | `Get`, `Copy` |

`++rev` is a step of its own because a reader compares the revision without the
mutex: this is the moment at which it can see a new revision of old data. While
a logger runs, its thread may log again or change something (`Free`); `Nesting`
says which threads do. A call remembers the revision when it began (`since`)
and the one it uses (`rev`), for `UsesLatest` alone.

Abstractions: a name is a sequence of components, unique along the tree; a
level is a number; the text of a message is left out. `revision` is read as one
atomic value, as it is in the code.

### Shared objects and memory pools

`MemoryPools` has `MemoryPool`, `StaticMemoryPool` and `DynamicMemoryPool` as
operators on a heap: which pool serves a size (`PoolName`, `Index`, `Grain`), how
large its blocks are (`BlockSize`, `round_up`), `grow` with chunks that double, and
`deallocate`, with what ends the program there (`deallocate_fails`): it writes through a
pool that was never made (`deallocate_crashes`), or, in a build with `TEST_FULL`, it
aborts on a block that the pool did not allocate (`is_mine`). `TEST_FULL` is a constant,
`FALSE` in the runs that pass.

`SharedObjects` composes them with `AtomicRefcnt`, `iptr` and `weak_iptr` in
several threads. Each access to an atomic counter, to the head of a free list or
to `_weak` is a step of its own; `pc[t]` says what thread `t` is in the middle of:

| Code | Actions |
|---|---|
| `AllocatedObject::operator new`, `make_iptr` | `Allocate` (the pool is made or grown, the first block is read), `Construct` (the block is unlinked, the object has one reference) |
| copy of an `iptr`, also into a variable of another thread | `Copy` |
| `AtomicRefcnt::release`, the destructor, `operator delete` | `Release` (`--refcnt`), `Destroy` (the weak storage is told), `Free` (the block goes to the pools of this thread) |
| `weak_iptr(iptr)` and `get_weak` | `MakeWeak` (tests `_weak`), `NewWeak` (makes a storage and stores it), `TakeWeak` (reads `_weak` again and counts) |
| `weak_iptr::lock`, `reset` | `LockTests` (reads `valid`), `LockTakes` (takes the reference), `ResetWeak` |

`Instance(t)` stands for the table of thread-local pools: threads do not share
pools, blocks travel between pools with the objects.

### Results

`ExpectedCell` and `ExceptedCell` have the members of `expected<T,E>`,
`expected<void,E>`, `excepted<T,E>` and `excepted<void,E>` as operators on a cell
`[has, live, it, checked]`: `has` is `_has_val`, `live` the member of the union that
really holds an object, so that a constructor that throws half way can leave
neither. The operators keep the names of the code. `excepted` repeats the text of
`expected` with the flag `_checked` written in between, and so does its module: the
two are read against the code side by side.

`Results` is a function with local objects of one of the four classes and its
callers. `frame` is the stack of locals, which are destroyed from the last one;
`mode` and `flying` are the exception in flight, and `terminated` is what C++ does
when a destructor throws meanwhile. `told` and `mislaid` are history variables:
errors the program was told of, and errors it wrote over without having asked.

`SumType` is the specification of all four: a stack of values and errors, with
no flags, no members and no exceptions. `ImplementsSum` is the refinement under
which a cell is its content (`Contained`) and an exception is a stutter.

### Error codes

`VarInt` has `varint.h`: encoding, decoding, ZigZag and `VarIntStack`, whose newest
number is at the front of its bytes. `ErrorCode` has `Data` with its reference
count, bytes and categories, and one action per operation; its readers
(`contains`, `what`, `NextData`) are translated too, since each walks the two
structures in its own way. `ErrorValues` is the specification: each object is a list of
codes and an operation changes that of its object only. The code does not implement it
(`UsualValueType` fails): setting a code in an object shows in its copies, see
[Differences](#differences).
`ImplementsValues` says what remains, operation by operation: each does to the lists what
the operation of its name does, except that of a code set in a shared `Data` only the
object itself is spoken of.

### Search, views and numbers

`Search` has the search and comparison functions that `basic_string` and
`basic_string_view` share. A size has `Width` bits and wraps, a pointer is an
offset in the block, and what lies outside the viewed window can be read, so a
search that leaves its window shows. `Numbers` has `from_chars` and `to_chars` for
integers of `Bits` bits. `StringView` has the operations that change a view; its
properties compare each algorithm with its definition in every state.

### Instances and mutants

`MCCowString`, `MCOwningList`, `MCDispatcher`, `MCRefcnt`, `MCLogRegistry`,
`MCErrorCode` and `MCStringView` give the constants their values for TLC and define
the symmetries; `Results` and `SharedObjects` need nothing but their
configurations.

Some operators are named for what they get wrong (`SharedDetach` in place of
`Detach`, `SwapLosesError` in place of `swap_val_err`, ...) and are used by no
specification. Substituted for the right one, each makes a property fail; they
are recorded with that property under `mutants` in `PROJECT.json`.

## Runs

Run a configuration with `tlc -config X.cfg M`.

| Run | Module, configuration | Question | Instance |
|---|---|---|---|
| `cow_values` | `MCCowString`, `CowString_values.cfg` | does every object read as its own string and change as one of `std::string` does, and does every window lie in its block? | 2 objects, literals of 0 to 2 characters, SSO of 1, length up to 3, 4 heap buffers, 1 user block |
| `cow_sharing` | `MCCowString`, `CowString_sharing.cfg` | do counts, deallocators and ownership of user memory survive every mix of calls? | 3 objects of 2 allocators, 2 heap buffers, 2 user blocks, length up to 2 |
| `owning_list` | `MCOwningList`, `OwningList.cfg` | do the links agree and the iterators visit what they should? | 4 nodes, 2 values, 2 forward iterators and a reverse one |
| `dispatcher` | `MCDispatcher`, `Dispatcher.cfg` | who is called, and is the callee there? | 4 nodes, 3 listeners (one simple), 2 dispatches nested, 3 calls deep |
| `refcnt` | `MCRefcnt`, `Refcnt.cfg` | is every object deleted once, when nothing refers to it, and do weak pointers know? | 2 objects with an `iptr` member each, one with `on_delete`, 1 more `iptr`, 2 `weak_iptr`, 1 reference held by hand |
| `log` | `MCLogRegistry`, `LogRegistry.cfg` | do the threads' copies and the tree stay right while modules and loggers come and go? | 2 threads that log to a leaf, one of which also changes things, from inside its logger too; a chain of 3 modules, 1 logger, 2 formatters, 2 levels, 2 changes, calls nested 2 deep |
| `results` | `Results`, `Results.cfg` | is a result always a value or an error, and is every error reported? | the four classes, 3 locals alive, 2 values, 2 errors; the constructor called by `emplace` may throw |
| `error_code` | `MCErrorCode`, `ErrorCode.cfg` | does each operation do what it does to a value, and do the two structures of a list step together? | 2 objects, 3 `Data`, lists of up to 3 codes, 2 categories, one number of one byte and one of two |
| `shared` | `SharedObjects`, `SharedObjects.cfg` | is an object destroyed once, when nobody holds it and always then, and is its block used once? | 2 threads with one `iptr` each per object, objects of 24 and of 1040 bytes, 3 blocks, first chunks of 1, 1 weak storage |
| `views` | `MCStringView`, `StringView.cfg` | do the searches and the number conversions compute what they are defined to? | all texts of up to 3 characters and some of 4, 2 views, every position of a `size_t` of 4 bits; integers of 3 bits, bases 2 and 3 |
| `log_nested` | `MCLogRegistry`, `LogRegistry_nested.cfg` | see [Findings](#findings): expected to be violated | as `log`, with nesting in the thread that only reads |
| `shared_nopool` | `SharedObjects`, `SharedObjects_nopool.cfg` | see [Findings](#findings): expected to be violated | as `shared`, with threads that have used no pool before and 4 blocks |

Properties of the runs that pass:

Each module has one type invariant; where it is short it is the first conjunct
of the invariant that needs it (`LinksAgree`, `HeldUntilNext`, `RefcntIsHolders`
of `Refcnt`, `TreeAgrees`, `BlocksOnce`).

- `ValueSemantics`, `ImplementsStringValue`: writing through one object never
  shows in another, and arguments that alias the object give the same result as
  `std::string`. The first compares each object with `val`, which follows the call that
  was made; the second has no history and says that what the objects read as goes, in
  each step, from one value to another by a call of `StringValue` with characters there are.
- `RefcntIsHolders`: each buffer's count is the number of objects over it,
  which is the absence of leaks, double releases and use after release.
- `DtorMatches`, `ExternalOwnedOnce`: a buffer goes back to the allocator it
  came from, also after strings of different allocators exchanged buffers; user
  memory is given back once.
- `WindowInBlock`, `LiteralsIntact`, `CStrTerminated`, `ReserveGrants`,
  `BufIsSoleOwner`: the promises made to a caller that holds a pointer.
- `LinksAgree`, `NoCycle`: the list's own consistency, in every state in which
  removed nodes are still held.
- `ImplementsCursorList` (for the list and for the dispatcher): iterators keep
  their element and visit, in order, the elements ahead of them that remain. Two
  exceptions are part of the specification, as they are of the class comment:
  an iterator on a removed element may miss what is inserted later, and a
  reverse iterator on a removed element may be lost. For the dispatcher it says that
  no registered listener is skipped, called twice or called after removal.
- `HeldUntilNext`: whatever a listener does, its closure exists until it calls
  `next()`.
- `DeletedOnce`, `RefcntIsHolders` of `Refcnt`: through any nesting of
  destructors and `on_delete`, including objects that are handed out again by
  `on_delete`, an object's count is the number of references to it, unfinished
  assignments included, and it is deleted once.
- `WeakKnowsItsObject`: a weak pointer that is valid locks the object it was
  made for, also when another object has taken its address.
- `EffectiveIsNearest`: the effective logger and formatter copied into every
  module, by each of the operations that change the tree or the loggers, are
  those that a walk up the tree finds.
- `CopyIsCurrent`, `UsesLatest`: a copy whose revision is current says what is in
  effect for every module and the program name (`EffectIsCurrent`), and the own logger and
  formatter of every module, except that it may have none for a root that got them when it
  lost its parent (`OwnIsKnown`; for the exception see [Differences](#differences)). A call that
  begins after a change has returned uses what the change made, although revisions are
  compared without the mutex.
- `DataFound`: do_log finds its module in the copy, also when the module was
  made at the address of one destroyed, and a formatter with every logger.
- `TreeAgrees`: after every constructor, the modules that still wait have a
  parent that waits or is not there, children and parents agree, and the index
  has each module once.
- `RunningLoggerKept`: a logger that does not log itself is kept by the copy of
  the thread that runs it, whatever others set meanwhile.

- `TypeOK` and `ImplementsSum` of `Results`: whatever is assigned, moved, swapped
  or emplaced, and whatever `emplace` throws, a local is a value or an error, its
  flag says which, and an operation changes no other local than those it names.
- `NothingLost`: an error of an `excepted` that was never asked for is in a local
  that will report it, in flight, told to the program, or was written over by an
  assignment, an `emplace` or a swap with another error, which the code allows.
- `ThrowerIsQuiet`: the local that throws its error from `value()` does not throw
  it again from its destructor while that exception passes.
- `TypeOK` of `ErrorCode`, `ReadersAgree`, `StackLaws`: the numbers and the
  categories have the same depth, a `Data` has as many references as objects
  point to it, `contains`, `what` and `next` see one list, and every number
  that can be pushed comes back.
- `ImplementsValues`: construction, wrapping, unwrapping, copies, moves and clearing change
  the list of the object they are called on, to what the same operation makes of a value, and
  no other list, whatever chains and bytes are shared; a code that is set makes
  the list of its object that code.
- `HeldIsAlive`, `UnheldIsFreed`: an object that a thread holds is not destroyed
  or handed out, and one that nobody holds ends up in a free list, whichever
  thread brought the counter to zero. The second is the liveness property.
- `BlocksOnce`, `BlockFits`: a block that was taken from the system is in one free
  list, in one object or on its way back, on whichever thread it was freed, and is
  large enough for every object it ever holds. Blocks change pools with the threads that
  free them, as they do in a build without `TEST_FULL` (see [Differences](#differences)).
- `WeakKnowsDeath`: the storage of a weak pointer says exactly whether the object
  has been destroyed.
- `SearchAgrees`: every search and comparison agrees with the definition that
  `std::string` gives, from every position, with texts before and after the window.
- `NumbersAgree`: `from_chars` reads the number that the text stands for and finds
  every overflow, although it computes in the type itself; what `to_chars` writes
  fits its local buffer and is read back as the same number.

Why the bounds are enough. The code never counts objects, so a hazard needs as
many as take part in one step: two strings and a third that shares
(`cow_sharing`), an argument that aliases either. Two heap buffers for three
objects force sharing and reuse of freed buffers; four in `cow_values` let
the old, the new and the temporary buffer exist together. An SSO of one
character and strings of three reach all representations and all the branches
of `_reserve_middle_move`. A removed node with a removed predecessor, between
two that remain, needs four nodes; so does a listener registered twice beside
others. Nesting two dispatches is enough to have an event moved on in one
while the other stands still. Two objects that hold each other through their
members are the smallest cycle, and a callback of each can run inside the
other's. In the log registry a chain of three has a module with a parent and a
child, through which what is in effect passes and which can be destroyed or
constructed last; one thread that changes and one that only reads are all the
parties of the revision check, which looks at one reader at a time; two changes
are one that a reader has copied and one that it has not. Swap and move touch two
results; a third local is below or above them when an exception passes, and two
errors tell the one that is reported from the one that is lost. A list of three
codes has a newest, a middle and an oldest one. Two threads are all the parties of
a count that reaches zero; the sizes 24 and 1040 are one of the class itself,
which has a static pool, and one of the second range of size classes that is no
multiple of its grain; with a first chunk of one block the second allocation
already grows the pool. In `views` a number of three bits overflows in the
product and in the sum, at both ends of the signed type, and a `size_t` of four bits is
large enough for every text and every position beyond it, up to `npos`.

`MaxLen`, `MaxCalls`, `MaxDispatches`, `MaxRaw`, `MaxNesting`, `MaxChanges`,
`MaxDepth`, `MaxErr`, `MaxBlocks`, `MaxHold`, and the sizes of `Nodes`, `Buffers`,
`Datas` and `Storages` are the only caps; each is a guard of the action that would
exceed it.

Fairness. `SharedObjects` assumes `WF_vars(Step(t))` for each thread: `Step` has
the actions by which a call that has begun goes on, so this says that the
operating system runs every thread. It does not say that a thread ever makes a
call, and nothing a thread does waits for another one: a
step, once possible, stays possible. `UnheldIsFreed` needs no more. The other modules
are called, never scheduled: a program may stop, so no fairness is assumed and
no liveness stated.

Deadlock is checked in every run but `results`, where `std::terminate` ends the
process: in the others some call is always possible, and in `log` the mutex is
always given back.

## Proofs

`CowStringProofs` proves, for every set of objects, literals, buffers and user
blocks and every size bound, that

- `TypeCorrect`: `Spec => []TypeOK`, in which offsets and lengths are naturals: no
  sequence of calls brings one of the unsigned fields below zero;
- `RefcntCorrect`: `Spec => []RefcntIsHolders`;
- `DtorsRight`: `Spec => []DtorMatches`;
- `UserMemoryOnce`: `Spec => []ExternalOwnedOnce`;
- `BufDetaches`: `Spec => []BufIsSoleOwner`;
- all by `Invariance`: `Spec => []IInv`.

They assume `CowStringAssumption`: finitely many objects, the kinds of blocks
are disjoint, `Tmp` is not an object of the program, allocators differ from
user blocks, literals are sequences and `Terminal` the empty one, `Gone` is not a
sequence of characters, positions, counts and capacities that calls pass are naturals.

`RefcntIsHolders` is not inductive: a step that releases a buffer must know that
the object really points to a heap buffer, and that the local copy `Tmp` of
`insert` and `replace` is dead between calls, or its count would be off by
one. `IInv` adds this: the memory has its shape, a counted object points to a
heap buffer, `Tmp` is not alive, each count is the number of its holders, and the
domains of `mem` and `val` do not change. Two more parts are about deallocators.
`Matched`: an object that counts carries the deallocator of the block it points to, so
that the last holder, whichever it is, gives the block back to the right place;
`OneBlockEach`: user memory that is lent out is under exactly one control block in use,
so that it is given back when that count, and no other, reaches zero.

The argument is layered as the code is. First come, helper by helper
in the order of `CowStorage`, lemmas that a memory in which counts are right is
turned into one in which they are right; a helper that leaves them wrong for
a moment (`_detach_cow` drops a reference before the new buffer exists) is
stated with exactly who is over- or undercounted (`DecRefBut`,
`RehomedBut`, `RehomedPlus`, `FreePlus`, ...), and the helper that completes
it cancels that. Then there is one step for each group of
actions (`ConstructsStep`, `AssignsStep`, `EditsStep`, `StoresStep`,
`DestructStep`), `NextIInv` combines them, and the theorems follow by temporal
reasoning.

From the same assumption, copy on write keeps the strings apart:

- `StringsIsolated`: `Spec => [][Isolated]_vars`. A call on `s` leaves every other
  string where it pointed and what it read, whoever shares a buffer with whom and
  whether or not the arguments alias; only a move and an exchange change a second string,
  the one they name;
- `LiteralsKept`: `Spec => []LiteralsIntact`;
- both by `ApartAlways`: `Spec => []Apartness`.

`Foreign(m, s)` has what a call on `s` must leave alone: the literals, the bytes inside
the other objects and every buffer another object holds. A helper is `Confined` when
it writes nothing foreign and no other object's fields, and `Granted` when it also
leaves `s` a pointer through which it may write (`Own`). What a call may write follows
from the counts: a buffer whose count is 1 has no other holder because counts are
holders, and a free buffer has none because those of the others are in use. So
`Apartness` is `IInv`, that every SSO string reads its own bytes and every literal
string a literal (`Housed`), and that the literals are as they were. Which branch
writes is then a matter of each helper: `Granted` is what `_reserve`, `_cow` and
`_detach` promise before the caller stores characters. Moves, exchanges and the
calls through `Tmp` are confined to two objects (`Untouched`). Last, forgetting the
characters outside all windows (`Settled`) changes no window.

What the strings read is proved from the same assumption and `Exact`: `MaxLen + 1` and
every capacity passed to `reserve` are below `2^FloatBits`, where multiplying by the
`float` 1 changes nothing. Beyond it the statements are false of the code (see
[Rounded capacities](#differences)), and TLC evaluates `Exact` for the runs.

- `ValuesRead`: `Exact => (Spec => []ValueSemantics)`;
- `WindowsFit`, `CStrEnds`, `ReserveSuffices`: the same for `WindowInBlock`,
  `CStrTerminated` and `ReserveGrants`;
- `StringsAreValues`: `Exact => (Spec => ImplementsStringValue)`, the refinement of
  `StringValue`;
- all by `ValuesAlways`: `Exact => (Spec => []Values)`.

`Values` says that an object that is alive has a value of at most `MaxLen` characters,
and that the memory spells it: `Spells(m, s, v)` is that the block `s` points to is at
least as long as its window (`Room`) and that `v` stands in it (`Stands`). With
`Apartness` it is inductive: the objects a call is not on keep block and fields, so they
spell what they did (`UntouchedSpells`); for the object it is on, one lemma for each helper
says what it spells afterwards and for how many characters it has room
(`DetachSpells`, `ReserveSaveSpells`, `CowSpells`, `MoveFromSpells`, `SwapSpells`, ...).
`Spliced(u, v, pos, rem, w, from, n)` is `Splice` of `StringValue` as a relation between
positions: `_reserve_middle` opens a gap between two parts of `v` that stay readable
(`Split`), in one of five ways (a new buffer, out of the SSO bytes, the tail moved, the head
moved, both moved to the start of the block), and the caller fills it.
`erase` has its two ways likewise. The source of the characters may be
the string itself: that it still reads the same after the reservation is `SourceStays`
for foreign blocks, `AppendStringSpells` for `s.append(s)`, and the copy in `Tmp` for
`insert` and `replace`. What `c_str` and `reserve` promise follows from `Room` and from who
holds the buffer. For the refinement `CallsPass` says that the characters an action passes are
some that `StringValue` allows, `OperationsAreStd` that its operations give the results it
allows (`Result`), `NextIsStd` that every action is such an operation on `val`, and `ShowsStd` carries the step over to what the objects read as, which is `val`.

`OwningListProofs` proves, for any nodes, values, iterators and lists that are assigned,

- `LinksAgreeAlways`: `Spec => []LinksAgree`;
- `NoCycleAlways`: `Spec => []NoCycle`;
- `IteratorsOwn`: an iterator in use stands on a node that exists;
- `IteratorsKeepTheirWay`: `Spec => ImplementsCursorList`, the refinement of `CursorList`;

and `DispatcherProofs`, for any listeners and any depth of dispatches and calls,

- `HeldUntilNextAlways`: `Spec => []HeldUntilNext`;
- `EventsOwn`: the listeners stay linked both ways and free of cycles, and no dispatch
  stands on a deleted one;
- `DispatchesKeepTheirWay`: `Spec => ImplementsCursorList`, the same refinement.

They assume `NodesAssumption` (finitely many nodes, `Null` is neither a node nor a value,
`Dangling` is no pointer to a node), `ContentsAssumption` and `BoundsAssumption`, and for the
refinements `ItersAssumption` and `LostAssumption`: no iterator goes both ways, and `Lost`,
which stands for what a lost iterator has ahead, is no sequence of nodes. Both rest on
`ListNodesProofs`, which treats the operations of the list alone. Its invariant
is `Sound`. The valid nodes are a sequence, each linked to its neighbours, with
`first`, `last` and `size` at its ends (`Chain`). The links of all nodes, the
removed ones included, go along one order (`Ordered`), `next` up and `prev` down: a removed node keeps
its links, so the sequence alone does not exclude a cycle, and the order does,
since removal links two nodes that were already in it and insertion puts the new node
behind or before all it is linked with. And no link leads to a deleted node, except that
the `prev` of a removed one may dangle (`Intact`). Each operation is first described
node by node (`AddsLast`, `AddsFirst`, `TakesOut`, `Empties`, `Keeps`), and
each description keeps `Sound`. `Collect` takes what is reached: because that is the least
closed set, it has the whole sequence and what is held, and is within what is live.
Walks and skips are recursive functions; that a walk along a `Chain` lists it is shown by
induction. The library's induction theorems take an operator as a parameter, which the
installed provers cannot instantiate, but well-foundedness of the numbers is stated
with a set: `Induction` follows from it, and so does the existence of
a function that counts down (`CountDownExists`).

The refinement asks more: what an iterator on a removed node still has ahead of it, when
the links it left behind lead through other removed nodes. With the order an
iterator that skips removed nodes comes to an end within as many steps as there are nodes,
whichever way it goes (`SkipIs`), and what holds of a removed node when it holds of where
its link leads holds of all (`SkipInduction`). So every move ends on an element, at the
end, or on a node that was deleted (`MoveIs`), and the way ahead is the rest of the elements
from there (`WayIs`), or strays, which only `prev` of a removed node can (`WayTyped`).
Then three lemmas say how a single move changes: when a node joins the
elements (`JoinsMoves`), when one is lost (`LosesMoves`), and when elements are marked or
nodes deleted (`ThinsMoves`). From these follow the ways after each operation:
`AddsLastWays`, `AddsFirstWays`, `TakesOutWays`, `EmptiesWays`, `CollectWays` and
`PushAllWays`, each for both links at once. They show why `CursorList` has to let an iterator
on a removed element miss what is inserted: its link may lead past the end, and
nothing sets it again. In `OwningListProofs` and `DispatcherProofs` one lemma per
action composes the operation with the deletions that follow it and names the step of
`CursorList` it is (`AddLastImplements`, `RemoveImplements`, `StandStep`, ...); a dispatch
only goes forward, so none is ever lost (`NeverLost`), and what an exception or a return
unwinds is one `Leave` of all the dispatches above (`LeaveStep`).

For the dispatcher `HeldUntilNext` is not inductive: whether the last event of the stack is that
of the running listener depends on all the calls in between. `Stack` says that the calls follow the events:
the outermost call is of the first event, the innermost of the last, neighbours are of the
same event or of the next one, and of two calls of one event the outer has called `next()`.
So when the last event moves on, every call that loses it has given it up.
One lemma for each way a step changes the two (`StackDispatches`,
`StackReturns`, `StackMoves`, `StackCalls`, `StackReplaces`), and `StackForgets` for wrappers that are deleted.

`LogRegistryProofs` proves, for any threads, modules, loggers and numbers of
changes, and trees of any shape and depth,

- `LatestUsed`: `Spec => []UsesLatest`, by `RevisionsHold`: `Spec => []RevInv`;
- `RunningKept`: `Spec => []RunningLoggerKept`;
- `NearestAlways`: `Spec => []EffectiveIsNearest`;
- `DataAlwaysFound`: `Spec => []DataFound`;
- `TreeAlwaysAgrees`: `Spec => []TreeAgrees`, which has the type invariant;
- `WalksAlwaysReach`: `Spec => []WalksInv`, of the recursive walks;
- these four by `RegistryAlways`: `Spec => []RegistryInv`;
- `CopiesCurrent`: `Spec => []CopyIsCurrent`, by both invariants.

The first three assume only `ThreadsAssumption`: the threads that write are threads and
`Null` is none. `CopyIsCurrent` and `UsesLatest` are not inductive: that a copy with the current
revision is current says nothing of the moment after `++rev` and before the data
change. `RevInv` adds what makes this moment harmless. While the mutex is held,
the revision is beyond that of every copy, so that no copy counts as current;
who is in the middle of a change holds the mutex and does nothing else
(`Holding`); and a call that has chosen a logger uses a revision between the one
it began with and that of its thread's copy, so that passing a message on to the
parent's logger never goes back in time. One lemma per action shows that it
keeps `RevInv`. `CallsStep` does the part that is the same for all, a stack of
calls that gains, loses or changes its last element; `RouteStep` does what
do_log does with whatever data it was given. `RunningKept` needs `LoggersInv`
beside it: a thread that does not nest calls has at most one, it copies the data
only between its own calls, and the logger of its call is one that its copy has,
for the module it has reached; what the other threads do reaches its copy only when
it copies again. That nested calls lose their logger is the finding `log_nested`.

The others assume in addition what the module says of its constants: `Null` is none
of the modules, loggers, formatters and levels, there are finitely many modules, the
default formatter is a formatter, and a parent is a module or none. Nothing is assumed of
the shape: modules whose parents would form a cycle wait for each other and are never
registered.
Their invariant `RegistryInv` has four parts.

- `IsTree` and `Rooted`: the links, the index and the waiting list fit each other, and
  each registered module has a depth greater than its parent's. A module is registered
  as a leaf and a destructor makes the children roots, so depths never have to be
  given anew.
- `EntriesInv`: the shared data have an entry for just the registered modules, with
  what is in effect for it, and wherever data are, there is a formatter in effect.
- `BuildInv`: one module at a time is being registered, and it need not wait. Without it
  nothing would say that `try_init_waiting` stops only when nobody is ready.
- `MessagesInv`: where a logger runs for a module, the thread's copy has that module and
  all above it. This is why passing a message on finds the parent's data even in a
  copy that is old. Constructors keep it because a new module is above nobody,
  the destructor because no message is on its way to the module, and `Log` because
  a copy with the current revision has every module, which is `RevInv`.

`CopiesCurrent` takes what is in effect from `RevInv`, and the own loggers and formatters
from one lemma per action (`OwnIsKnown`): only `~Module` changes them without a new revision,
and what it changes are entries of modules that become roots and had none: that a value of
a module's own is what is in effect for it, so that the others keep theirs, is
`RegistryInv`.

`Heirs` and `Below` are recursive functions on sets of modules. `Reach` says, without
recursion, what a walk down gives: the least set that has the first modules and with each
its kids. `SpreadExists` and `SpreadReaches` show that a recursive walk exists and
gives this set, the second by induction over how much deeper it can still get.
`SetsMap` then shows for set_logger and set_formatter that who is reached has the
new value in effect and who is not has the old one rightly; `EntersMap` and
`LeavesMap` do the same for a constructor and a destructor. One lemma per action follows,
and `OtherStep` does what is the same for those that leave the tree's shape alone.

`RefcntProofs` proves, for any objects, `iptr` variables, weak pointers, storages and
any nesting of destructors and `on_delete` callbacks that do any operation,

- `CountsRight`: `Spec => []RefcntIsHolders`;
- `OnceDeleted`: `Spec => []DeletedOnce`;
- `WeakRight`: `Spec => []WeakKnowsItsObject`;
- all by `RefcntInductive`: `Spec => []RefcntInv`.

They assume `RefcntAssumption` (finitely many iptrs, `Refcntd` among the objects,
`Null` neither an iptr nor a storage), `BoundsAssumption`, and `OwnersKept`, since without
it the code deletes an object twice (see [Differences](#differences)). The
difficulty is that a release which runs user code is unfinished: the stack
holds the pointer it will store, or the reference it gave up, and the code that runs
meanwhile may do the same again, one level deeper. `RefcntInv` says what makes them
independent. Every unfinished release accounts for exactly one reference, that of the
`iptr` it will assign or one that is in nobody's hands, and what it will store is a
reference already (`Counted`). The releases in progress are of different objects, each
finds the `iptr` it will assign as it left it, and no two use the same one
(`InOrder`). While the members of an object are released nobody else refers to
anything that is being deleted (`OnlyOne`), so that the count of an object that
goes is 1 and not 2. A storage is valid while it is an object's, and one object's
(`WeakSound`). `Owed` is the state between: a reference is to be released and something
done after it; `ReleaseOK` says that `Release` turns every such heap into a sound
one, whichever of its five ways it goes, and an operation is shown to lead to
`Owed`. One lemma per action does that.

`SharedObjectsProofs` proves, for any threads, sizes, numbers of blocks and of holders,

- `HeldAlive`: `Spec => []HeldIsAlive`;
- `EveryBlockOnce`: `Spec => []BlocksOnce`;
- `ObjectsFit`: `Spec => []BlockFits`;
- `WeakKnows`: `Spec => []WeakKnowsDeath`;
- the first three by `SharedInductive`: `Spec => []SharedInv`.

They assume `PoolAssumption` and `SharedAssumption` (sizes are between 1 and 256 KB,
`Null` is not a storage), and `~LockRace`: with the race of `weak_iptr::lock` the
first is false. `WeakKnows` assumes also that one thread makes weak pointers,
since two that make the first one of an object lose a storage (the hazard at
`refcnt.cc:15`). `SharedInv` has three parts. The pools: every
free list is of blocks of its pool's size, a block is in one list once, and is in
none while it is an object or on its way. The counter: `refcnt` is the
number of holders, those in the hands of a copy or of a lock included, and an object
whose counter is zero is in the hands of exactly one thread, between `--refcnt` and
the free list. The steps in progress: what `pc[t]` refers to is still as its earlier
steps found it. The size classes are treated first: `round_up` and `Index` give the
same pool for an allocation and for the deallocation of that size, and a block of
at least the size. `WeakInv` says that the counter of a storage is the pointers
to it, and that a storage which is not gone is its object's.

`ResultsProofs` proves, for any values, errors and number of locals,

- `SpecTypeOK`: `Spec => []TypeOK`;
- `SpecNothingLost`: `Spec => []NothingLost`;
- `SpecThrowerIsQuiet`: `Spec => []ThrowerIsQuiet`;
- `SpecImplementsSum`: `Spec => ImplementsSum`, the refinement of `SumType`.

They assume `ResultsAssumption` and `NoThrowingAssign`: the constructor of T
may throw in `emplace` but not in an assignment, whose code sets `_has_val`
before it constructs the value (see [Differences](#differences)).

`TypeOK` is needed by the others, since which text of an operation is compiled is
decided by the class, and what it does by the flag. `NothingLost` says nothing of the
exception in flight: it becomes inductive with `ResultsInv`, in which no exception
is in flight while the program runs. For `ThrowerIsQuiet` the invariant `Quiet` says
what a destructor will find: while the exception of `value()` passes, the local that
threw it, if it is still alive, is checked. Cells are treated first: for each of
the four classes, lemmas say what construction, assignment, swap and the
continuations do to a cell, so that the steps of the actions, one lemma each,
speak of stacks only. The refinement maps each local through `Contained`; every action
is one action of `SumType`, or a stutter when the content stays, as for checks and
exceptions.

Only model-checked:

- Error codes (`TypeOK`, `ReadersAgree`, `StackLaws`, `ImplementsValues`) and the pure
  algorithms (`SearchAgrees`, `NumbersAgree`): every function in them is recursive over
  bytes or characters, with division by powers that are constants, which the provers do not
  treat; the walks of `ListNodesProofs` and `LogRegistryProofs` need links only.
- Liveness and `ENABLED`: `UnheldIsFreed`.

## Findings

Each is a run that ends in a violation of what the repository itself says; the
quotations are in `PROJECT.json`.

- `log_nested`: the thread's copy of the data is all that keeps a running logger
  alive. When another thread has set a new logger and the running one logs or
  asks for a logger itself, the copy is replaced and the logger deleted while it
  runs; the comment at the top of `log.cc` calls the log thread-safe.
- `shared_nopool`: an object of a class derived from an `AllocatedObject` class is
  given back to the pools of the thread that releases it last. When that thread
  never made an object of this size its pool does not exist, and
  `DynamicMemoryPool::deallocate` writes through a null pointer;
  `doc/refcnt.md` recommends `AtomicRefcnt` for pointers in different threads.

## Differences

Behaviours of the code that a reader may not expect, met while modelling. The
models have them, or exclude the call in which they show; the properties say so
where it matters.

- **Rounded capacities.** `_reserve_save` multiplies the capacity by a `float`. Above
  2^24 the default factor 1 already rounds, and the result can be smaller than the
  length. `NearestFloat` models it; the runs have `FloatBits = 24`, where short strings
  are exact.
- **`c_str()` of a shortened literal.** A literal is returned as it is, also after
  `substr`, `offset`, `pop_back` or `resize` moved its end away from the terminator.
  `CStrTerminated` speaks of strings that are not literals.
- **`assign(source, pos, length)`** releases the target before it checks `pos`: after
  the exception the target points to storage it no longer owns. `Assign` takes
  positions inside the source.
- **Searches that wrap.** `rfind` of a needle longer than the text starts far behind
  the end; `find_first_of` and `find_first_not_of` add a position near `npos` to a
  pointer and start before the text. `Search` computes what the code does, and
  `SearchAgrees` leaves these calls out.
- **A listener that removes itself and then calls `next()`** has its closure deleted
  while it runs, unless the program keeps a copy of the function. `HeldUntilNext`
  promises the closure up to `next()` only.
- **An `iptr` that is a member of what its release destroys.** `operator=` and
  `reset()` release the old object while the `iptr` still points to it; an object that
  keeps itself alive until it resets that member is deleted a second time.
  `OwnersKept` excludes it in the run; with `FALSE` the model has it.
- **`lock()` of an atomic weak pointer** tests `valid` and takes its reference later:
  another thread may destroy the object in between. `LockRace` lets it happen, and
  `LockedIsAlive` then fails. Two threads that make the first weak pointer of an object
  at once each store a storage, and the one overwritten is never told: this takes
  two `WeakThreads`.
- **Move assignment over an unchecked `excepted`** throws the error of the target and
  leaves it unchecked. The exception destroys the target, whose destructor throws
  the same error again, and the process ends. `ThrowerIsQuiet` speaks of `value()`.
- **An error of an `excepted` can be written over** by assigning or emplacing a value, and
  swapping two errors leaves the flags behind, so that a checked one may be
  reported and the unchecked one not. These are the errors in `mislaid`.
- **A constructor that throws in an assignment** to a result with an error leaves
  neither value nor error, and the destructor destroys a value that is not there. With
  `"assign"` in `Throwing`, `TypeOK` fails.
- **Copies of an `ErrorCode` share their codes**, also when one is assigned to: `init()`
  clears and refills the shared `Data`, so setting a code in one object sets it in all its
  copies. `doc/error.md` (line 101) says "You can use it as the usual value type as
  std::error_code". `UsualValueType` is that statement, and fails in `error_code` after a
  copy and an assignment; `ImplementsValues` leaves the copies out of what it says of a
  code that is set.
- **A block is freed to another pool** when the thread that releases an `AtomicRefcnt` object
  last is not the one that made it: `operator delete` of `AllocatedObject` takes the pool
  of the thread it runs on. The comment in `MemoryPool::deallocate` (`memory.h`, line 95)
  says "you MUST NEVER pass a pointer that wasn't created via current mempool", and a
  build with `TEST_FULL` aborts there, while `doc/refcnt.md` recommends the class for pointers
  in different threads. With `TEST_FULL = TRUE` the model aborts too, and `BlockReturnsHome`
  fails. In other builds, which the run is of, nothing goes wrong with the block:
  `BlocksOnce`, `BlockFits` and `UnheldIsFreed` hold, and the theorems on the first two
  hold for both kinds of build.
- **A module that lost its parent** gets the logger and formatter that were in effect for
  it as its own (`log.cc`, lines 341 to 343: "we must set explicitly logger and formatter as
  these modules are now root modules"), but `~Module` does not move the revision. A thread
  whose copy has the current one keeps the old entry, and its `get_logger` and
  `get_formatter` return null for a module that has both. `OwnIsCurrent` fails in `log` for
  this reason, and the second disjunct of `OwnIsKnown` is this case. What is in effect does
  not change, so messages are not affected.
- **`from_chars` of a text without digits** reports `invalid_argument` and overwrites
  the value with 0, which `std::from_chars` leaves untouched. `NumbersAgree` says
  nothing of the value in that case.
- **`basic_string_view::copy`** checks its position and then copies from the start. It
  is not modelled.
- **The move constructor of `IntrusiveChain`** exchanges head and tail and leaves `_size`
  uninitialized. It is not modelled.

## Limits

- Allocation does not fail, and a destructor other than those of `excepted` does
  not throw.
- Preconditions the code does not check are guards: `pop_back` of an empty
  string, `remove_prefix` beyond the end of a view, the obligations of `Refcnt`
  above, `erase` of a node removed already, `next()` again after the chain
  has ended, assigning a list to itself.
- Constructors and destructors of log modules read the index and the list of
  waiting modules without the mutex: that a program runs them one at a time is
  the guard `Building`. That no message may still pass through a module that is
  destroyed is the guard `InUse`. A module other than a root has a name. Of levels only the
  guard of `Log` is modelled: no property is about them. `get_module` and
  `get_modules`, which only read, and `escaped` and `prettify_json`, which
  only print, are left out.
- A list of many nodes is released recursively, node by node; the depth of the
  native stack is not modelled.
- Threads do not end: what a thread leaves behind in the table of thread-local
  pools, or in the categories of an `ErrorCode` it handed out, is a hazard without a
  property. An `iptr` variable is written by its own thread, or by one that
  hands it a copy before it is used. Atomic operations are sequentially consistent,
  as they are written in the code; `_weak` and `valid`, which are not atomic, are
  read and written in one step each. In `shared` every thread has used its dynamic
  pools before (`Warm`), which is what keeps the case of `shared_nopool` out.
- Sizes beyond 256 KB, which `allocate` refuses by throwing, the destructors of the
  pools and `AllocatedObject` for one thread are left out.
- The callbacks of `map`, `and_then` and the others do not throw. Conversions
  between results of different types move like those of one type.
- `from_chars` and `to_chars` take a base of 2 to 36, and `to_chars` a buffer that is
  large enough.

Not modelled:

- **Multi logger**: its channels never change, and a message goes through a loop over
  them; there is no state. **Log formatting**, terminal colours and backtraces are
  text and platform calls.
- **Intrusive chain**: nothing else in the library uses it, and its links are kept as
  those of the owning list are.
- **String containers** are adaptors of the standard ones. **Function objects** are template
  dispatch around one `iptr`. Optional, iterators, casts, byte order and hashes are
  value types or pure functions with no protocol to check.

## Plan

Done, in this order: strings (`StringValue`, `CowStorage`, `CowString` and their
proofs); lists and dispatch; reference counts in one thread; the log registry and
its proofs; search, views and numbers; error codes; the result classes and their proofs;
shared objects over memory pools; the proofs of both kinds of reference counts; the proofs of
lists and dispatch; the proofs of the tree of log modules; the refinements of
`CursorList` by the list and by the dispatcher.

Left:

1. **Error codes**, proofs: counts of the shared data, and the reading of categories.
2. **Threads that end**, for the table of thread-local pools and for the categories of
   an error code.
3. **Intrusive chain** and the multi logger.
