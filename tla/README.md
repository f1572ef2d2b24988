# Luwu: TLA+ models of the virtual machine, its shared native code and the build queue

Luwu is a Luau implementation: a parser, a compiler, a register virtual machine
with an incremental garbage collector, a native code generator, and a type
checker with a front end that checks many modules on several threads. This
directory models the parts in which correctness depends on the order of steps,
and leaves the sequential translations and algorithms to their tests.

Paths below are relative to the repository (`src/`). `PROJECT.json` lists for
every definition the lines it models.

## 1. Inventory

| Component | State | Operations | What is hard | What makes it correct |
|---|---|---|---|---|
| Garbage collector, `VM/src/lgc.cpp`, `lgc.h` | colour of each object, the lists gray, grayagain, weak, the phase, current white, the page being swept | gcstep in five phases, atomic, luaC_fullgc | runs in small steps between the operations of the program; one gclist field for three lists; weak tables; orphaned upvalues; a forced collection in the middle of a cycle | no live object refers to a freed one; garbage is freed; black never to white; gray objects are in exactly one list |
| Write barriers and heap operations, `lvmexecute.cpp`, `lapi.cpp`, `ltable.cpp`, `lfunc.cpp`, `lstring.cpp` | tables, closures, upvalues, stacks, metatables | loads, stores, captures, closes, calls | a barrier of the right direction after each store; stores without a barrier on the thread that runs; slots above top | the invariants of the collector, at any point of a cycle |
| References of the host, `lapi.cpp` | registry and pool, each with a free list in its own slots | lua_ref, lua_unref, lua_refpool, lua_unrefpool | intrusive lists, indices off by one, doubling of an `int` | a reference stands for one value until it is given back |
| Build queue, `Analysis/src/Frontend.cpp`, thread pool in `CLI/src/Analyze.cpp` | items with dependency counts, ready items, counters, tasks | checkQueuedModules, performQueueItemTask, push, pop | threads finish in any order; cycles; exceptions, cancelled checks; deleted files | counters agree, dependencies first, each module once, the call ends and leaves no worker behind |
| Shared native code, `CodeGen/src/SharedCodeAllocator.cpp` | map from identifiers to modules, atomic reference counts | get or insert, release, erase if unreferenced | a module is found again between the release of its last reference and its removal | a module in use is never freed, a freed one never read |
| Coroutines and protected calls, `ldo.cpp`, `lcorolib.cpp`, `lbaselib.cpp`, `laux.cpp` | status, C call counts, call info, active flag, the native stack | call, resume, yield, error, break, close | yields across C calls, errors in handlers, counts restored on every path | a thread is resumed only when suspended, yields only what can be continued, every error finds its handler |
| String table and buffers, `lstring.cpp`, `lbuffer.cpp` | buckets, strings under construction, strings and buffers in memory of the host | intern, finish, resize, free | dead strings brought back, allocations that fail half way, memory owned by the host | equal strings are one object, memory released once |
| Page allocator, `lmem.cpp` | pages, free blocks, lists by size class | allocate, free, sweep of a page | a page leaves and joins its list as it fills and empties, pages are freed during a sweep | a block is in one place, a page in the lists it belongs to, the sweep misses no page |
| Require and configuration, `Require/src`, `Config/src` | navigation context, cached configurations | navigate, alias lookup | alias cycles | a module is loaded once |
| Type inference, linting, autocomplete, `Analysis/src` | constraint graph, types | solve | data-heavy fixpoints over unbounded types | - |
| Parser, compiler, bytecode, inliner, native code | - | sequential translation | - | - |
| Tests, fuzzers, benchmarks, vendored code | not part of the program | | | |

The program (interpreter and host API) calls the collector through
`luaC_checkGC` whenever it allocates; the collector interrupts it nowhere else.
The pool of references is a root of the collector. Coroutines share one native
stack; their active flag tells the collector which stacks change without
barriers. Strings and buffers lie on the pages the sweep visits, and the sweep
takes strings out of the table. Virtual machines on different threads share
nothing but native code. The front end uses none of the virtual machine; its
workers share one work state with the calling thread.

## 2. Plan

1. *(done)* Collector and program: `Heap`, `Collector`, `Mutator`,
   `GarbageCollection`; type and colour invariants proved.
2. *(done)* `References`, with the abstract specification `RefMap`; refinement
   proved.
3. *(done)* `BuildQueue`.
4. *(done)* `SharedCode`: the reference counts of native modules shared by
   threads, with the window between the last release and the removal.
5. *(done)* `Coroutine`, which refines `CoroutineChain`.
6. *(done)* `PageAllocator` and `Memory`: the string table, strings and buffers
   in memory of the host, and the sweep over the pages they lie on.
7. *(done)* Proofs for any instance: `NoDangling`, `BlackNeverToWhite` and
   `OpenUpvals` of the collector; `NothingLeaks` and `RegistryList` of
   `References`; `SharedCode` for any number of machines; the safety of
   `BuildQueue` for any graph and any number of workers; the safety of
   `Coroutine` and its refinement of `CoroutineChain` for any number of threads.
8. Dirty marking in the front end (`markDirty`, `isDirty`, memoised queries)
   around `BuildQueue`; the navigation of `Require`.

## 3. Modules

### Heap, Collector, Mutator, GarbageCollection

`Heap` has the state: one variable per field the collector reads or writes
(`colour` is `GCheader.marked`, with `"free"` for a block that holds no object),
the marking primitive (`Reached`, `Marked` for `reallymarkobject`), the initial
state `lua_newstate` makes, and the types. `Collector` has one action per case
of `gcstep` and per part of `atomic`; `Mutator` one action per operation of the
program, each with its barrier; `GarbageCollection` composes them and states
the properties.

Choices that a reader should know:

- *Interleaving.* The program moves between any two steps of the collector.
  A step is one object traversed or one page swept, the smallest `gcstep` can
  be made to do; larger steps are sequences of these. `atomic()` is split into
  its parts by `atomicpc`, and `luaC_fullgc` by `fullgc`, but the program cannot
  move inside either (`Running`).
- *Lists.* The order of gray objects is left open: the three lists are sets, and
  any member may be next. `GrayLists` shows that they are disjoint, so one
  gclist field is enough.
- *Marking.* `reallymarkobject` recurses through an upvalue to its value and
  through a userdata to its metatable and no further, so it is three fixed
  rounds, not a recursion.
- *Kinds.* Strings, buffers and vectors, userdata, tables, closures, upvalues and
  threads are kinds of the model. Prototypes, classes and their objects are
  written with the forward barrier of a closure's own value and traversed the
  same way. The globals of a thread, `namecall`, the registry and the main
  thread's global table are values the program holds all the time: a stack slot
  or a slot of the pool stands for them.
- *Weak tables.* Strings in weak tables are kept (`isobjcleared` marks them). A
  key of an empty entry becomes a dead key, except in a table weak in both ways,
  whose entries `traversetable` does not visit.
- *Stacks.* Slots above top keep their values, and a call puts them in use
  unwritten; `clearstack` is what makes that safe.
- *Coroutines.* `caller` is the C stack of resumes. A suspended thread is resumed
  only while its resumer's stack keeps it, as the argument of the call does.
- *Flags.* Feature flags have their default values: tracing by the embedder
  (`LuauGcTraceUdata`) is off, the reference pool is on.
- *Left out.* When to step and how far (the pacing controller), statistics,
  shrinking of stacks and of tables in `cleartable`, destructors of userdata. The
  string table and the blocks of a page are the subject of `Memory`.

### References, RefMap

`RefMap` is what a host relies on: a number that no other reference in use has
stands for one value until it is given back. `References` has both
implementations with their free lists as the code stores them: in the pool a
tagged slot with the next index plus one, in the registry a plain number that
cannot be told from a number the host stored. `INT_MAX`, the first capacity and
the size of the registry are constants. A failed allocation happens before
anything is assigned and changes nothing.

### BuildQueue

The calling thread (`Start`, `PushTask`, `Wait`, `HandleBatch`, `Submit`,
`Finish`), the workers (`Pop`, `Check`, `Post`, `Notify`) and the destructor of
the pool (`PushStop`, `Join`). A critical section is one action; waiting on a
condition variable and being woken are separate steps, and threads may wake for
no reason. The initial states are all graphs over the items in an order
`parseGraph` can produce: a module after the modules it requires, but for edges
that lie on a cycle. `Gone` are the items that may require a module whose file
was deleted: its source node is still dirty, it has no slot, and
`moduleNameToQueue[dep]` makes it slot 0. The check of a module is the
environment: it ends, throws an internal compiler error, or is cancelled.
Feature flags have their default values (no inference over cycles, source nodes
not erased). Not modelled: parsing, the recording of types, the marking of dirty
modules between calls, the default executor that runs tasks at once.

### Coroutine, CoroutineChain

`CoroutineChain` is what the language promises: the coroutines that were entered
form a chain of which only the newest runs, and a dead one is never entered.
`Coroutine` has what the code keeps instead: of each thread its status, its
frames, `nCcalls` and `baseCcalls`, the active flag, and whether there is a
function to start (`hasfn`); and `cs`, the native stack all threads share, as a
sequence of activations (an interpreter loop, a C function and where it waits, a
`luaD_call`, a `luaD_pcall`, a `lua_resume`). An error removes activations of
`cs` up to the newest protected call or resume, a yield up to the newest resume,
as `longjmp` or an exception does; the frames of the thread stay. A record of a
`luaD_call` or `luaD_pcall` has the caller's frame (`cioffset`, `old_ci`) as the
code's local variables do. What `CoroutineChain` sees of this is computed from
`cs`: the chain are the threads of the resumes on it, in their order, below them
the main thread if the host has called it. Choices:

- Functions are of five kinds: `coroutine.resume` and `wrap`, `pcall`, `xpcall`,
  and C functions of a host with (`k`, through `luaL_callyieldable`) and without
  (`c`) a continuation; all others are Lua functions.
- `flags` is chosen at the start from settings of the three feature flags that
  change the control flow: all off, which is the default, `LuauCustomYieldablePcalls`
  alone, `LuauYieldIter2` alone, and all three.
  `LuauXpcallFixMessageYieldPath` matters only together with the first.
- The kinds of error are one status `ERR`. An overflow of the C stack is an error
  at the same points as in `luaD_checkCstack` and `resume_start`; the limit for
  calls made while it is handled is the constant `HardLimit`.
- The host takes the results off the stack of a finished coroutine before it
  looks at its status again (a thread with values on its stack and no frame
  counts as not started).
- Not modelled: `debugprotectederror` and the callback for state changes, both
  for debuggers, the growth of stacks, results and arguments, the data
  `luau_finishop` puts in registers. `luaD_pcall_multi` has the control flow of
  `luaD_pcall`.

### SharedCode

Modules of native code with their counts, the map behind the lock, and one
thread per virtual machine that compiles a script, binds its functions to the
module, and destroys them one by one. The lookup, the translation outside the
lock, the insertion, the release of the last reference and the removal under the
lock are separate steps. The code reads the count of a module through a plain
reference after another thread may have destroyed it; what it finds in freed
memory is any count and any identifier, so that step does nothing or destroys any
module. `raced` records that this can happen; the properties hold up to there.
A script is compiled only while none of its functions is bound: what
`bindNativeProtos` makes of a second compilation of a script that is bound in
part is the pairing of two lists by their identifiers and is not modelled.
`anonymousModuleCount` is left out: it is only read by an assertion, and counted
down inside another one (`SharedCodeAllocator.cpp:295`).

### PageAllocator, Memory

`PageAllocator` has no variables: its operators take a heap (pages, and the heads
of the list of all pages and of the list of pages with a free block) and return
one, link by link as the code does. There is one size class, and objects too
large for it with a page of their own. Where the system's allocator puts a page
is open. `Memory` has the string table on top of it (`luaS_newlstr`,
`luaS_bufstart`, `luaS_buffinish`, `luaS_newexternallstr`, `luaS_resize`, `luaS_free`), buffers,
and the collector as far as they see it:

- the mark phase is one step that marks any set of objects that includes what is
  held; `Collector` is about how it finds them. `gcstate` is `"mark"` in all
  states before the sweep;
- the sweep of one page is one step, which frees objects, the page itself
  perhaps, and takes strings out of the table; the program moves between pages;
- a piece of memory of the host is the host's, the machine's, or was released
  twice;
- an allocation may fail wherever the code allocates: no page, no larger table;
- `lua_close` frees everything at any point. A closed state has no successor, so
  the run does not look for deadlocks.

`newblock` and `freeblock`, for memory that holds no objects, keep the same lists
and are left out, as are byte counts. `lua_pushexternalstring` may fail to grow
the stack before `luaS_newexternallstr` has seen the memory it was passed; no
line of the repository says whose memory it is then, and `Memory` begins at
`luaS_newexternallstr`.

## 4. Runs

All runs finish in less than five minutes with two workers.

| Run | Checks | Instance |
|---|---|---|
| `gc_heap` | NoDangling, BlackNeverToWhite, GrayLists, DeadOnlyInSweep | two tables with one entry, a userdata, a slot of the pool, the metatable of a basic type, two registers, forced collections |
| `gc_weak` | NoDangling, BlackNeverToWhite, WeakEntriesKept | a table whose metatable's `__mode` changes, with a buffer as key and a string, a buffer or a table as value |
| `gc_upvals` | NoDangling, BlackNeverToWhite, ColourDiscipline | main thread and a coroutine with two slots each, a closure, an upvalue |
| `gc_live_threads` | TypeOK, OpenUpvals, GarbageIsFreed | a coroutine, a closure and an upvalue that may form a cycle, one slot per stack, calls and returns, forced collections |
| `references` | PoolFits, PoolList, RegistryList, NothingLeaks, PoolImplements, RegistryImplements | INT_MAX = 5, first capacity 1, three slots of the registry; values an object and numbers that look like links |
| `build_queue` | Counters, DependenciesFirst, QuietAtEnd, CompleteOrNothing, CheckedOnce, Termination | every graph of three modules, two workers, all outcomes, aborting progress callback, one deleted file |
| `coroutine` | YieldableIsRecoverable, ResumeAsserts, DepthNeverUnderestimated, ActiveIsRunning, StatusIsTrue, DiesOnlyUnprotected, ImplementsChain | the main thread and two coroutines, LUAI_MAXCCALLS = 3, hard limit 4, calls while there are fewer than three frames, four settings of the flags |
| `memory` | BlocksAccounted, PageLists, Interned, ReleasedOnce | three pages of two blocks, three contents of which one is long, one piece of host memory, three objects, one string under construction, a table of at least one bucket |
| `shared_code` | CountsHolders, HeldIsAlive, OneModulePerId, NothingLeft | three machines, one identifier and scripts without one, two functions, two modules |
| `gc_barriers` | BlackNeverToWhite is violated | a coroutine, two closures that share an upvalue, a string |
| `coroutine_ccalls` | CcallsExact is violated | the main thread and a coroutine, LUAI_MAXCCALLS = 4 |
| `shared_code_race` | ExaminedIsAlive is violated | two machines |

*Why the bounds are enough to be interesting.* A broken barrier needs one object
that is already black, one that is still white, and a register to carry the
second out of the gray object that held it: two registers and the objects of
`gc_heap` have all of it. Upvalues need a slot of another thread's stack. A weak
table needs an entry, a metatable and one value of each kind `isobjcleared`
treats differently. The pool's capacity goes 1, 2, 4, 5: it doubles, meets the
limit that is not a power of two and stops. Three modules are the fewest with a
cycle and a module outside it, or a batch of two of which one frees the third.
Two coroutines are the fewest of which one waits for the other and a third
thread looks at both; three frames hold a protected call, the C function it
calls and what that calls; with these limits nested resumes and calls meet both
limits of the C stack. Two pages of two blocks and a long string are enough for a
page to fill, to empty and to be freed while the sweep stands at its
neighbour; three contents make the table grow twice and share a bucket. The race
in `shared_code_race` takes two machines; the third shows that up to it two
that come and go do no harm to one that stays. In each passing run every
property is broken by at least one plausible change of the code (the `mutants`
of `PROJECT.json`).

*Fairness.* `GarbageIsFreed` assumes weak fairness of the collector's step: a
program that goes on allocating passes the threshold again and again and
`luaC_checkGC` then steps. No fairness is assumed of the program. `Termination`
assumes that the calling thread and each worker get to run; spurious wakeups are
possible and never promised, so a lost notification is not repaired by luck. The
other modules are about safety: a program may stop calling, and a host may never
resume a coroutine. That tables and entries of weak tables are freed is not part
of `gc_live_threads`, which has none; `NoDangling` and `WeakEntriesKept` of the
other runs say only that nothing is freed too early.

## 5. Findings

- `gc_barriers`, `resume_error` (`VM/src/ldo.cpp`): it pushes a message on the
  thread that could not be resumed without `luaC_threadbarrier`, which
  `VM/src/lapi.cpp` asks of everything that pushes. A black thread ends up with
  a white string on its stack.
- `gc_barriers`, `lua_setupvalue`: the barrier is on the closure, but the value
  it writes may belong to an upvalue shared with a closure that was already
  traversed: a black upvalue refers to a white object. `Mutator` models
  `lua_setupvalue` only for values the closure holds itself. Without the
  coroutine, the same run ends in this.
- `coroutine_ccalls`: `luaD_performcally` does not count an iterator call down
  when the callee yields or leaves its work to the loop of `lua_resume`, and
  `luau_finishop` does not either: `nCcalls` is then more than the nested C
  calls, once more with every iteration, until the next resume. It errs on the
  safe side (`DepthNeverUnderestimated` holds), but a long loop without nesting
  fails with a C stack overflow.
- `shared_code_race`: `eraseNativeModuleIfUnreferenced` reads the count of a
  module that another thread may have found, released and destroyed since.
- Not a run of its own: a comment in `checkQueuedModules` (`Frontend.cpp:774`)
  says that after an exception no items are added; items freed by an earlier item
  of the same batch still are (`Frontend.cpp:834`). The call waits for them too,
  so `QuietAtEnd` and `Termination` hold.

Both calls that miss a barrier are kept out of `Next`; `HostSpec` adds them.

## 6. Proofs

| Theorem | Module | Statement |
|---|---|---|
| TypeCorrect | GCColourProofs | `Spec => []TypeOK` |
| DeadOnlyInSweepAlways | GCColourProofs | `Spec => []DeadOnlyInSweep` |
| ColourDisciplineAlways | GCColourProofs | `Spec => []ColourDiscipline` |
| GrayListsAlways | GCColourProofs | `Spec => []GrayLists` |
| NoDanglingAlways | GCSafetyProofs | `Spec => []NoDangling` |
| BlackNeverToWhiteAlways | GCSafetyProofs | `Spec => []BlackNeverToWhite` |
| OpenUpvalsAlways | GCSafetyProofs | `Spec => []OpenUpvals` |
| PoolListAlways, PoolFitsAlways | ReferencesProofs | the free list and the capacity of the pool |
| RegistryListAlways | ReferencesProofs | the free list of the registry |
| NothingLeaksAlways | ReferencesProofs | both lists lead to every slot that is not in use |
| PoolRefines, RegistryRefines | ReferencesProofs | both tables implement `RefMap` |
| CountsHoldersAlways, HeldIsAliveAlways, OneModulePerIdAlways, NothingLeftAlways | SharedCodeProofs | the invariants of `SharedCode`, up to the race |
| StackDiscipline | CoroutineProofs | the inductive invariant of `Coroutine` |
| YieldableIffRecoverable, AssertsNeverFail, DepthIsCounted, ActiveWhileRunning, StatusAlwaysTrue | CoroutineProofs | the invariants of `Coroutine` |
| ErrorsFindHandlers | CoroutineProofs | `Spec => DiesOnlyUnprotected`, an action property |
| ImplementsCoroutines | CoroutineProofs | `Spec => ImplementsChain`: `Coroutine` implements `CoroutineChain` |
| CountersAlways, DependenciesFirstAlways, QuietAtEndAlways, CompleteOrNothingAlways, CheckedOnceAlways | BuildQueueProofs | the safety properties of `BuildQueue` |

They hold for every heap, stack size, set of pages and node count that satisfy
`HeapAssumption` (the kinds are disjoint sets, the main thread is a thread, the
special values are no objects), for every limit that satisfies
`ReferencesAssumption`, for every finite set of machines and functions
(`SharedCodeAssumption`, where the other conjuncts only keep the names of the
model apart), for every number of modules and every finite set of workers
(`BuildQueueAssumption`), and for every set of threads, all settings of the flags
and all limits of the C stack (`CoroutineAssumption`).

*Types.* `TypeOK` is not inductive: `Yield` returns to `caller[run]`, which must
be a thread. `TypeInv` adds `Chain`: the thread that runs is the main thread or
active, every active thread was resumed by one that is active or the main
thread and does not run, and no two by the same one.

*Colours.* The inductive invariant `ColourInv` is `TypeInv`, the three
properties, `AtomicPhase` (`atomicpc` is set only in the state `atomic`) and
`SweptIsWhite` (a page that was swept holds only objects of the current white).
Without `SweptIsWhite` the end of the sweep would not give the all-white heap
that the next `markroot` starts from; without `DeadOnlyInSweep` the emptied lists
would not be those of the gray objects. The operations of the program are
treated together: each leaves an object in one of a few turns (left alone, made
or brought back, marked by a barrier, caught by a barrier, closed), lemmas show
that any turn keeps the lists and the discipline, and that each barrier makes
only such turns. The steps of the collector are proved one by one.

*Nothing in use is freed.* `SafeInv` (in `GCSafetyProofs`) is inductive and
gives the three properties of this module. TLC checked it on the four
instances of the collector before it was proved. Its parts, and what each is
needed for:

- `ColourInv`, as above.
- `ObjectsSafe`, for each kind of object: the fields of a block that holds no
  object are those its next constructor expects; what a live object refers to is
  live; what a black object refers to is settled, that is nil, gray or black.
  This is more than `BlackNeverToWhite` says in three places. The *keys of empty
  entries* of a black table are settled or dead, since a later store under such a
  key calls the barrier for the value only. *All slots* of a black thread count,
  also those above top, since a call puts them in use without a write. And the
  open upvalues of a black thread carry the `markedopen` bit, without which
  `clearupvals` would unlink them from a thread that stays.
- For upvalues also: a linked one points into a live thread that has it open, a
  live open one is linked, and one with the bit belongs to a marked thread.
- `RootsSafe`: the roots are live; while marking the main thread is marked, and
  the slots of the pool are unless `gc_ref_gray` is set.
- `BitsReset`: outside a mark phase no upvalue carries the `markedopen` bit, but
  for the sweep of a forced collection, which `FullGcMark` cleans up after.
- `Waiting`: a thread that was resumed is held by a slot of its resumer that no
  upvalue reaches, and every set of active threads has one whose resumer is
  outside it. The collector marks the main thread and the running thread only;
  the threads between them survive because each is held by the one before, and
  the second half turns that into an argument without induction: of the active
  threads left white one would have a resumer that is marked, hence swept by
  `atomic()`, hence one that does not hold a white thread.
- `AtomicMarks`: what each part of `atomic()` has settled when the next begins:
  the values behind gray upvalues, the basic metatables and the metatables of
  weak tables, all slots of the threads in `grayagain`, the pool.

The program's operations keep it by the turns they make (`MutatorSafe`): an
object that is not written stays safe whatever the colours around it do, one that
is written is either not black or its barrier settles what it got. The marking
steps are instances of one scheme (`Marking`): everything is live, colours only
darken, fields only lose keys of empty entries and slots above top, and what
turns black was just traversed. At the end of `atomic()` the marked objects and
the strings of weak tables are exactly what is live under the other white, so the
claim to show is that no marked object refers to an unmarked one; here the
exceptions that `BlackNeverToWhite` allows (slots of open upvalues, weak entries)
have to be gone, and `AtomicMarks` says that they are. The sweep then frees only
what no live object refers to.

*References.* For the pool: the domain of the array is what `ref_size` says, a
slot is tagged free exactly if no reference stands for it, and the links are
injective and avoid the head; then the slot that is handed out is not in use and
the next head is again a free slot. The registry needs the same although nothing
in a slot says that it is free. The refinements follow step by step. That a walk
of a list finds every free slot is stated without recursion (`WalkFinds`): no
proper part of the free slots holds the head and with each slot the next one.
Taking the head off and putting a slot in front keep that (`WalkPops`,
`WalkPushes`).

*Shared code.* `SharedInv` says that until the race the types hold, a thread has
a module in hand where the code says so, counts are the numbers of holders,
modules with holders exist with their code, the map and the identifiers agree,
and (`Leaving`) a module without references has a thread on its way to remove it.
The last is what makes `NothingLeft` true, and it is not a statement about counts:
of two threads that release the last reference one after the other it does not
matter which one removes the module.

*Build queue.* `QueueInv` has, besides `Counters`: `PostOrder` of the graph as
`parseGraph` made it; `Apart` and `Placed` (an item is to be pushed, in the queue
of the pool, with a worker or ready, and in one place only); `Judged` (an outcome
exists exactly from the check on); `Recorded` and `InOrder` (a module that was
sent had its requires recorded, or they lie on a cycle with it); `Going` (after a
failure the loop goes on only for what is under way). `DependenciesFirst` needs
`PostOrder` for the one case in which the code sends an item that still waits:
when nothing is ready and nothing under way the first remaining item is sent, and
what it waits for must then lie on a cycle with it.

*Coroutines.* The invariant `InductiveInv` relates the frames and counters of
each thread to the native stack as a whole. TLC checked it with two and three
threads before it was proved. Its parts:

- `Shape` of the native stack: what each record may land on (`Lands`), and that
  the records of a thread lie together (`Based`), from a resume of it or from the
  bottom. A thread is thus resumed only when nothing of it is on the stack.
- `FramesOK`: which frames a Lua function may be called from without a loop of its
  own, and that only `pcall` and `xpcall` handle errors. `Sits`: every record of a C
  function, a call or a protected call refers to a frame its thread still has, of
  the right kind, and records further up refer to later frames (`Lands`). This is
  what an error relies on that cuts frames and stack in two different places.
- `CountsFit`: `nCcalls` covers all calls and resumes on the stack, and exceeds
  `baseCcalls` by the number of calls of the thread that have no continuation,
  unless an error function disturbs the counts. The equality gives
  `YieldableIsRecoverable` and half of `ResumeAsserts`, the first part
  `DepthNeverUnderestimated`.
- `TopFits` and `Unwinds`: what the newest record of a thread implies while it
  runs, and while it unwinds after a yield. `Unwinds` says that whatever is still
  to be removed can be continued.
- `Accounted`: a frame without a continuation lies above a call that forbids the
  yield. `Handles`: a frame with `LUA_CALLINFO_HANDLE` has its `luaD_pcall` on the
  stack, or all frames up to it can be continued.
- `Off`: a thread with nothing on the stack has no frames unless it yielded or
  died, is not active, and can be continued where it yielded.

A step changes one thread, on top of a stack `q` of other threads that it does
not look at. `Context` says of `q` what does not depend on that thread, `Ends`
what a step must leave: records of the thread that fit its frames, or `q` alone.
For each action a lemma shows `Ends`, for an error at any depth once and for all
(`Throw`); `Settled` then gives the invariant back. `Origin` keeps, next to
that, where the step started, which is what the properties of steps need:
`DiesOnlyUnprotected` (the handler that `luaD_throw` finds is the newest one of
the thread that fails, on the stack or in a frame) and the refinement. For the
latter, a step that keeps the first record of the block leaves the chain as it
is, one that ends in `q` leaves it by one thread, and a resume makes it longer by
one thread or fails and leaves the thread dead or as it was. The chain is defined
by counting the resumes up to a place, not by a filter on sequences, since the
provers know nothing of `SelectSeq`.

*Only model-checked.* Liveness (`GarbageIsFreed`, `Termination`), which is out of
reach of the prover. `WeakEntriesKept`, which speaks of reachability, a recursive
definition over the whole heap. `BlocksAccounted`, `PageLists`, `Interned` and
`ReleasedOnce` of `Memory`: what the sweep of a page and of all pages computes
(`VisitPage`, `VisitFrom`) is a recursive function over the blocks and the linked
lists of pages, and a claim about its result for every length is an induction over
data.

## 7. Not modelled

Type inference, linting and autocomplete are fixpoints over unbounded types, and
the parser, the compiler, the bytecode builder, the inliner and the native code
generators are sequential translations of one large data structure into another
that keep no state between calls. They are most of the repository's lines; their
inputs are out of reach of a model checker's small instances, and their tests
compare results directly. The instructions of the interpreter and the library
functions are modelled for what they do to the heap and to the native stack, not
for what they compute. `Require` and `Config` walk a file system and read files;
the command line tools wrap the libraries.
