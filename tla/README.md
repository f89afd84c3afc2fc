# A verification project for Cardinal

Cardinal is a statically typed, garbage-collected language with three executions of
the same program: a Python tree-walking interpreter (the reference), a bootstrap compiler in
Python that emits C, and a self-hosted compiler in Cardinal that emits C or x86-64. Compiled
programs link a C runtime: a handle-based collector, and vectors, maps, strings and file access
on top of it. This directory holds TLA+ models of the runtime, of the bootstrap's checker,
interpreter and compiler down to the program it makes, of module loading and of strings; TLC configurations
for small instances, and TLAPS proofs for every instance.

Paths are relative to the repository (`src/`).

## 1. Inventory

```
source -> lexer -> parser -> type checker -> lowering -> IR -> C back end  -> cc -> runtime
              \                                            \-> x86-64 back end -/
               \-> interpreter (the oracle that the compiled programs are compared with)
```

| Component | Code | State | Operations | What is hard, what makes it correct |
|---|---|---|---|---|
| Garbage collector | `bootstrap/runtime/cardinal_gc.c` | slot table with generations, free list, shadow stack, pins, worklist, byte counters | alloc, deref, collect, push/pop root, pin, thresholds | A collection runs inside any allocation. Handles outlive objects, generations wrap, graphs are cyclic. Nothing reachable is freed, all garbage is, a slot has one owner. |
| Runtime maps | `cardinal_rt.c` 190-390 | entries with tombstones, open-addressing index | set, get, has, del, keys, rehash, growth | Long histories of insertions and deletions; the load factor ignores tombstones. The map is an insertion-ordered dictionary, and its unguarded probe loop ends. |
| Rooting discipline | `cardinal_rt.c`, frames of `compiler/backend_c.cardinal` | C variables, shadow stack, interned literals | every runtime function that allocates more than once | State held over an allocation. No function uses or publishes a freed object; each push is popped. |
| Strings, conversions, printing, panics | `cardinal_rt.c` | none but their arguments | concat, substr, chars, str_to_int... | UTF-8 and numeric edges, overflow of positions and of numbers. The runtime's bytes stay the interpreter's characters. |
| Numeric for loop | `interpreter.py` exec_fornum, `lower.cardinal`, `lower.py` lower_fornum | counter, bound, step | test, body, advance | Bodies that assign to index, bound or step; counters that wrap. Both compilers agree with the interpreter. |
| Interpreter | `bootstrap/interpreter.py` | environments, cells, heap values, `checked` flag | statements, expressions, calls, coercions, copies | Structs are values held by reference; closures share cells; arithmetic is exact, then wrapped or trapped. What the checker accepts meets no error but a panic. |
| Module loading | `interpreter.py` load_module, `typecheck.py` load_sig | registered modules, exports, the declarations known so far | import, select, declare, evaluate | Modules are registered before they are filled and may import each other. Both walks see the same scopes, private names stay private, loading ends. |
| Type checkers | `bootstrap/typecheck.py`, `compiler/checker.cardinal` | scopes, inferred types, errors | one rule per node | Places, mutability, literals without a type. Accepted programs do not go wrong. |
| Lowering and IR | `bootstrap/lower.py`, `ir.py`, `compiler/lower.cardinal`, `ir.cardinal` | blocks, temporaries, loop stack, captures, `checked` flag | one rule per node | Short circuits, loop targets, boxes and environments of closures. The emitted code behaves as the interpreter does; what is unsupported is refused. |
| Back ends | `bootstrap/backend_c.py`, `compiler/backend_c.cardinal`, `backend_x86.cardinal` | text being emitted | one rule per instruction | Frames root and pop exactly their managed slots; nothing the C standard leaves undefined. |
| Front ends, drivers, library | lexers, parsers, `cardinal.py`, `cardinalc.py`, `lib/` | token stream | | Pure or I/O. |

Everything is single-threaded. What takes the place of concurrency is the collector, which
may run between any two steps of a function that allocates, and the callbacks of the file
functions, which are compiled code run in the middle of a runtime function.

## 2. Modules

| Module | Models | Theorems in |
|---|---|---|
| `AbstractHeap` | what the heap promises: objects with identity, a program that holds references, garbage that may vanish | |
| `GcHeap` | `cardinal_gc.c`, every function that changes state | `GcHeapProofs`, `GcRefinementProofs` |
| `OrderedMap` | what a map promises: an insertion-ordered dictionary (the interpreter's `dict`) | |
| `Tombstones` | the deleted entries that a map keeps until it is rehashed, shared by the next two | |
| `RtMap` | the map of `cardinal_rt.c` | `RtMapProofs` |
| `RtRooting` | the allocating functions of `cardinal_rt.c` and a compiled frame that calls them | `RtRootingProofs` |
| `ForNum` | the interpreter's numeric for loop | |
| `ForNumLowered` | the loop that `compiler/lower.cardinal` emits | `ForNumProofs` |
| `Ast` | the syntax tree, shared by checker, interpreter and lowering | |
| `Ints` | integers of a width: wrapping, truncating division, bits | |
| `Interp` | the interpreter, as an operator from a program to the machine it ends in | |
| `Checker` | the bootstrap's type checker for one module | |
| `Ir` | operands, instructions and the function builder of `ir.py` | |
| `Lower` | `lower.py`: the checked tree to IR | |
| `IrMachine` | `backend_c.py`: what C it makes of the IR, and the compiled program as a state machine | |
| `Pipeline` | composes the five above: a program through `cardinalc.py` against the same program interpreted | |
| `ModuleLoading` | `load_sig`, `build_sig`, `check_main` against `load_module`, `_populate`, `run` | `ModuleLoadingProofs` |
| `RtStrings` | strings and conversions of `cardinal_rt.c`, next to those of `interpreter.py` | `RtStringsProofs` |
| `MC*` | instances for TLC | |

A definition whose name ends in `_Something` and that is marked *mutant* is a plausible wrong
version of the definition below it. It is used by no specification; substituting it must
violate the property it is paired with, which shows that the property can fail.

### The collector: `GcHeap`

State and code correspond one to one (`cap` is `g_cap`, `free` is `g_free`, `roots` is the
shadow stack, and so on). A handle is `[idx, inc]`, where `inc` counts how often the slot was
freed. The code's 16-bit generation is `inc % GenMod` and that is all the model ever compares;
the rest of `inc` is there for properties to tell an object from a later tenant of its slot.

`cl_gc_alloc` is `AllocReuse`, `AllocGrow` or `AllocOutOfMemory`, after a collection when one is
due (`AllocCollects`). A collection is taken apart into `BeginCollect`, `MarkObject`, `MarkDone`,
`SweepFree`, `SweepKeep` and `SweepDone`, so that the properties hold in the middle of one; only
`Collect` steps are enabled meanwhile. The program is unconstrained: it roots, pins,
reads, stores, and keeps a handle `reg` in a variable that is no root, and so dereferences stale
handles. Sizes and counters are in words. The worklist is a set: the code's LIFO order
only decides the order of scanning.

### Maps: `RtMap`

`FindSlot` and `map_index_put` are the code's probe loops, stated as the least position at which
the loop stops. `PutEnds` says that this position exists, since that loop in the code has no
other exit. `Insert` contains the rehash and the growth that it causes. The FNV hash is replaced
by functions chosen by the configuration.

### Rooting: `RtRooting`

Each runtime function is run one allocation at a time. An activation record keeps the C
variables that hold handles; `roots` holds *addresses* of C variables, as the shadow stack does,
so a stale root would be read as whatever its variable holds. The collector is reduced to
keeping what the roots reach, which is what `GcHeap` establishes (`ReachableKept`,
`CollectionComplete`). Capacities are left open: a container may turn out full at any insertion,
a map due for a rehash at any set. This includes every schedule of the code. The file functions
take a callback, which is compiled code: the environment of its closure (`cb.env`) waits in the
variable `k` while the file's contents are allocated, and is then the callback's parameter `h`,
rooted like any other. A path is read before anything is allocated and never again, and so left out.

### The numeric for loop: `ForNum`, `ForNumLowered`

The body is any sequence of assignments to the index and to the variables that bound and
step were read from, ended normally, by `continue` or by `break`. `range` and `trips` record the
range evaluated at entry and the number of iterations; they are not in the code. The loop that
`bootstrap/lower.py` emits is part of `Lower`.

### From source to process: `Ast`, `Ints`, `Interp`, `Checker`, `Lower`, `IrMachine`, `Pipeline`

`Checker`, `Interp` and `Lower` are recursive operators on syntax trees, one operator for each method
of the code. They thread a record that holds the object's attributes: for the interpreter the
heap (environments, cells, structs, arrays, vectors, maps, all with identity), the pending exception
`sig`, the flag `checked` and what was printed; for the lowering the builder, the finished
functions, the captured names and the stacks of loop targets. An exception of the host language is
an outcome like any other: `"crash"`, as opposed to the program's own `"panic"` and to the
`CardinalError`s `"error"` (interpreter) and `"refused"` (lowering). A label is its hint and its
number, as in `ir.py`; each function counts anew, so a jump to another function's label ends up at
whatever bears that name, if anything does.

The compiled program is a state machine, one action per instruction of the IR (`ExecBin`,
`ExecCallClosure`, ...), with the frames, slots and roots of the C that `backend_c.py` writes.
A slot that is not managed starts as `Uninit`, since the C declares it without a value. Every
allocation collects (`Allocates`): what is not reached from the shadow stack is gone, and an access
to it ends in `"badhandle"`, where `cl_gc_deref` panics. `GcHeap` and `RtRooting` show why this is
what the collector does. What C leaves undefined ends in `"undefined"`.

`Pipeline` starts with any program of `Programs`, takes it through `TypeCheck`, `LowerIr` and
`Build`, and then runs it; `Executions` holds what the interpreter does with the same program. The
interpreter is deterministic, so it needs no states of its own. Both tables are constants that
assumptions (`ExecutionsAssumption`, `CompiledAssumption`) equate with the operators' results;
TLC checks the assumptions on every run.

What the emitter and the host compiler make of a program is in `Compile`: a type that the
emitter knows no spelling for (`HasSpelling`) crashes it, and C that does not compile (`ValidC`) ends
the build in `"badC"`. `Unsupported` says of the checked *tree* which constructs lead there; that it is
right about the passes, in both directions, is the property `UncleanIffUnsupported`.

The operators were compared with the code itself: 241 programs, printed as source text, give the
same verdict of the checker, the same output and ending of the interpreter, and the same outcome of
the compiler and of the compiled program.

### Modules: `ModuleLoading`

`stack` holds the recursive calls of `load_sig` or `load_module` and of the evaluation in progress,
`scopes` the registered modules in order, with the names known so far and the exports so far.
`phase` goes from the checker (`sigs`, `bodies`) to the interpreter (`load`, `run`), as in
`cardinal.py`. A declaration is reduced to the names that its initialiser or body reads: to read
a function calls it. Compared with the code, 11250 projects give the same verdict, scopes
and ending.

### Strings: `RtStrings`

A program with two string variables; `text` holds what the interpreter makes of them, sequences of
code points as in Python, `bytes` what the runtime makes of them, UTF-8. An action is a call that both
carry out: `FromChar` (`chr` and `from_char`), `Concat`, `Substr`, `IntToStr`, `StrToInt`. `panicked`
is the set of those that panicked. The loops over bytes are one function, `Decoded`, of what
`utf8_decode` returns at successive positions. Both overflow on purpose: positions in unsigned,
`str_to_int` in signed numbers, which the build makes wrap (`-fwrapv`). The allocations of these
functions are part of `RtRooting`.

## 3. Runs

| Run | Configuration | Checks | Shows |
|---|---|---|---|
| `gc_safety` | `MCGcHeap.cfg` | `TypeOK`, `FreeListSound`, `AccountingExact`, `MarkingSound`, `CollectionComplete` | Free list, counters and marks stay consistent through growth, collection and reuse, with generations that wrap; a collection leaves exactly what is reachable. |
| `gc_refinement` | `MCGcRefine.cfg` | `ReachableKept`, `ImplementsAbstractHeap`, `CollectionEnds` | While no slot is reused more often than there are generations, this is the abstract heap, pins included; and collections end, on all graphs of three one-field objects that a root and a pin enter. |
| `gc_stale` | `MCGcStale.cfg` | `StaleHandleDetected` | Violated: finding 1. |
| `map_index` | `MCRtMap.cfg` | `TypeOK`, `IndexExact`, `ProbePathUnbroken`, `PutEnds`, `ReadsAgree`, `ImplementsOrderedMap` | Index and entries agree, probe chains have no gaps, the unguarded probe loop ends, and users see an insertion-ordered dictionary. |
| `rooting_containers` | `MCRtRooting.cfg` | `NoDangling`, `ShadowStackBalanced`, `ElementsKept` | Pushing elements and setting, deleting and listing keys survive a collection at every allocation. |
| `rooting_literals` | `MCRtLiterals.cfg` | `NoDangling`, `ShadowStackBalanced` | The same for interned literals, arguments, string functions and file callbacks with their environments. |
| `for_num` | `MCForNum.cfg` | `TypeOK`, `HalfOpenRange`, `LoopEnds`, `ImplementsForNum` | The self-hosted compiler's loop is the interpreter's where the range fits the index type. |
| `for_num_wrap` | `MCForNumWrap.cfg` | `HalfOpenRange` | Violated: finding 2. |
| `pipeline` | `MCPipeline.cfg` | `CompiledAgrees`, `CheckedProgramsDoNotGoWrong`, `NoUndefinedBehaviour`, `NoInvalidHandle`, `ShadowStackBalanced`, `UncleanIffUnsupported`, `StructsNotShared`, `CompiledEnds` | What the bootstrap compiles prints and ends as the interpreter does, keeps its objects through a collection at every allocation, and balances its roots; accepted programs meet no error but a panic; struct values are copied; what is accepted, not refused and still not built has one of the constructs that section 5 lists, and whatever has one is not built. |
| `pipeline_for` | `MCPipelineFor.cfg` | `CompiledAgrees` | Violated: finding 3. |
| `modules` | `MCModuleLoading.cfg` | `TypeOK`, `AcceptedRuns`, `ScopesAgree`, `PrivateHidden`, `LoadingEnds` | Whatever imports what, checker and interpreter come to the same scopes; an accepted project finds its names, but for names that a module overloads (section 5) and for initialisers of modules that lean on a cycle or on later declarations; private names stay private. |
| `strings` | `MCRtStrings.cfg` | `StringsAgree`, `WellFormed`, `OrderOfBytes`, `NumbersReadBack` | However strings are made, runtime and interpreter have the same characters and panic together; bytes are well-formed UTF-8, equal when the strings are, and ordered as `str_lt` says; a number printed is read back. |

### Bounds, and why they are enough

* **Collector.** The table starts with 2 slots and doubles once; index 0 is reserved, so there
  are three objects. That is the least with which the table grows with a used and with an empty
  free list behind it, and three objects form a chain, a cycle and a shared child, all of which the
  program can build from a root and a register. `GenMod` is 2,
  with two reuses of a slot, so that generations wrap; the refinement run allows one reuse, the
  largest number for which it holds. `MaxInc` blocks a collection, not an allocation.
* **Maps.** An index of 4 slots with the code's 0.7 load factor doubles at the third live key. The
  hash functions collide everywhere, nowhere, in pairs, and over the end of the index. Five entries
  with four keys leave room for tombstones before and after a rehash; values do not steer the code,
  so one is enough.
* **Rooting.** `Collects = {TRUE}` collects before every allocation, like the test suite with
  `CARDINAL_GC_THRESHOLD=0`. That is the worst case: which unreachable objects are left over
  decides no branch, so a run that collects less often takes the same steps, and a handle
  that dangles there dangles here at the same step or earlier. The constant also accepts
  `{FALSE, TRUE}`. Two temporaries hold a container and its element (or a map and a string that
  is both key and value); the literals run needs one temporary for a call's argument and result, or for a callback's
  environment, which may be a vector of arguments and so hold objects of its own.
  `MaxObjs` keeps the program to few objects of each kind: two strings give a map two keys and
  either of them as an updated value. The bounds are large enough that no allocation
  *inside* a runtime function ever meets one, even with a literal interned while the intern table
  rehashes, or an argument vector built while an old one is held.
* **For loop.** A signed type of four bits; starts and bounds on both sides of zero, empty ranges,
  steps that divide the range and steps that do not, and a body that assigns the extreme
  values and zero. `MaxTrips` exceeds the longest range, and a loop that ran past it
  would violate `LoopEnds`.
* **Programs.** Every program declares an enum, a struct, a sum type and three functions, and has a
  `main` with an `i32`, a constant, an array and a boolean. In between come two of 19 groups of
  statements, in all orders, from two starting values, so that each group meets the state that
  each other one leaves: wrapping, checked, dividing and bitwise arithmetic, casts over widths and
  signs, short circuits, all loops with `break` and `continue`, shared arrays and index panics,
  closures over locals and parameters, functions as values, enums, early returns, panics. Six groups
  only the interpreter runs (struct variables and vectors of structs, vectors, maps, `match`), alone and
  followed by another group, and seventeen programs must be rejected. 62 programs have a declaration (25)
  or a statement (37, each followed by another group) that the checker accepts and the rest of the
  compiler does not know, or, in sixteen cases, one that only comes near to it. Types have three to five bits, `i32` being four wide,
  so that sums, products and negations overflow in both directions. `Fuel`, the bound on
  iterations and calls of the interpreter, is never used up. Of the 813 programs, 626 run to
  their end and 111 panic when compiled, 17 are refused by the checker and 12 by the lowering; 13 crash the
  lowering or the emitter, and 34 give C that does not compile.
* **Projects.** `main` and two modules, with imports of each other and of themselves, whole or by
  name, of a module that does not exist, in both orders; a constant, a function and a type, exported
  or not, with or without a type annotation, that need each other, across modules or not at all.
* **Strings.** Two strings of up to three characters: the code points on both sides of each length
  of encoding and of the surrogates, a blank, and what `chr` turns down. Numbers and counts have six
  bits, so that three digits overflow, the sum of start and count as well, and the least number has
  digits that are out of range. Signs and digits come from numbers cut and joined.

Deadlock is checked in `pipeline`, `pipeline_for` and `modules`, whose final states have a step of
their own (`Stopped`). Elsewhere it is not: a program may stop, panic, or reach a bound named
in the configuration.

### Fairness

* `GcHeap`: `WF(Collect)`. The collector is a loop of the calling thread; nothing else is enabled
  until it returns, so this only says that the thread keeps running.
* `ForNumLowered`: `WF(Control)` and `WF(EndBody)`. The loop's own instructions are straight-line
  code, and the body is assumed to end. `break` has no fairness: loops end without it.
* `Pipeline` and `ModuleLoading`: `WF(Next)`. Each is one process that does nothing else; `Next`
  is deterministic but for the initial choice.
* The other modules check safety only.

## 4. Proofs

All results are for every value of the constants, under the `ASSUME`s of the modules.

**`Inductions`** holds the lemmas that several proofs rest on: that a function defined by recursion
over an interval exists and has the values its equation says (`Iteration`; `Recursion` when the value
at a number is made of that at any lesser one), that a nonempty set of numbers has a least element
(`LeastNatural`, `MinIsLeast`), that sums over a finite set change with one summand, that a
loop over a sequence which keeps the live entries returns each of them once and in order
(`KeptExists`, `KeepsNext`, `KeptIs`), and what that makes of a sequence to which an entry is appended
or in which one is changed or deleted (`LiveOfAppend`, `LiveOfChange`). What a recursive function
computes is there proved by induction over the *set* of numbers for which it holds, which needs no
theorem with an operator parameter.

**`GcHeapProofs`.** Assumptions: an initial capacity of at least 2, at least one generation,
natural sizes and thresholds. Nothing is assumed of `MaxInc` relative to `GenMod`: the results hold
when generations wrap.

* `TypeCorrect`: `TypeOK`, with slot 0 never in use.
* `FreeListCorrect`: `FreeListSound`. Inductive together with `TypeOK`. The delicate step is
  `AllocGrow`, where the new free list is an enumeration of the new slots but one.
* `MarkingCorrect`: `MarkingSound`. Inductive with the two above. `MarkObject` needs that
  what it marks is a target of a marked, hence reachable, object; `SweepFree` that freeing an
  unmarked slot changes neither the targets of the roots nor those of a marked object, because marks
  are closed under targets; this is where generations could have spoiled the argument and do not.
* `NoReachableObjectFreed`: `ReachableKept`. The slots that the roots *exactly* reach are
  among the targets, and marks are a closed set that holds the roots, so that `SweepFree`, the only step
  that frees, is outside of it.
* `CollectionLeavesReachable`: `CollectionComplete`. At the end of a sweep everything in use is
  marked, and everything marked is reachable.
* `AccountingCorrect`: `AccountingExact`. The counters follow the sum of the sizes in use, one
  slot at a time; the sum over a finite set is an induction over its elements.

**`GcRefinementProofs`.** Assumption `MaxInc < GenMod`, on the theorems and not on the module: no slot
is reused as often as there are generations. Without it both statements are false (finding 1).

* `StaleHandlesDetected`: `StaleHandleDetected`, from the invariant `IncBounded`, that no count of
  reuses exceeds `MaxInc`, and during a collection that of no slot in use reaches it, so that two of them which agree modulo `GenMod` are equal.
* `HeapImplementsAbstract`: `ImplementsAbstractHeap`. Needs `HandlesKnown` besides, that every handle
  held anywhere names an object that exists or existed: an allocation then hands out an identity that
  nothing refers to, as the abstract heap demands. Collection steps are stutters but for `SweepFree`,
  which is the abstract disappearance of one unreachable object; the set reached by the abstract
  heap's paths is shown to be the one that `GcHeapProofs` keeps.

**`RtMapProofs`.** Assumptions: any set of hash functions into the naturals, an index of at least 2
slots and a buffer of at least 1 entry when first allocated. The load factor of 0.7 and the doubling are
the model's.

* `IndexIsExact`, `ProbePathsHold`, `TypeCorrect`: `IndexExact`, `ProbePathUnbroken`, `TypeOK`. They are
  inductive only together and with three more facts, as `MapInv`: live entries have distinct keys, `len`
  is their number, and once there is an index it has more slots than there are live entries. The load
  factor counts live entries only, so that slots of deleted ones may fill all the rest of the index and
  no empty slot be left: the invariant says no more, and the statements below need no more. The rehash
  is an induction over the entries it reinserts, with the same invariant for the index built so far.
* `PutsEnd`: `PutEnds`. A slot without a live entry, empty or deleted, is always left to take.
* `ReadsAgreeAlways`: `ReadsAgree`. Probing stops at the key's own slot, at an empty one or after as
  many slots as there are; that a key in the map is found before either end rests on `ProbePathUnbroken`,
  that it is the only one found on distinct keys.
* `MapImplementsOrdered`: `ImplementsOrderedMap`. A rehash changes the buffer but not the sequence of
  its live entries; setting, overwriting and deleting change it as `Insert`, `Overwrite` and `Remove` do.

**`RtRootingProofs`.** Assumptions: kinds, bounds and constants of the right type; handles are neither
null nor addresses of literals. `Collects` is arbitrary, so that the results hold for any schedule of
collections, not only for the one the runs use.

* `NothingDangles`: `NoDangling`.
* `RootsBalanced`: `ShadowStackBalanced`.
* `ContentsKept`: `ElementsKept`, an action property.

The first two follow from `RtInv`, which adds what `NoDangling` leaves open: *why* what a call holds survives. Per
function and point it says what is on the shadow stack (`Rooted`), that a call's arguments
are temporaries of the emitted frame (`Outermost`) or passed on from those, rooted by the calling
function, interned, or keys of a map that is (`Nested`), that the stack is exactly what the calls in progress have
pushed, and that buffers, entries and indexes have their kinds and lengths (`GoodHeap`). With that,
`OuterKept`, `CallerKept` and `InnerKept` show that an allocation keeps what every call holds; the only
variable that may refer to what is gone, the one that is about to be assigned, is overwritten in the
same step. That a collection keeps what the roots reach is an induction over `Reached`
(`ReachedCloses`), for which there are no more rounds than objects.

`ContentsKept` needs more. `RtInv` does not say that no two containers share a buffer, and with a shared
one a push to one vector would change the other; hence the invariant `EachOwned`, inductive together with
`RtInv`. It is why a buffer just allocated may be published: the variable `x` at `grown`, `compact` and
`regrown` is in no header yet (`HoldsWhat`), so that only the container it is linked into owns it.
`Writes` then reduces a step to one container: every other one has its header and its buffers as they were
(`OthersKeep`). What is left is about sequences (`PushedSeq`, `ShortenedSeq`, `ChangedSeq`, `OneMoreSeq`)
and that what a rehash keeps, it keeps again (`KeptTwice`). An allocation that collects changes no
container that was reached, since the buffers of one that is kept are kept (`AllocatedKeeps`).

**`ForNumProofs`.** Assumption `RangeFits`: steps are positive and the last advance stays within
the type. Without it the statement is false (finding 2).

* `TypeCorrect`: `TypeOK`.
* `CounterCorrect`: `TypeOK` and the invariant `CounterInv`, that the temporaries are the range's and
  the counter is `start + trips * step`, one step behind in the body. The property itself is not
  inductive since it does not say where the counter is.
* `LoopRunsOverRange`: `HalfOpenRange`, from `CounterInv`.
* `LoopImplementsInterpreter`: `ImplementsForNum`; the mapping is `i <- cnt`, and `Wrap` is the
  identity by `CounterInv`.

**`ModuleLoadingProofs`.** Assumption `ProjectsAssumption`: a project has a `main`, and a module
declares a name once. Without the latter an exported and a private declaration could share a name, and
neither checker nor interpreter would tell them apart. Nothing is assumed about imports: they may be
missing, repeated, cyclic, of the module itself.

* `TypeCorrect`: `TypeOK`. Inductive with sequences and records typed; it needs that the module
  numbered `At(m)` is the only one of that name, hence that modules are registered once.
* `PrivacyKept`: `PrivateHidden`. The property speaks of signatures when they are complete, whereas
  names are picked out of signatures that are not, where `exports` may still be empty and everything
  visible. The invariant `Signed` says why this does no harm: a module that has not declared anything
  has nothing in its scope but names from modules that have (`FromDeclared`), and exports are added
  all at once (`Declares`), so a name of a module's own is only ever found together with its export.
  `Building` adds that a module is complete unless `load_sig` is still at work on it, `BodiesBefore`
  that the bodies passed so far read nothing private; together they give `Accepted`, which is what the
  interpreter starts from. It never loads a module that the checker has not seen, since the imports of
  those are among them (`AllImports`).

* `BothAgree`: `ScopesAgree`. The checker fills a scope at once and later, the interpreter declaration
  by declaration, so no state of one is a state of the other. Both follow one *walk* over the imports,
  whose next state is a function of its state as long as nothing is missing (`StepOf`, `CanStep`), and
  `LeadsTo(s, t)` says that the walk comes from `s` to `t` (whatever holds at `s` and is kept by steps
  holds at `t`). The checker without a complaint is the walk itself, from `Started` to the signatures.
  The interpreter `Follows` a state of the walk that leads to the signatures: the same modules are on the
  stack, in the same places of their imports (`CallsFollow`); scopes are equal, but that of the module
  whose declarations are being carried out has them on top of the walk's, up to the one it has come to
  (`ScopesFollow`, `Carried`, `Through`). When the module is complete these are all of them, which is what
  the walk declares in one step. At the end of the walk the scopes are `Same`. This is the invariant
  `WalkInv`, inductive together with `IInv`.
* `AcceptedProjectsRun`: `AcceptedRuns`, from the same invariant, since a failure is a step after which
  nothing happens: what remains is that no step of the interpreter fails but in the ways the property
  names. The interpreter exports only what it has carried out (`ExportsFollow`), and evaluates only
  declarations of modules that are complete, or that are not below the constant being initialised
  (`EvalsFollow`). The walk has come from `Started`, which says all about its states (`Walked`): modules
  on the stack lead by imports to all that were registered after them (`Reaches`), so an import that
  leads nowhere back is off the stack when a declaration of its importer is carried out (`Seen`,
  `ImportOff`), and what is off the stack never changes again (`Moved`). A read that the checker found
  (`ReadAccepted`) is found in such a module (`OffStack`, `SeenAgain`) or among the module's own
  declarations (`OwnName`). `SeenAgain` is where `Overloads` is needed: a name that is among the
  checker's exports stands for a value declared here, which the interpreter exports too, or for one
  that was picked, and then the export can only be of a type (`Settled`, `VisibleAgain`).

Each action of `ModuleLoading` has a lemma of its own for these (`...Keeps`, `...Walks`); the lemmas above
them are about any project and any sequence of scopes, and so serve both walks.

**`RtStringsProofs`.** Assumptions: half the range of the integers is a positive number (`HalfRange`,
2^63 in the code), positions and counts are unsigned numbers of that width, numbers signed ones, and a
string has no more characters than an unsigned number can count. About single code points nothing is
assumed.

* `CodecRoundTrip`: decoding undoes encoding, between any other bytes.
* `EncodingWellFormed`: what is written for a scalar value is `WellFormedBytes`.
* `EncodingKeepsOrder`: `Before` on encodings is `<` on code points.
* `StringsAlwaysAgree`, `AlwaysWellFormed`, `OrdersAlwaysAgree`, `NumbersAlwaysReadBack`:
  `StringsAgree`, `WellFormed`, `OrderOfBytes`, `NumbersReadBack`.

The first three take a code point apart into digits to the base 64 (`Quotients`, `Digits`), find what
each of the four lengths carries (`BytesOne` to `BytesFour`) and then never look at the encoder again.
The others follow from `StrInv`: the bytes of each string *encode* its text (`Encodes`), that is, there
is a function `f` from positions in the text to positions in the bytes such that the k-th character's
encoding stands between `f[k - 1]` and `f[k]`. None of the four properties is inductive, since none says
where characters begin and end in the bytes, on which the result of a cut depends. The lemmas, in order:

* The loop over bytes (`Decoded`) meets the characters at `f` (`CharsAre`), the bytes that do not continue
  are as many as the characters (`LengthIs`), a text has one encoding (`SameBytes`), and every such
  sequence is well-formed (`TextWellFormed`).
* At the first character in which two texts differ, their bytes do so for the first time
  (`CommonPrefix`), and in the same direction (`LessIsBefore`); hence the orders agree (`OrdersAgree`).
* What is joined, cut or trimmed is encoded again (`JoinedEncodes`, `PartEncodes`, `TrimmedEncodes`). A
  cut whose end does not fit into an unsigned number ends where the interpreter's does
  (`SubstrEncodes`).
* ASCII characters are found among bytes as among characters (`AsciiAt`), so that both find the same sign
  and digits or neither does (`NumbersTogether`). Wrapping early changes nothing (`WrapEarly`), so
  wrapping at each digit ends where wrapping the exact sum does (`WrappingIs`, `ReadingsAgree`). The
  digits of a number, found by repeated division, add up to it (`SpelledSpells`), also those of the least
  number, whose negation wraps back (`NumberRead`).

**Only model-checked.** Liveness (`CollectionEnds`, `LoopEnds`, `LoadingEnds`, `CompiledEnds`),
which is out of the prover's reach. The modules of the pipeline stay with TLC: checker,
interpreter and lowering are recursive operators over syntax trees, which the prover does not support.

## 5. Findings

1. `cardinal_gc.c:209`: the 16-bit generation wraps, so "Dereferencing a stale handle is detected
   (generation mismatch) and panics" (`cardinal_gc.h:7`) is not so for a handle that outlives 65536
   reuses of its slot. The collector's own safety does not depend on it (section 4).
2. `lower.cardinal:2421`: the hidden counter wraps at the index type's width. A range such as
   `0u8 to 255u8 step 2` never ends, while the interpreter's loop does, against "HALF-OPEN"
   (`DESIGN.md:605`).
3. `lower.py:448`: the bootstrap compiler counts in the user's index, so that a body that advances
   it runs fewer rounds; bound and step are re-read as well. `tests/FINDINGS.md:96` records the first
   as a bug, which was fixed in `lower.cardinal` only.

The model follows the code in the following cases as well. Each was met while modelling and
reproduced with the code itself; none has a run, and the programs of the `pipeline` run stay clear of
those that would violate one of its properties.

*Interpreter and compiled code disagree*
* `lower.py:453`: a compiled for-in sees elements that its body assigns ahead of it, and the elements
  of another array once the body assigns one to the variable; the interpreter goes over a copy.
* `lower.py:487`: `a[n] = f(..)` evaluates the target first, the interpreter the right-hand side.
* `interpreter.py:1668`: arithmetic with three or more operands is wrapped or trapped once, compiled
  code does it at every step.
* `interpreter.py:1274`: a closure made inside `checked` wraps when interpreted, traps when compiled.
  `DESIGN.md:165` calls `checked` lexical.
* A second `let` of a captured name shares the first one's box; a program without `main` is an error
  in one case and returns 0 in the other; a function that falls off its end returns unit or
  whatever was in the register.
* String literals print nothing but "invalid handle" when compiled with the present runtime
  (`backend_c.py:185` against `cardinal_rt.h:18`); `i32`'s least value divided by -1 and shifts by
  the width or more are undefined in the C that is generated.

*What is accepted and then fails*
* Constants, nested operations on untyped literals, printing a struct and a *field access* on a
  variable or an element that holds a struct are refused, as they should be.
* `lower.py:334`, `backend_c.py:40`: a variable, parameter, result, field or captured name whose type is
  a struct is not refused but gets a type name that is no C (`let p = (P ...)` is enough), and so are a
  store of a struct into an array, an array of structs that is made, read or gone through, and a call
  of a closure whose type mentions one. An array type of structs that is only mentioned compiles.
* Variables, parameters and fields of type `unit`, and elements that are read or set, give C that does
  not compile, two parameters of one name as well. Vectors, maps and sums as parameters, results, fields
  or elements crash the emitter (`NotImplementedError`), a map under an index the lowering.
* `lower.py:358`, `lower.py:360`, `lower.py:672`: `break` and `continue` outside of a loop and `panic` without an argument
  crash the lowering. A `panic` whose argument is an array, a struct or a function gives C that does not
  compile, and so does one that stands for an array or a function (in a `let`, an assignment, an
  argument, an array literal, a `return`), but not as a field of a struct literal.
* `lower.py:358`: a `break` in a lambda that is inside a loop goes to a label of the outer function's
  loop, which the lambda's C does not have, unless a label of its own has the same name.
* `interpreter.py:1587`: an array literal of functions or arrays without an annotation is accepted and
  compiled; the interpreter stops with "cannot infer array element type".
* A negative shift count is an exception of Python in the interpreter.
* `interpreter.py:1193`: an initialiser that reads a later constant is accepted and fails.
* `typecheck.py:247`: a value that a module has picked out of another passes for exported if the
  module exports a type of that name (`Overloads`), since the checker keeps both in one set; the
  interpreter exports no types and stops at the import. The attempt to prove `AcceptedRuns` led to
  this; the property now leaves such modules out, and `AcceptedProjectsRun` proves that with a missing
  `main` and initialisers that lean on a cycle or a later declaration they are all that can go wrong.

*Structs*
* `interpreter.py:1573`: an array literal stores a struct variable without copying it, unlike every
  other store, against "copied on assign/pass" (`DESIGN.md:460`). No program of the `pipeline` run
  does this, so `StructsNotShared` speaks of all the other ways to store a struct.

*Modules*
* `typecheck.py:158`: a constant without a type annotation has no type for the modules that import
  it, nor for functions above it in its own module, and is rejected there.
* `typecheck.py:680`, `interpreter.py:1505`: a path reaches any loaded module, imported or not.
* `interpreter.py:2024`: a module that exports nothing shows everything; `DESIGN.md:720` says
  "Private by default". `PrivateHidden` takes the rule of the code.
* `DESIGN.md:752` leaves open whether cyclic imports are allowed. They are.

## 6. Not modelled, and why

* Lexers and parsers: pure functions of text, better tested.
* Floats, their conversions and printing, characters in the pipeline's programs, the contents of files:
  data that no branch of the modelled code depends on. `RtStrings` takes the bytes of strings that come
  from literals and files to be well-formed; the runtime does not check them.
* The built-in modules other than `io`, inline assembly, the recursion limit of the interpreter.
* In the pipeline: programs of several modules (the checker and interpreter of those are
  `ModuleLoading`; the lowering of imported names is left out), and null values in compiled code.
  Texts: the `to_str` builtin, functions `<T>_to_str` that override how a value is shown
  (`interpreter.py:2037`) and the checker's rule for their signature (`typecheck.py:390`). Names that
  collide: two functions of one name, a parameter `x_1` next to a renamed local `x`. A `main` with a
  parameter, and stores of aggregates where a handle is expected. `Unsupported` and `ValidC` say nothing of these.
* The self-hosted compiler apart from its numeric loop and its frames, and the x86-64 back end: the
  bootstrap's passes are modelled in their place; instruction text and encoding are out of reach.
* Element widths and statistics of the collector; overflow of byte counters, which a process does not
  reach; command lines, benchmarks, tests.

`PROJECT.json` lists each component with its status and the hazards with the properties that cover
them.

## 7. Plan

1. **The self-hosted lowering** as a second `Lower`: its hidden counter, boxes in loops and struct
   variables, against the same interpreter and machine.
2. **Programs of several modules** in the pipeline: callees and types of imported modules.
3. **The lexer's** newlines within brackets, as an operator checked against a reference.
