------------------------------- MODULE GcHeap -------------------------------
(***************************************************************************)
(* The garbage-collected heap of bootstrap/runtime/cardinal_gc.c: a table  *)
(* of slots behind generational handles, a LIFO list of free slots, a      *)
(* shadow stack of precise roots, pinned roots, and a mark-and-sweep       *)
(* collector that an allocation starts once enough bytes were allocated.   *)
(*                                                                         *)
(* The program around it is any program that calls the interface of        *)
(* cardinal_gc.h: it roots variables, allocates, loads and stores through  *)
(* handles, and keeps one handle `reg' in a C variable that is not rooted. *)
(*                                                                         *)
(* A handle word is [idx, inc]. The 16-bit generation that the code packs  *)
(* into it is inc % GenMod, where inc counts how often the slot has been   *)
(* freed; only the generation is ever compared. inc itself lets the        *)
(* properties tell an object from a later tenant of the same slot.         *)
(* Sizes and byte counters are in 8-byte words, the unit of the scan.      *)
(***************************************************************************)
EXTENDS Integers, Sequences, FiniteSets, Functions

CONSTANTS
  InitCap,      \* slots of the first handle table (64 in the code)
  MaxCap,       \* the table size beyond which realloc fails
  GenMod,       \* number of distinct generations (2^16 in the code)
  MaxInc,       \* bound: no collection starts once a slot was freed so often
  Sizes,        \* object sizes asked for, in words
  Thresholds,   \* values of CARDINAL_GC_THRESHOLD, in words
  MaxRoots,     \* bound on the depth of the shadow stack
  MaxPins       \* bound on the number of pinned roots

ASSUME InitCapAssumption == InitCap \in Nat /\ InitCap >= 2
ASSUME MaxCapAssumption == MaxCap \in Nat
ASSUME GenModAssumption == GenMod \in Nat \ {0}
ASSUME MaxIncAssumption == MaxInc \in Nat
ASSUME SizesAssumption == Sizes \subseteq Nat
ASSUME ThresholdsAssumption == Thresholds \subseteq Nat
ASSUME MaxRootsAssumption == MaxRoots \in Nat /\ MaxPins \in Nat

VARIABLES
  cap,          \* g_cap
  used,         \* the slots with cl_slot.used set
  inc,          \* slot |-> times freed; cl_slot.generation is inc % GenMod
  words,        \* slot |-> the words of the object at cl_slot.ptr
  marked,       \* the slots with cl_slot.mark set
  free,         \* g_free: the stack of free slots, its top last
  work,         \* g_work: marked slots still to be scanned
  live,         \* g_live
  bytesLive,    \* g_bytes_live
  since,        \* g_bytes_since_gc
  threshold,    \* g_threshold
  minThreshold, \* g_min_threshold
  roots,        \* contents of the variables on the shadow stack
  pins,         \* contents of the pinned variables
  reg,          \* a handle held in a C variable that is no root
  pc,           \* where the (single) thread is
  cursor,       \* the sweep's loop variable
  pending       \* size of the allocation that started the collection

table == <<cap, used, inc, words>>
counters == <<live, bytesLive, since, threshold, minThreshold>>
program == <<roots, pins, reg>>
collector == <<marked, work, cursor, pending>>
vars == <<table, free, counters, program, collector, pc>>

Index == 0 .. cap - 1
Word == [idx : Nat, inc : Nat]
Null == [idx |-> 0, inc |-> 0]
MK_HANDLE(i, n) == [idx |-> i, inc |-> n]
NoAlloc == -1

RootWords == Range(roots) \cup Range(pins)
Held == {reg} \cup RootWords

valid_handle(w) ==
  /\ w # Null
  /\ w.idx < cap
  /\ w.idx \in used
  /\ w.inc % GenMod = inc[w.idx] % GenMod

\* The slots scan_range finds in a range that holds these words.
Targets(ws) == {w.idx : w \in {x \in ws : valid_handle(x)}}

-----------------------------------------------------------------------------
Init ==
  /\ cap = 0 /\ used = {} /\ inc = [i \in {} |-> 0] /\ words = [i \in {} |-> << >>]
  /\ marked = {} /\ free = << >> /\ work = {}
  /\ live = 0 /\ bytesLive = 0 /\ since = 0
  /\ threshold \in Thresholds /\ minThreshold = threshold
  /\ roots = << >> /\ pins = << >> /\ reg = Null
  /\ pc = "run" /\ cursor = 0 /\ pending = NoAlloc

-----------------------------------------------------------------------------
(* cl_panic_cstr: the process exits.                                       *)
Panic ==
  /\ pc' = "panic"
  /\ UNCHANGED <<table, free, counters, program, collector>>

(* cl_gc_alloc. The collection, when one is due, runs to its end first.    *)
AllocReady(n) ==
  \/ pc = "run" /\ n \in Sizes /\ since <= threshold
  \/ pc = "alloc" /\ n = pending

\* The new object takes slot i; the handle is returned in a C variable.
Place(i, n) ==
  /\ used' = used \cup {i}
  /\ marked' = marked \ {i}
  /\ live' = live + 1
  /\ bytesLive' = bytesLive + n
  /\ since' = since + n
  /\ reg' = MK_HANDLE(i, inc'[i])
  /\ pc' = "run"
  /\ pending' = NoAlloc
  /\ UNCHANGED <<threshold, minThreshold, roots, pins, work, cursor>>

AllocReuse(n) ==
  /\ AllocReady(n)
  /\ free # << >>
  /\ free' = SubSeq(free, 1, Len(free) - 1)
  /\ words' = [words EXCEPT ![free[Len(free)]] = [f \in 1..n |-> Null]]
  /\ UNCHANGED <<cap, inc>>
  /\ Place(free[Len(free)], n)

GrownCap == IF cap = 0 THEN InitCap ELSE 2 * cap
FirstNew_Zero == cap    \* mutant: index 0 is handed out
FirstNew == IF cap = 0 THEN 1 ELSE cap      \* index 0 stays reserved for null

\* mutant: the slot handed out is seeded into the free list as well
AllocGrow_SeedsFirst(n) ==
  /\ AllocReady(n)
  /\ free = << >>
  /\ GrownCap <= MaxCap
  /\ cap' = GrownCap
  /\ free' = [k \in 1 .. GrownCap - FirstNew |-> FirstNew + k - 1]
  /\ inc' = [i \in 0 .. GrownCap - 1 |-> IF i < cap THEN inc[i] ELSE 0]
  /\ words' = [i \in 0 .. GrownCap - 1 |->
                 IF i = FirstNew THEN [f \in 1..n |-> Null]
                 ELSE IF i < cap THEN words[i] ELSE << >>]
  /\ Place(FirstNew, n)

AllocGrow(n) ==
  /\ AllocReady(n)
  /\ free = << >>
  /\ GrownCap <= MaxCap
  /\ cap' = GrownCap
  /\ free' = [k \in 1 .. GrownCap - FirstNew - 1 |-> FirstNew + k]
  /\ inc' = [i \in 0 .. GrownCap - 1 |-> IF i < cap THEN inc[i] ELSE 0]
  /\ words' = [i \in 0 .. GrownCap - 1 |->
                 IF i = FirstNew THEN [f \in 1..n |-> Null]
                 ELSE IF i < cap THEN words[i] ELSE << >>]
  /\ Place(FirstNew, n)

AllocOutOfMemory(n) ==
  /\ AllocReady(n)
  /\ free = << >>
  /\ GrownCap > MaxCap
  /\ Panic

-----------------------------------------------------------------------------
(* cl_gc_collect: nothing else runs until it returns.                      *)

\* mutant: the pinned roots are not scanned
BeginCollect_SkipsPins(n) ==
  /\ \A i \in used : inc[i] < MaxInc
  /\ marked' = Targets(Range(roots))
  /\ work' = Targets(Range(roots))
  /\ pending' = n
  /\ pc' = "mark"
  /\ UNCHANGED <<table, free, counters, program, cursor>>

\* Clear the marks and the worklist, then scan the shadow stack and the pins.
BeginCollect(n) ==
  /\ \A i \in used : inc[i] < MaxInc
  /\ marked' = Targets(RootWords)
  /\ work' = Targets(RootWords)
  /\ pending' = n
  /\ pc' = "mark"
  /\ UNCHANGED <<table, free, counters, program, cursor>>

cl_gc_collect == pc = "run" /\ BeginCollect(NoAlloc)

AllocCollects(n) ==
  /\ pc = "run" /\ n \in Sizes
  /\ since > threshold
  /\ BeginCollect(n)

\* mutant: an object that is already marked is queued again
MarkObject_Requeues(i) ==
  /\ pc = "mark"
  /\ i \in work
  /\ LET found == Targets(Range(words[i]))
     IN  /\ marked' = marked \cup found
         /\ work' = (work \ {i}) \cup found
  /\ UNCHANGED <<table, free, counters, program, cursor, pending, pc>>

\* mutant: what the object refers to is marked but never scanned itself
MarkObject_Shallow(i) ==
  /\ pc = "mark"
  /\ i \in work
  /\ marked' = marked \cup Targets(Range(words[i]))
  /\ work' = work \ {i}
  /\ UNCHANGED <<table, free, counters, program, cursor, pending, pc>>

\* Scan one object taken from the worklist. The code takes the newest entry;
\* the model any, since only the set of marked slots is used afterwards.
MarkObject(i) ==
  /\ pc = "mark"
  /\ i \in work
  /\ LET found == Targets(Range(words[i])) \ marked
     IN  /\ marked' = marked \cup found
         /\ work' = (work \ {i}) \cup found
  /\ UNCHANGED <<table, free, counters, program, cursor, pending, pc>>

\* mutant: the sweep starts one slot too far
MarkDone_SkipsFirst ==
  /\ pc = "mark"
  /\ work = {}
  /\ pc' = "sweep"
  /\ cursor' = 2
  /\ UNCHANGED <<table, free, counters, program, marked, work, pending>>

MarkDone ==
  /\ pc = "mark"
  /\ work = {}
  /\ pc' = "sweep"
  /\ cursor' = 1
  /\ UNCHANGED <<table, free, counters, program, marked, work, pending>>

\* mutant: the slot is freed and its generation is left alone
SweepFree_SameGeneration ==
  /\ pc = "sweep" /\ cursor < cap
  /\ cursor \in used \ marked
  /\ used' = used \ {cursor}
  /\ words' = [words EXCEPT ![cursor] = << >>]
  /\ bytesLive' = bytesLive - Len(words[cursor])
  /\ live' = live - 1
  /\ free' = Append(free, cursor)
  /\ cursor' = cursor + 1
  /\ UNCHANGED <<cap, inc, since, threshold, minThreshold, program, marked,
                 work, pending, pc>>

\* mutant: the size is read after the object was cleared
SweepFree_KeepsBytes ==
  /\ pc = "sweep" /\ cursor < cap
  /\ cursor \in used \ marked
  /\ used' = used \ {cursor}
  /\ words' = [words EXCEPT ![cursor] = << >>]
  /\ inc' = [inc EXCEPT ![cursor] = @ + 1]
  /\ bytesLive' = bytesLive - Len(words'[cursor])
  /\ live' = live - 1
  /\ free' = Append(free, cursor)
  /\ cursor' = cursor + 1
  /\ UNCHANGED <<cap, since, threshold, minThreshold, program, marked, work,
                 pending, pc>>

SweepFree ==
  /\ pc = "sweep" /\ cursor < cap
  /\ cursor \in used \ marked
  /\ used' = used \ {cursor}
  /\ words' = [words EXCEPT ![cursor] = << >>]
  /\ inc' = [inc EXCEPT ![cursor] = @ + 1]
  /\ bytesLive' = bytesLive - Len(words[cursor])
  /\ live' = live - 1
  /\ free' = Append(free, cursor)
  /\ cursor' = cursor + 1
  /\ UNCHANGED <<cap, since, threshold, minThreshold, program, marked, work,
                 pending, pc>>

SweepKeep ==
  /\ pc = "sweep" /\ cursor < cap
  /\ cursor \notin used \ marked
  /\ cursor' = cursor + 1
  /\ UNCHANGED <<table, free, counters, program, marked, work, pending, pc>>

AdaptedThreshold ==
  IF bytesLive * 2 < minThreshold THEN minThreshold ELSE bytesLive * 2

SweepDone ==
  /\ pc = "sweep" /\ cursor >= cap
  /\ since' = 0
  /\ threshold' = AdaptedThreshold
  /\ pc' = IF pending = NoAlloc THEN "run" ELSE "alloc"
  /\ UNCHANGED <<table, free, live, bytesLive, minThreshold, program, collector>>

-----------------------------------------------------------------------------
(* The program. It owns the variables whose addresses it roots.            *)
Running == pc = "run" /\ UNCHANGED <<table, free, collector>>

\* Emitted frames root variables they have set to zero; the runtime roots a
\* variable that holds a fresh handle.
cl_gc_push_root(w) ==
  /\ Running
  /\ Len(roots) < MaxRoots
  /\ w \in {Null, reg}
  /\ roots' = Append(roots, w)
  /\ UNCHANGED <<counters, pins, reg, pc>>

cl_gc_pop_roots(n) ==
  /\ Running
  /\ n \in 1 .. Len(roots)
  /\ roots' = SubSeq(roots, 1, Len(roots) - n)
  /\ UNCHANGED <<counters, pins, reg, pc>>

cl_gc_pin ==
  /\ Running
  /\ Len(pins) < MaxPins
  /\ pins' = Append(pins, reg)
  /\ UNCHANGED <<counters, roots, reg, pc>>

\* An assignment to, or a read of, a rooted variable.
AssignRoot(k) ==
  /\ Running
  /\ k \in DOMAIN roots
  /\ roots' = [roots EXCEPT ![k] = reg]
  /\ UNCHANGED <<counters, pins, reg, pc>>

ReadRoot(w) ==
  /\ Running
  /\ w \in RootWords
  /\ reg' = w
  /\ UNCHANGED <<counters, roots, pins, pc>>

\* cl_gc_deref, then a load from a field or a store to it.
Load(h, f) ==
  /\ Running
  /\ h \in Held /\ valid_handle(h)
  /\ f \in DOMAIN words[h.idx]
  /\ reg' = words[h.idx][f]
  /\ UNCHANGED <<counters, roots, pins, pc>>

Store(h, f, w) ==
  /\ pc = "run"
  /\ h \in Held /\ valid_handle(h)
  /\ f \in DOMAIN words[h.idx]
  /\ w \in Held
  /\ words' = [words EXCEPT ![h.idx][f] = w]
  /\ UNCHANGED <<cap, used, inc, free, counters, program, collector, pc>>

DerefPanics(h) ==
  /\ pc = "run"
  /\ h \in Held /\ ~valid_handle(h)
  /\ Panic

cl_gc_set_threshold(t) ==
  /\ Running
  /\ t \in Thresholds
  /\ threshold' = t /\ minThreshold' = t
  /\ UNCHANGED <<live, bytesLive, since, program, pc>>

-----------------------------------------------------------------------------
Collect ==
  \/ \E i \in work : MarkObject(i)
  \/ MarkDone
  \/ SweepFree
  \/ SweepKeep
  \/ SweepDone

Allocate ==
  \E n \in Sizes :
    \/ AllocCollects(n)
    \/ AllocReuse(n)
    \/ AllocGrow(n)
    \/ AllocOutOfMemory(n)

Program ==
  \/ \E w \in {Null, reg} : cl_gc_push_root(w)
  \/ \E n \in 1 .. Len(roots) : cl_gc_pop_roots(n)
  \/ cl_gc_pin
  \/ \E k \in DOMAIN roots : AssignRoot(k)
  \/ \E w \in RootWords : ReadRoot(w)
  \/ \E h \in {w \in Held : valid_handle(w)} :
        \E f \in DOMAIN words[h.idx] :
          Load(h, f) \/ \E w \in Held : Store(h, f, w)
  \/ \E h \in Held : DerefPanics(h)
  \/ \E t \in Thresholds : cl_gc_set_threshold(t)
  \/ cl_gc_collect

Next == Allocate \/ Collect \/ Program

\* The collector is a loop of the calling thread: once entered it runs on.
Spec == Init /\ [][Next]_vars /\ WF_vars(Collect)

-----------------------------------------------------------------------------
(* Properties                                                              *)

\* The slots whose present object these words refer to (no earlier tenant).
Refs(ws) == {i \in used : MK_HANDLE(i, inc[i]) \in ws}

\* The smallest set of slots in use that holds what the roots refer to and is
\* closed under following the words of an object.
Reachable(Ref(_)) ==
  {i \in used : \A S \in SUBSET used :
      /\ Ref(RootWords) \subseteq S
      /\ \A p \in S : Ref(Range(words[p])) \subseteq S
      => i \in S}

\* Types and ranges of the globals of cardinal_gc.c; slot 0 is never in use.
TableType ==
  /\ cap \in Nat
  /\ used \in SUBSET (1 .. cap - 1)
  /\ inc \in [Index -> Nat]
  /\ words \in [Index -> Seq(Word)]
  /\ free \in Seq(1 .. cap - 1)

CounterType ==
  /\ live \in Int /\ bytesLive \in Int /\ since \in Nat
  /\ threshold \in Int /\ minThreshold \in Nat

ProgramType == roots \in Seq(Word) /\ pins \in Seq(Word) /\ reg \in Word

CollectorType ==
  /\ marked \in SUBSET (1 .. cap - 1)
  /\ work \in SUBSET (1 .. cap - 1)
  /\ cursor \in Nat
  /\ pending \in Sizes \cup {NoAlloc}
  /\ pc \in {"run", "mark", "sweep", "alloc", "panic"}

TypeOK == TableType /\ CounterType /\ ProgramType /\ CollectorType

\* Every slot but slot 0 is either in use or exactly once on the free list, so
\* alloc_slot never gives one slot to two objects and never loses a slot.
FreeListSound ==
  /\ IsInjective(free)
  /\ Range(free) \cap used = {}
  /\ Range(free) \cup used = 1 .. cap - 1

\* g_live and g_bytes_live, decremented slot by slot during a sweep, are the
\* number and the total size of the objects in use.
AccountingExact ==
  /\ live = Cardinality(used)
  /\ bytesLive = SumFunctionOnSet([i \in used |-> Len(words[i])], used)
  /\ pc # "sweep" => since <= bytesLive

\* Marking is tri-coloured: what the roots refer to is marked, and so is what a
\* marked object off the worklist refers to; nothing unreachable is marked.
\* A sweep finds the marks closed, and leaves no unmarked object behind it.
MarkingSound ==
  /\ pc \in {"mark", "sweep"} =>
       /\ work \subseteq marked /\ marked \subseteq used
       /\ Targets(RootWords) \subseteq marked
       /\ \A i \in marked \ work : Targets(Range(words[i])) \subseteq marked
       /\ marked \subseteq Reachable(Targets)
  /\ pc = "sweep" =>
       /\ work = {}
       /\ \A i \in used : i < cursor => i \in marked

\* No step of the runtime frees, or gives a new generation to, an object that
\* the shadow stack or a pinned root still reaches.
ReachableKept ==
  [][\A i \in Reachable(Refs) : i \in used' /\ inc'[i] = inc[i]]_vars

\* When cl_gc_collect returns, the objects left are exactly the ones that
\* words of roots or of reachable objects refer to: all garbage is gone.
CollectionComplete ==
  [][pc = "sweep" /\ pc' # "sweep" => used' = Reachable(Targets)']_vars

\* A collection ends: the worklist drains and the sweep reaches the table's end.
CollectionEnds == pc = "mark" ~> pc \in {"run", "alloc"}

\* "Dereferencing a stale handle is detected (generation mismatch) and panics":
\* a handle that cl_gc_deref accepts refers to the object it was made for.
StaleHandleDetected ==
  \A w \in Held : valid_handle(w) => w.inc = inc[w.idx]

\* The handle heap is an AbstractHeap whose objects are the slots' tenants.
Tenants == [h \in {MK_HANDLE(i, inc[i]) : i \in used} |-> words[h.idx]]

PastTenants ==
  {h \in [idx : Index, inc : 0 .. MaxInc] :
     h.inc < inc[h.idx] \/ (h.idx \in used /\ h.inc = inc[h.idx])}

Abstract == INSTANCE AbstractHeap WITH
  objs <- Tenants, born <- PastTenants, halted <- (pc = "panic")

\* What the runtime's heap promises its users: see AbstractHeap.
ImplementsAbstractHeap == Abstract!Spec
=============================================================================
