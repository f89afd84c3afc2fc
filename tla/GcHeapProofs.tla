---------------------------- MODULE GcHeapProofs ----------------------------
(***************************************************************************)
(* Proofs about the collector of cardinal_gc.c, for every table size,      *)
(* generation width, object size, threshold and shadow-stack depth.        *)
(***************************************************************************)
EXTENDS GcHeap, Inductions, SequenceTheorems, TLAPS

USE DEF Index, NoAlloc

(* What scan_range finds is in use.                                        *)
LEMMA TargetsUsed == ASSUME NEW ws PROVE Targets(ws) \subseteq used
  BY DEF Targets, valid_handle

(* A word that is the current handle of a slot in use is a valid handle.   *)
LEMMA RefsAreTargets ==
  ASSUME TypeOK, NEW ws
  PROVE  Refs(ws) \subseteq Targets(ws)
<1> SUFFICES ASSUME NEW i \in used, MK_HANDLE(i, inc[i]) \in ws
             PROVE  i \in Targets(ws)
  BY DEF Refs
<1>1. i \in 1 .. cap - 1 /\ inc[i] \in Nat /\ cap \in Nat
  BY DEF TypeOK, TableType
<1>2. valid_handle(MK_HANDLE(i, inc[i])) /\ MK_HANDLE(i, inc[i]).idx = i
  BY <1>1 DEF valid_handle, Null, MK_HANDLE
<1> QED
  BY <1>2 DEF Targets

LEMMA NullWord == Null \in Word
  BY DEF Null, Word

(* Popping a non-empty stack returns an element and leaves a stack.        *)
LEMMA PopTop ==
  ASSUME NEW S, NEW s \in Seq(S), s # << >>
  PROVE  /\ Len(s) \in Nat \ {0} /\ s[Len(s)] \in S
         /\ SubSeq(s, 1, Len(s) - 1) \in Seq(S)
  BY EmptySeq, LenProperties

-----------------------------------------------------------------------------
(* The globals keep their types; in particular slot 0 is never in use.     *)
LEMMA InitType == Init => TypeOK
  BY ThresholdsAssumption
     DEF Init, TypeOK, TableType, CounterType, ProgramType, CollectorType,
         Word, Null

LEMMA GrowthBounds ==
  ASSUME cap \in Nat
  PROVE  /\ GrownCap \in Nat /\ FirstNew \in Nat
         /\ cap <= GrownCap
         /\ 1 <= FirstNew /\ FirstNew < GrownCap
         /\ cap <= FirstNew
  BY InitCapAssumption DEF GrownCap, FirstNew

(* Each part of the type invariant depends on its own variables only.      *)
LEMMA TypeStutters ==
  /\ TableType /\ UNCHANGED <<table, free>> => TableType'
  /\ CounterType /\ UNCHANGED counters => CounterType'
  /\ ProgramType /\ UNCHANGED program => ProgramType'
  /\ CollectorType /\ UNCHANGED <<cap, collector, pc>> => CollectorType'
<1>1. TableType /\ UNCHANGED <<table, free>> => TableType'
  BY DEF TableType, table
<1>2. CounterType /\ UNCHANGED counters => CounterType'
  BY DEF CounterType, counters
<1>3. ProgramType /\ UNCHANGED program => ProgramType'
  BY DEF ProgramType, program
<1>4. CollectorType /\ UNCHANGED <<cap, collector, pc>> => CollectorType'
  BY DEF CollectorType, collector
<1> QED
  BY <1>1, <1>2, <1>3, <1>4

LEMMA PanicType == TypeOK /\ Panic => TypeOK'
<1> SUFFICES ASSUME TypeOK, Panic PROVE TypeOK'
  OBVIOUS
<1>1. CollectorType'
  BY DEF Panic, TypeOK, CollectorType, table, collector
<1> QED
  BY <1>1, TypeStutters DEF Panic, TypeOK

(* A new object: the slot, the counters and the handle that is returned.   *)
LEMMA PlaceType ==
  ASSUME TypeOK, NEW c \in Nat, NEW i \in 1 .. c - 1, NEW n \in Sizes,
         Place(i, n), cap <= c, cap' = c, inc' \in [0 .. c - 1 -> Nat]
  PROVE  /\ used' \in SUBSET (1 .. c - 1)
         /\ CounterType' /\ ProgramType' /\ CollectorType'
<1>1. n \in Nat /\ cap \in Nat
  BY SizesAssumption DEF TypeOK, TableType
<1>2. 1 .. cap - 1 \subseteq 1 .. c - 1
  BY <1>1
<1>3. used' \in SUBSET (1 .. c - 1)
  BY <1>2 DEF Place, TypeOK, TableType
<1>4. CounterType'
  BY <1>1 DEF Place, TypeOK, CounterType
<1>5. ProgramType'
  <2>1. inc'[i] \in Nat /\ i \in Nat
    OBVIOUS
  <2> QED
    BY <2>1 DEF Place, TypeOK, ProgramType, MK_HANDLE, Word
<1>6. CollectorType'
  BY <1>2 DEF Place, TypeOK, CollectorType
<1> QED
  BY <1>3, <1>4, <1>5, <1>6

LEMMA AllocReuseType ==
  ASSUME TypeOK, NEW n \in Sizes, AllocReuse(n)
  PROVE  TypeOK'
<1> DEFINE i == free[Len(free)]
<1>1. free \in Seq(1 .. cap - 1) /\ cap \in Nat /\ inc \in [Index -> Nat]
      /\ words \in [Index -> Seq(Word)]
  BY DEF TypeOK, TableType
<1>2. i \in 1 .. cap - 1 /\ free' \in Seq(1 .. cap - 1)
  BY <1>1, PopTop DEF AllocReuse
<1>3. cap' = cap /\ inc' = inc /\ Place(i, n)
  BY DEF AllocReuse
<1>4. /\ used' \in SUBSET (1 .. cap - 1)
      /\ CounterType' /\ ProgramType' /\ CollectorType'
  <2>1. cap <= cap /\ i \in 1 .. cap - 1
    BY <1>1, <1>2
  <2> QED
    BY <1>1, <1>3, <2>1, PlaceType
<1>5. [f \in 1..n |-> Null] \in Seq(Word)
  BY SizesAssumption, NullWord
<1>6. words' \in [Index -> Seq(Word)]
  BY <1>1, <1>5 DEF AllocReuse
<1> QED
  BY <1>1, <1>2, <1>3, <1>4, <1>6 DEF TypeOK, TableType

LEMMA AllocGrowType ==
  ASSUME TypeOK, NEW n \in Sizes, AllocGrow(n)
  PROVE  TypeOK'
<1>1. cap \in Nat /\ inc \in [Index -> Nat] /\ words \in [Index -> Seq(Word)]
  BY DEF TypeOK, TableType
<1>2. /\ GrownCap \in Nat /\ FirstNew \in Nat /\ cap <= GrownCap
      /\ 1 <= FirstNew /\ FirstNew < GrownCap /\ cap <= FirstNew
  BY <1>1, GrowthBounds
<1>3. cap' = GrownCap /\ Place(FirstNew, n)
  BY DEF AllocGrow
<1>4. inc' \in [0 .. GrownCap - 1 -> Nat]
  BY <1>1, <1>2, <1>3 DEF AllocGrow
<1>5. [f \in 1..n |-> Null] \in Seq(Word) /\ << >> \in Seq(Word)
  BY SizesAssumption, NullWord
<1>6. words' \in [0 .. GrownCap - 1 -> Seq(Word)]
  BY <1>1, <1>2, <1>3, <1>5 DEF AllocGrow
<1>7. free' \in Seq(1 .. GrownCap - 1)
  <2> DEFINE m == GrownCap - FirstNew - 1
             e(k) == FirstNew + k
  <2>1. m \in Nat /\ \A k \in 1 .. m : e(k) \in 1 .. GrownCap - 1
    BY <1>2
  <2>2. [k \in 1 .. m |-> e(k)] \in Seq(1 .. GrownCap - 1)
    <3> HIDE DEF m, e
    <3> QED
      BY <2>1, IsASeq
  <2> QED
    BY <2>2 DEF AllocGrow
<1>8. /\ used' \in SUBSET (1 .. GrownCap - 1)
      /\ CounterType' /\ ProgramType' /\ CollectorType'
  <2>1. FirstNew \in 1 .. GrownCap - 1
    BY <1>2
  <2> QED
    BY <1>2, <1>3, <1>4, <2>1, PlaceType
<1> QED
  BY <1>2, <1>3, <1>4, <1>6, <1>7, <1>8 DEF TypeOK, TableType

LEMMA BeginCollectType ==
  ASSUME TypeOK, NEW n \in Sizes \cup {NoAlloc}, BeginCollect(n)
  PROVE  TypeOK'
<1>1. Targets(RootWords) \in SUBSET (1 .. cap - 1)
  BY TargetsUsed DEF TypeOK, TableType
<1>2. CollectorType'
  BY <1>1 DEF BeginCollect, TypeOK, CollectorType, table
<1> QED
  BY <1>2, TypeStutters DEF BeginCollect, TypeOK

LEMMA CollectType == TypeOK /\ Collect => TypeOK'
<1> SUFFICES ASSUME TypeOK, Collect PROVE TypeOK'
  OBVIOUS
<1>1. ASSUME NEW i \in work, MarkObject(i) PROVE TypeOK'
  <2>1. Targets(Range(words[i])) \in SUBSET (1 .. cap - 1)
    BY TargetsUsed DEF TypeOK, TableType
  <2>2. CollectorType'
    BY <1>1, <2>1 DEF MarkObject, TypeOK, CollectorType, table
  <2> QED
    BY <1>1, <2>2, TypeStutters DEF MarkObject, TypeOK
<1>2. CASE MarkDone
  <2>1. CollectorType'
    BY <1>2 DEF MarkDone, TypeOK, CollectorType, table
  <2> QED
    BY <1>2, <2>1, TypeStutters DEF MarkDone, TypeOK
<1>3. CASE SweepFree
  <2>1. /\ cap \in Nat /\ used \in SUBSET (1 .. cap - 1) /\ inc \in [Index -> Nat]
        /\ words \in [Index -> Seq(Word)] /\ free \in Seq(1 .. cap - 1)
    BY DEF TypeOK, TableType
  <2>2. cursor \in 1 .. cap - 1 /\ cap' = cap
    BY <1>3, <2>1 DEF SweepFree
  <2>3. words' \in [Index -> Seq(Word)] /\ inc' \in [Index -> Nat]
    <3>1. words' = [words EXCEPT ![cursor] = << >>] /\ << >> \in Seq(Word)
      BY <1>3 DEF SweepFree
    <3>2. inc' = [inc EXCEPT ![cursor] = inc[cursor] + 1] /\ inc[cursor] + 1 \in Nat
      BY <1>3, <2>1, <2>2 DEF SweepFree
    <3> QED
      BY <2>1, <3>1, <3>2
  <2>4. free' \in Seq(1 .. cap - 1) /\ used' \in SUBSET (1 .. cap - 1)
    BY <1>3, <2>1, <2>2, AppendProperties DEF SweepFree
  <2>5. TableType'
    BY <2>1, <2>2, <2>3, <2>4 DEF TableType
  <2>6. Len(words[cursor]) \in Nat
    BY <2>1, <2>2, LenProperties
  <2>7. CounterType'
    BY <1>3, <2>6 DEF SweepFree, TypeOK, CounterType
  <2>8. CollectorType'
    BY <1>3 DEF SweepFree, TypeOK, CollectorType
  <2> QED
    BY <1>3, <2>5, <2>7, <2>8, TypeStutters DEF SweepFree, TypeOK
<1>4. CASE SweepKeep
  <2>1. CollectorType'
    BY <1>4 DEF SweepKeep, TypeOK, CollectorType, table
  <2> QED
    BY <1>4, <2>1, TypeStutters DEF SweepKeep, TypeOK
<1>5. CASE SweepDone
  <2>1. CollectorType'
    BY <1>5 DEF SweepDone, TypeOK, CollectorType, table, collector
  <2>2. CounterType'
    BY <1>5 DEF SweepDone, AdaptedThreshold, TypeOK, CounterType
  <2> QED
    BY <1>5, <2>1, <2>2, TypeStutters DEF SweepDone, TypeOK
<1> QED
  BY <1>1, <1>2, <1>3, <1>4, <1>5 DEF Collect

(* The words a program holds are handle words.                             *)
LEMMA HeldWords ==
  ASSUME TypeOK
  PROVE  RootWords \subseteq Word /\ Held \subseteq Word
<1>1. roots \in Seq(Word) /\ pins \in Seq(Word) /\ reg \in Word
  BY DEF TypeOK, ProgramType
<1>2. Range(roots) \subseteq Word /\ Range(pins) \subseteq Word
  BY <1>1, LenProperties DEF Range
<1> QED
  BY <1>1, <1>2 DEF RootWords, Held

LEMMA ProgramStepType == TypeOK /\ Program => TypeOK'
<1> SUFFICES ASSUME TypeOK, Program PROVE TypeOK'
  OBVIOUS
<1>0. /\ roots \in Seq(Word) /\ pins \in Seq(Word) /\ reg \in Word
      /\ Null \in Word /\ Len(roots) \in Nat /\ DOMAIN roots = 1 .. Len(roots)
  BY LenProperties, NullWord DEF TypeOK, ProgramType
<1>1. ASSUME Running, UNCHANGED <<counters, pc>>, ProgramType' PROVE TypeOK'
  BY <1>1, TypeStutters DEF Running, TypeOK, table
<1>2. ASSUME NEW w \in {Null, reg}, cl_gc_push_root(w) PROVE TypeOK'
  <2>1. ProgramType'
    BY <1>0, <1>2, AppendProperties DEF cl_gc_push_root, ProgramType
  <2> QED
    BY <1>1, <1>2, <2>1 DEF cl_gc_push_root
<1>3. ASSUME NEW n \in 1 .. Len(roots), cl_gc_pop_roots(n) PROVE TypeOK'
  <2>1. roots' \in Seq(Word)
    <3>1. \A k \in 1 .. Len(roots) - n : roots[k] \in Word
      BY <1>0, <1>3, LenProperties
    <3> QED
      BY <1>0, <1>3, <3>1, SubSeqProperties DEF cl_gc_pop_roots
  <2>2. ProgramType'
    BY <1>0, <1>3, <2>1 DEF cl_gc_pop_roots, ProgramType
  <2> QED
    BY <1>1, <1>3, <2>2 DEF cl_gc_pop_roots
<1>4. CASE cl_gc_pin
  <2>1. ProgramType'
    BY <1>0, <1>4, AppendProperties DEF cl_gc_pin, ProgramType
  <2> QED
    BY <1>1, <1>4, <2>1 DEF cl_gc_pin
<1>5. ASSUME NEW k \in DOMAIN roots, AssignRoot(k) PROVE TypeOK'
  <2>1. ProgramType'
    BY <1>0, <1>5, ExceptSeq DEF AssignRoot, ProgramType
  <2> QED
    BY <1>1, <1>5, <2>1 DEF AssignRoot
<1>6. ASSUME NEW w \in RootWords, ReadRoot(w) PROVE TypeOK'
  <2>1. ProgramType'
    BY <1>0, <1>6, HeldWords DEF ReadRoot, ProgramType
  <2> QED
    BY <1>1, <1>6, <2>1 DEF ReadRoot
<1>7. ASSUME NEW h \in {w \in Held : valid_handle(w)}
      PROVE  h.idx \in Index /\ words[h.idx] \in Seq(Word)
  <2>1. h.idx \in used
    BY <1>7 DEF valid_handle
  <2>2. h.idx \in Index
    <3>1. cap \in Nat /\ used \subseteq 1 .. cap - 1
      BY DEF TypeOK, TableType
    <3> DEFINE j == h.idx
    <3>2. j \in 1 .. cap - 1
      BY <2>1, <3>1
    <3> HIDE DEF j
    <3>3. j \in 0 .. cap - 1
      BY <3>1, <3>2
    <3> QED
      BY <3>3 DEF j
  <2> QED
    BY <2>2 DEF TypeOK, TableType
<1>8. ASSUME NEW h \in {w \in Held : valid_handle(w)},
             NEW f \in DOMAIN words[h.idx], Load(h, f)
      PROVE  TypeOK'
  <2>1. words[h.idx][f] \in Word
    BY <1>7, <1>8, LenProperties
  <2>2. ProgramType'
    BY <1>0, <1>8, <2>1 DEF Load, ProgramType
  <2> QED
    BY <1>1, <1>8, <2>2 DEF Load
<1>9. ASSUME NEW h \in {w \in Held : valid_handle(w)},
             NEW f \in DOMAIN words[h.idx], NEW w \in Held, Store(h, f, w)
      PROVE  TypeOK'
  <2>1. [words[h.idx] EXCEPT ![f] = w] \in Seq(Word)
    BY <1>7, <1>9, HeldWords, LenProperties, ExceptSeq
  <2>2. words' = [words EXCEPT ![h.idx] = [words[h.idx] EXCEPT ![f] = w]]
    BY <1>9 DEF Store
  <2>3. TableType'
    BY <1>9, <2>1, <2>2 DEF Store, TypeOK, TableType
  <2>4. CollectorType'
    BY <1>9, TypeStutters DEF Store, TypeOK
  <2> QED
    BY <1>9, <2>3, <2>4, TypeStutters DEF Store, TypeOK
<1>10. ASSUME NEW h \in Held, DerefPanics(h) PROVE TypeOK'
  BY <1>10, PanicType DEF DerefPanics
<1>11. ASSUME NEW t \in Thresholds, cl_gc_set_threshold(t) PROVE TypeOK'
  <2>1. CounterType'
    BY <1>11, ThresholdsAssumption DEF cl_gc_set_threshold, TypeOK, CounterType
  <2> QED
    BY <1>11, <2>1, TypeStutters DEF cl_gc_set_threshold, Running, TypeOK, table
<1>12. CASE cl_gc_collect
  BY <1>12, BeginCollectType DEF cl_gc_collect
<1> QED
  BY <1>2, <1>3, <1>4, <1>5, <1>6, <1>8, <1>9, <1>10, <1>11, <1>12 DEF Program

LEMMA NextType == TypeOK /\ [Next]_vars => TypeOK'
<1> SUFFICES ASSUME TypeOK, [Next]_vars PROVE TypeOK'
  OBVIOUS
<1>1. CASE Allocate
  <2>1. ASSUME NEW n \in Sizes, AllocCollects(n) PROVE TypeOK'
    BY <2>1, BeginCollectType DEF AllocCollects
  <2>2. ASSUME NEW n \in Sizes, AllocOutOfMemory(n) PROVE TypeOK'
    BY <2>2, PanicType DEF AllocOutOfMemory
  <2> QED
    BY <1>1, <2>1, <2>2, AllocReuseType, AllocGrowType DEF Allocate
<1>2. CASE Collect
  BY <1>2, CollectType
<1>3. CASE Program
  BY <1>3, ProgramStepType
<1>4. CASE UNCHANGED vars
  BY <1>4, TypeStutters DEF vars, TypeOK, table
<1> QED
  BY <1>1, <1>2, <1>3, <1>4 DEF Next

(* The types of TypeOK hold in every behaviour of the runtime's heap.      *)
THEOREM TypeCorrect == Spec => []TypeOK
  BY InitType, NextType, PTL DEF Spec

-----------------------------------------------------------------------------
(* The free list and the slots in use partition the table.                 *)
LEMMA FreeListStutters ==
  FreeListSound /\ UNCHANGED <<cap, used, free>> => FreeListSound'
  BY DEF FreeListSound

LEMMA AllocReuseFreeList ==
  ASSUME TypeOK, FreeListSound, NEW n \in Sizes, AllocReuse(n)
  PROVE  FreeListSound'
<1> DEFINE m == Len(free)
           top == free[m]
<1>1. free \in Seq(1 .. cap - 1) /\ free # << >>
  BY DEF TypeOK, TableType, AllocReuse
<1>2. m \in Nat \ {0} /\ DOMAIN free = 1 .. m
  BY <1>1, EmptySeq, LenProperties
<1>3. free' = SubSeq(free, 1, m - 1) /\ used' = used \cup {top} /\ cap' = cap
  BY DEF AllocReuse, Place
<1>4. DOMAIN free' = 1 .. m - 1 /\ \A k \in 1 .. m - 1 : free'[k] = free[k]
  BY <1>1, <1>2, <1>3
<1>5. \A a, b \in 1 .. m : free[a] = free[b] => a = b
  BY <1>2 DEF FreeListSound, IsInjective
<1>6. IsInjective(free')
  BY <1>2, <1>4, <1>5 DEF IsInjective
<1>7. Range(free) = Range(free') \cup {top} /\ top \notin Range(free')
  BY <1>2, <1>4, <1>5 DEF Range
<1> QED
  BY <1>3, <1>6, <1>7 DEF FreeListSound

LEMMA AllocGrowFreeList ==
  ASSUME TypeOK, FreeListSound, NEW n \in Sizes, AllocGrow(n)
  PROVE  FreeListSound'
<1> DEFINE m == GrownCap - FirstNew - 1
<1>1. cap \in Nat /\ used \subseteq 1 .. cap - 1
  BY DEF TypeOK, TableType
<1>2. /\ GrownCap \in Nat /\ FirstNew \in Nat /\ cap <= GrownCap
      /\ 1 <= FirstNew /\ FirstNew < GrownCap /\ cap <= FirstNew
      /\ cap = 0 => FirstNew = 1
      /\ cap # 0 => FirstNew = cap
  BY <1>1, GrowthBounds DEF FirstNew
<1>3. /\ cap' = GrownCap /\ used' = used \cup {FirstNew}
      /\ free' = [k \in 1 .. m |-> FirstNew + k]
  BY DEF AllocGrow, Place
<1>4. used = 1 .. cap - 1
  <2>1. free = << >> /\ Range(<< >>) = {}
    BY DEF AllocGrow, Range
  <2> QED
    BY <2>1 DEF FreeListSound
<1>5. IsInjective(free')
  BY <1>2, <1>3 DEF IsInjective
<1>6. Range(free') = FirstNew + 1 .. GrownCap - 1
  <2>1. \A i \in FirstNew + 1 .. GrownCap - 1 :
           i - FirstNew \in 1 .. m /\ FirstNew + (i - FirstNew) = i
    BY <1>2
  <2>2. \A k \in 1 .. m : FirstNew + k \in FirstNew + 1 .. GrownCap - 1
    BY <1>2
  <2>3. Range(free') = {FirstNew + k : k \in 1 .. m}
    BY <1>3 DEF Range
  <2> QED
    BY <2>1, <2>2, <2>3
<1>7. Range(free') \cap used' = {}
  BY <1>1, <1>2, <1>3, <1>6
<1>8. Range(free') \cup used' = 1 .. GrownCap - 1
  BY <1>1, <1>2, <1>3, <1>4, <1>6
<1> QED
  BY <1>3, <1>5, <1>7, <1>8 DEF FreeListSound

LEMMA SweepFreeList ==
  ASSUME TypeOK, FreeListSound, SweepFree
  PROVE  FreeListSound'
<1> DEFINE m == Len(free)
<1>1. free \in Seq(1 .. cap - 1) /\ used \subseteq 1 .. cap - 1 /\ cap' = cap
  BY DEF TypeOK, TableType, SweepFree
<1>2. /\ cursor \in used /\ used' = used \ {cursor}
      /\ free' = Append(free, cursor)
  BY DEF SweepFree
<1>3. m \in Nat /\ DOMAIN free = 1 .. m
  BY <1>1, LenProperties
<1>4. /\ DOMAIN free' = 1 .. m + 1
      /\ \A k \in 1 .. m : free'[k] = free[k]
      /\ free'[m + 1] = cursor
  BY <1>1, <1>2, <1>3, AppendProperties, LenProperties
<1>5. cursor \notin Range(free)
  BY <1>2 DEF FreeListSound
<1>6. IsInjective(free')
  <2>1. SUFFICES ASSUME NEW a \in 1 .. m + 1, NEW b \in 1 .. m + 1,
                        free'[a] = free'[b]
                 PROVE  a = b
    BY <1>4 DEF IsInjective
  <2>2. CASE a \in 1 .. m /\ b \in 1 .. m
    BY <1>3, <1>4, <2>1, <2>2 DEF FreeListSound, IsInjective
  <2>3. CASE a \in 1 .. m /\ b = m + 1
    BY <1>3, <1>4, <1>5, <2>1, <2>3 DEF Range
  <2>4. CASE a = m + 1 /\ b \in 1 .. m
    BY <1>3, <1>4, <1>5, <2>1, <2>4 DEF Range
  <2> QED
    BY <1>3, <2>2, <2>3, <2>4
<1>7. Range(free') = Range(free) \cup {cursor}
  <2>1. \A k \in 1 .. m + 1 : k \in 1 .. m \/ k = m + 1
    BY <1>3
  <2>2. m + 1 \in 1 .. m + 1 /\ 1 .. m \subseteq 1 .. m + 1
    BY <1>3
  <2> QED
    BY <1>3, <1>4, <2>1, <2>2 DEF Range
<1> QED
  BY <1>1, <1>2, <1>6, <1>7 DEF FreeListSound

LEMMA NextFreeList == TypeOK /\ FreeListSound /\ [Next]_vars => FreeListSound'
<1> SUFFICES ASSUME TypeOK, FreeListSound, [Next]_vars PROVE FreeListSound'
  OBVIOUS
<1> USE DEF table
<1>1. CASE Allocate
  <2>1. ASSUME NEW n \in Sizes, AllocCollects(n) PROVE FreeListSound'
    BY <2>1, FreeListStutters DEF AllocCollects, BeginCollect
  <2>2. ASSUME NEW n \in Sizes, AllocOutOfMemory(n) PROVE FreeListSound'
    BY <2>2, FreeListStutters DEF AllocOutOfMemory, Panic
  <2> QED
    BY <1>1, <2>1, <2>2, AllocReuseFreeList, AllocGrowFreeList DEF Allocate
<1>2. CASE Collect
  BY <1>2, SweepFreeList, FreeListStutters
     DEF Collect, MarkObject, MarkDone, SweepKeep, SweepDone
<1>3. CASE Program
  BY <1>3, FreeListStutters
     DEF Program, Running, cl_gc_push_root, cl_gc_pop_roots, cl_gc_pin, AssignRoot,
         ReadRoot, Load, Store, DerefPanics, Panic, cl_gc_set_threshold,
         cl_gc_collect, BeginCollect
<1>4. CASE UNCHANGED vars
  BY <1>4, FreeListStutters DEF vars
<1> QED
  BY <1>1, <1>2, <1>3, <1>4 DEF Next

(* alloc_slot never hands out a slot that is in use, and the sweep returns  *)
(* every slot it frees exactly once: in every state the free list and the   *)
(* slots in use partition the table.                                        *)
THEOREM FreeListCorrect == Spec => []FreeListSound
<1>1. Init => FreeListSound
  BY DEF Init, FreeListSound, IsInjective, Range
<1> QED
  BY <1>1, NextFreeList, TypeCorrect, PTL DEF Spec

-----------------------------------------------------------------------------
(* Accounting. The total size of the objects us of a table ws.             *)
Bytes(ws, us) == SumFunctionOnSet([i \in us |-> Len(ws[i])], us)
Sized(ws, us) == IsFiniteSet(us) /\ \A i \in us : Len(ws[i]) \in Nat

LEMMA BytesType == ASSUME NEW ws, NEW us, Sized(ws, us) PROVE Bytes(ws, us) \in Nat
<1> DEFINE f == [i \in us |-> Len(ws[i])]
<1>1. IsFiniteSet(us) /\ \A i \in us : f[i] \in Nat
  BY DEF Sized
<1> HIDE DEF f
<1>2. SumFunctionOnSet(f, us) \in Nat
  BY <1>1, SumOfNaturals
<1> QED BY <1>2 DEF Bytes, f

(* The total depends on the sizes of the objects summed up only.           *)
LEMMA BytesSame ==
  ASSUME NEW ws, NEW us, Sized(ws, us), NEW vs, \A i \in us : Len(vs[i]) = Len(ws[i])
  PROVE  Bytes(vs, us) = Bytes(ws, us)
<1> DEFINE f == [i \in us |-> Len(ws[i])]
           h == [i \in us |-> Len(vs[i])]
<1>1. f = h
  OBVIOUS
<1> QED BY <1>1 DEF Bytes

(* One object less takes its own size off the total.                       *)
LEMMA BytesWithout ==
  ASSUME NEW ws, NEW us, Sized(ws, us), NEW i \in us
  PROVE  Bytes(ws, us) = Len(ws[i]) + Bytes(ws, us \ {i})
<1> DEFINE f == [j \in us |-> Len(ws[j])]
           h == [j \in us \ {i} |-> Len(ws[j])]
<1>1. IsFiniteSet(us) /\ (\A j \in us : f[j] \in Int) /\ f[i] = Len(ws[i])
  BY DEF Sized
<1>2. /\ IsFiniteSet(us \ {i})
      /\ \A j \in us \ {i} : f[j] \in Int /\ h[j] = f[j]
  BY <1>1, FS_RemoveElement
<1> HIDE DEF f, h
<1>3. SumFunctionOnSet(f, us) = f[i] + SumFunctionOnSet(f, us \ {i})
  BY <1>1, SumWithout
<1>4. SumFunctionOnSet(h, us \ {i}) = SumFunctionOnSet(f, us \ {i})
  BY <1>2, SumSame
<1> QED BY <1>1, <1>3, <1>4 DEF Bytes, f, h

LEMMA UsedSized == TypeOK => Sized(words, used)
<1> SUFFICES ASSUME TypeOK PROVE Sized(words, used)
  OBVIOUS
<1>1. cap \in Nat /\ used \subseteq 1 .. cap - 1 /\ words \in [Index -> Seq(Word)]
  BY DEF TypeOK, TableType
<1>2. IsFiniteSet(used)
  <2>1. IsFiniteSet(1 .. cap - 1)
    <3>1. 1 \in Int /\ cap - 1 \in Int
      BY <1>1
    <3> QED BY <3>1, FS_Interval
  <2> QED BY <1>1, <2>1, FS_Subset
<1>3. \A i \in used : Len(words[i]) \in Nat
  BY <1>1, LenProperties
<1> QED BY <1>2, <1>3 DEF Sized

(* The counters follow a new object and a freed one.                       *)
LEMMA PlaceAccounts ==
  ASSUME TypeOK, AccountingExact, NEW i, NEW n \in Nat, Place(i, n), i \notin used,
         Len(words'[i]) = n, \A j \in used : words'[j] = words[j], pc # "sweep"
  PROVE  AccountingExact'
<1>1. /\ used' = used \cup {i} /\ live' = live + 1 /\ pc' = "run"
      /\ bytesLive' = bytesLive + n /\ since' = since + n
  BY DEF Place
<1>2. Sized(words, used) /\ since \in Nat /\ bytesLive \in Int
  BY UsedSized DEF TypeOK, CounterType
<1>3. Sized(words', used') /\ used' \ {i} = used /\ i \in used'
  <2>1. IsFiniteSet(used') /\ \A j \in used' : Len(words'[j]) \in Nat
    BY <1>1, <1>2, FS_AddElement DEF Sized
  <2> QED BY <1>1, <2>1 DEF Sized
<1>4. Bytes(words', used') = n + Bytes(words', used)
  BY <1>3, BytesWithout
<1>5. Bytes(words', used) = Bytes(words, used) /\ Bytes(words, used) \in Nat
  BY <1>2, BytesSame, BytesType
<1>6. Cardinality(used') = Cardinality(used) + 1
  BY <1>1, <1>2, FS_AddElement DEF Sized
<1>7. live = Cardinality(used) /\ bytesLive = Bytes(words, used) /\ since <= bytesLive
  BY DEF AccountingExact, Bytes
<1>8. bytesLive' = Bytes(words', used')
  BY <1>1, <1>4, <1>5, <1>7
<1>9. since' <= bytesLive'
  BY <1>1, <1>2, <1>7
<1> QED BY <1>1, <1>6, <1>7, <1>8, <1>9 DEF AccountingExact, Bytes

LEMMA AllocReuseAccounts ==
  ASSUME TypeOK, FreeListSound, AccountingExact, NEW n \in Sizes, AllocReuse(n)
  PROVE  AccountingExact'
<1> DEFINE i == free[Len(free)]
<1>1. free \in Seq(1 .. cap - 1) /\ free # << >> /\ words \in [Index -> Seq(Word)]
      /\ cap \in Nat /\ used \subseteq Index
  BY DEF TypeOK, TableType, AllocReuse
<1>2. i \in Range(free) /\ i \in Index
  <2>1. Len(free) \in DOMAIN free /\ i \in 1 .. cap - 1
    BY <1>1, PopTop, LenProperties
  <2> QED BY <1>1, <2>1 DEF Range
<1>3. i \notin used
  BY <1>2 DEF FreeListSound
<1>4. n \in Nat /\ words' = [words EXCEPT ![i] = [f \in 1..n |-> Null]] /\ Place(i, n)
  BY SizesAssumption DEF AllocReuse
<1>5. Len(words'[i]) = n /\ \A j \in used : words'[j] = words[j]
  BY <1>1, <1>2, <1>3, <1>4
<1>6. pc # "sweep"
  BY DEF AllocReuse, AllocReady
<1> HIDE DEF i
<1> QED BY <1>3, <1>4, <1>5, <1>6, PlaceAccounts

LEMMA AllocGrowAccounts ==
  ASSUME TypeOK, AccountingExact, NEW n \in Sizes, AllocGrow(n)
  PROVE  AccountingExact'
<1>1. cap \in Nat /\ used \subseteq 1 .. cap - 1
  BY DEF TypeOK, TableType
<1>2. FirstNew \notin used /\ FirstNew \in 0 .. GrownCap - 1
      /\ \A j \in used : j \in 0 .. GrownCap - 1 /\ j # FirstNew /\ j < cap
  BY <1>1, GrowthBounds
<1>3. n \in Nat /\ Place(FirstNew, n)
  BY SizesAssumption DEF AllocGrow
<1>4. Len(words'[FirstNew]) = n /\ \A j \in used : words'[j] = words[j]
  BY <1>2, <1>3 DEF AllocGrow
<1>5. pc # "sweep"
  BY DEF AllocGrow, AllocReady
<1> QED BY <1>2, <1>3, <1>4, <1>5, PlaceAccounts

LEMMA SweepFreeAccounts ==
  ASSUME TypeOK, AccountingExact, SweepFree
  PROVE  AccountingExact'
<1>1. /\ cursor \in used /\ used' = used \ {cursor} /\ live' = live - 1
      /\ bytesLive' = bytesLive - Len(words[cursor]) /\ pc' = "sweep"
      /\ \A j \in used' : words'[j] = words[j]
  BY DEF SweepFree, TypeOK, TableType
<1>2. Sized(words, used) /\ bytesLive = Bytes(words, used)
      /\ live = Cardinality(used)
  BY UsedSized DEF AccountingExact, Bytes
<1>3. IsFiniteSet(used) /\ IsFiniteSet(used') /\ Sized(words, used')
      /\ Len(words[cursor]) \in Nat
  BY <1>1, <1>2, FS_RemoveElement DEF Sized
<1>4. Cardinality(used') = Cardinality(used) - 1
  BY <1>1, <1>3, FS_RemoveElement
<1>5. Bytes(words, used) = Len(words[cursor]) + Bytes(words, used')
  BY <1>1, <1>2, BytesWithout
<1>6. Bytes(words', used') = Bytes(words, used') /\ Bytes(words, used') \in Nat
  BY <1>1, <1>3, BytesSame, BytesType
<1>7. bytesLive' = Bytes(words', used')
  BY <1>1, <1>2, <1>3, <1>5, <1>6
<1> QED BY <1>1, <1>2, <1>4, <1>7 DEF AccountingExact, Bytes

(* A step that leaves the table and the counters alone, or lowers since.   *)
LEMMA AccountingStutters ==
  ASSUME TypeOK, AccountingExact, UNCHANGED <<used, live, bytesLive>>,
         \A i \in used : Len(words'[i]) = Len(words[i]),
         pc' # "sweep" => since' = 0 \/ (since' = since /\ pc # "sweep")
  PROVE  AccountingExact'
<1>1. Sized(words, used)
  BY UsedSized
<1>2. Bytes(words', used) = Bytes(words, used) /\ Bytes(words, used) \in Nat
  BY <1>1, BytesSame, BytesType
<1> QED BY <1>2 DEF AccountingExact, Bytes

LEMMA NextAccounts ==
  TypeOK /\ FreeListSound /\ AccountingExact /\ [Next]_vars => AccountingExact'
<1> SUFFICES ASSUME TypeOK, FreeListSound, AccountingExact, [Next]_vars
             PROVE  AccountingExact'
  OBVIOUS
<1>1. ASSUME UNCHANGED <<table, live, bytesLive, since>>, pc' # "sweep" => pc # "sweep"
      PROVE  AccountingExact'
  BY <1>1, AccountingStutters DEF table
<1>2. CASE Allocate
  <2>1. ASSUME NEW n \in Sizes, AllocCollects(n) PROVE AccountingExact'
    BY <1>1, <2>1 DEF AllocCollects, BeginCollect, counters
  <2>2. ASSUME NEW n \in Sizes, AllocOutOfMemory(n) PROVE AccountingExact'
    BY <1>1, <2>2 DEF AllocOutOfMemory, AllocReady, Panic, counters
  <2> QED BY <1>2, <2>1, <2>2, AllocReuseAccounts, AllocGrowAccounts DEF Allocate
<1>3. CASE Collect
  <2>1. CASE SweepDone
    BY <2>1, AccountingStutters DEF SweepDone, table
  <2> QED
    BY <1>1, <1>3, <2>1, SweepFreeAccounts
       DEF Collect, MarkObject, MarkDone, SweepKeep, counters
<1>4. CASE Program
  <2>1. ASSUME NEW h \in {w \in Held : valid_handle(w)},
               NEW f \in DOMAIN words[h.idx], NEW w \in Held, Store(h, f, w)
        PROVE  AccountingExact'
    <3>1. words \in [Index -> Seq(Word)] /\ used \subseteq Index
      BY DEF TypeOK, TableType
    <3>2. \A i \in used : Len(words'[i]) = Len(words[i])
      BY <2>1, <3>1, LenProperties DEF Store
    <3> QED BY <2>1, <3>2, AccountingStutters DEF Store, counters
  <2> QED
    BY <1>1, <1>4, <2>1
       DEF Program, Running, counters, cl_gc_push_root, cl_gc_pop_roots, cl_gc_pin,
           AssignRoot, ReadRoot, Load, DerefPanics, Panic, cl_gc_set_threshold,
           cl_gc_collect, BeginCollect
<1>5. CASE UNCHANGED vars
  BY <1>1, <1>5 DEF vars, counters
<1> QED BY <1>2, <1>3, <1>4, <1>5 DEF Next

(* g_live and g_bytes_live are exact in every state, also in the middle of  *)
(* a sweep, and never drift however often slots are reused.                *)
THEOREM AccountingCorrect == Spec => []AccountingExact
<1>1. Init => AccountingExact
  <2>1. Len(<< >>) = 0
    OBVIOUS
  <2> QED BY FS_EmptySet, SumOfNone DEF Init, AccountingExact
<1> QED
  BY <1>1, NextAccounts, TypeCorrect, FreeListCorrect, PTL DEF Spec

-----------------------------------------------------------------------------
(* Marking. A set of slots in use that holds what the roots refer to and is *)
(* closed under following words holds everything reachable.                 *)
Closed(S) ==
  /\ S \subseteq used
  /\ Targets(RootWords) \subseteq S
  /\ \A p \in S : Targets(Range(words[p])) \subseteq S

LEMMA ReachableLeast ==
  ASSUME NEW S, Closed(S)
  PROVE  Reachable(Targets) \subseteq S
  BY DEF Closed, Reachable

LEMMA ReachableIffInAllClosed ==
  ASSUME NEW M \in SUBSET used, \A S : Closed(S) => M \subseteq S
  PROVE  M \subseteq Reachable(Targets)
  BY DEF Closed, Reachable

(* MarkingSound relates the marks to the table and to what is rooted.      *)
LEMMA BeginCollectMarks ==
  ASSUME TypeOK, NEW n, BeginCollect(n)
  PROVE  MarkingSound'
<1> DEFINE R == Targets(RootWords)
<1>1. R \subseteq Reachable(Targets) /\ R \subseteq used
  BY TargetsUsed DEF Reachable
<1>2. /\ Reachable(Targets)' = Reachable(Targets)
      /\ Targets(RootWords)' = R /\ used' = used
  BY DEF BeginCollect, table, program, Reachable, Targets, valid_handle, RootWords
<1>3. marked' = R /\ work' = R /\ pc' = "mark"
  BY DEF BeginCollect
<1> QED
  BY <1>1, <1>2, <1>3 DEF MarkingSound

LEMMA MarkObjectMarks ==
  ASSUME MarkingSound, NEW i \in work, MarkObject(i)
  PROVE  MarkingSound'
<1> DEFINE T(p) == Targets(Range(words[p]))
           found == T(i) \ marked
<1>1. /\ marked' = marked \cup found /\ work' = (work \ {i}) \cup found
      /\ used' = used /\ words' = words /\ pc' = "mark" /\ pc = "mark"
  BY DEF MarkObject, table
<1>2. /\ Reachable(Targets)' = Reachable(Targets)
      /\ Targets(RootWords)' = Targets(RootWords)
      /\ \A p : T(p)' = T(p)
  BY DEF MarkObject, table, program, Reachable, Targets, valid_handle, RootWords
<1>3. /\ work \subseteq marked /\ marked \subseteq used
      /\ Targets(RootWords) \subseteq marked
      /\ \A p \in marked \ work : T(p) \subseteq marked
      /\ marked \subseteq Reachable(Targets)
  BY <1>1 DEF MarkingSound
<1>4. found \subseteq used
  BY TargetsUsed
<1>5. found \subseteq Reachable(Targets)
  <2>1. i \in Reachable(Targets)
    BY <1>3
  <2>2. \A S : Closed(S) => found \subseteq S
    BY <2>1, ReachableLeast DEF Closed
  <2> QED
    BY <1>4, <2>2, ReachableIffInAllClosed
<1>6. \A p \in marked' \ work' : T(p) \subseteq marked'
  BY <1>1, <1>3
<1> HIDE DEF T, found
<1>7. \A p \in marked' \ work' : T(p)' \subseteq marked'
  BY <1>2, <1>6
<1> QED
  BY <1>1, <1>2, <1>3, <1>4, <1>5, <1>7 DEF MarkingSound, T

LEMMA SweepFreeMarks ==
  ASSUME TypeOK, MarkingSound, SweepFree
  PROVE  MarkingSound'
<1>1. /\ used' = used \ {cursor} /\ cursor \in used \ marked
      /\ cap' = cap /\ roots' = roots /\ pins' = pins
      /\ marked' = marked /\ work' = work /\ pc = "sweep" /\ pc' = "sweep"
      /\ cursor' = cursor + 1
  BY DEF SweepFree, program
<1>2. /\ cap \in Nat /\ used \subseteq 1 .. cap - 1 /\ cursor \in Nat
      /\ words \in [Index -> Seq(Word)] /\ inc \in [Index -> Nat]
  BY DEF TypeOK, TableType, CollectorType
<1>3. \A p \in used' : words'[p] = words[p] /\ inc'[p] = inc[p]
  BY <1>1, <1>2 DEF SweepFree
<1>4. \A w : (valid_handle(w)' <=> valid_handle(w) /\ w.idx # cursor)
  BY <1>1, <1>3 DEF valid_handle
<1>5. Targets(RootWords)' = Targets(RootWords) \ {cursor}
  BY <1>1, <1>4 DEF Targets, RootWords
<1>6. \A p \in used' :
         Targets(Range(words[p]))' = Targets(Range(words[p])) \ {cursor}
  BY <1>3, <1>4 DEF Targets
<1>7. /\ work = {} /\ marked \subseteq used /\ Closed(marked)
      /\ marked \subseteq Reachable(Targets)
      /\ \A i \in used : i < cursor => i \in marked
  BY <1>1 DEF MarkingSound, Closed
<1>8. marked \subseteq Reachable(Targets)'
  <2>1. SUFFICES ASSUME NEW S \in SUBSET used',
                        Targets(RootWords)' \subseteq S,
                        \A p \in S : Targets(Range(words[p]))' \subseteq S
                 PROVE  marked \subseteq S
    BY <1>1, <1>7 DEF Reachable
  <2>2. Closed(S \cap marked)
    BY <1>1, <1>5, <1>6, <1>7, <2>1 DEF Closed
  <2> QED
    BY <1>7, <2>2, ReachableLeast
<1>9. \A i \in used' : i < cursor' => i \in marked'
  BY <1>1, <1>2, <1>7
<1>10. \A p \in marked' \ work' : Targets(Range(words[p]))' \subseteq marked'
  BY <1>1, <1>6, <1>7 DEF Closed
<1> QED
  BY <1>1, <1>5, <1>7, <1>8, <1>9, <1>10 DEF MarkingSound, Closed

LEMMA SweepKeepMarks ==
  ASSUME TypeOK, MarkingSound, SweepKeep
  PROVE  MarkingSound'
<1>1. /\ cursor \notin used \ marked /\ cursor' = cursor + 1
      /\ UNCHANGED <<table, program, marked, work, pc>>
  BY DEF SweepKeep
<1>2. cap \in Nat /\ used \subseteq 1 .. cap - 1 /\ cursor \in Nat
  BY DEF TypeOK, TableType, CollectorType
<1>3. (\A i \in used : i < cursor => i \in marked)
        => \A i \in used : i < cursor + 1 => i \in marked
  BY <1>1, <1>2
<1> QED
  BY <1>1, <1>3 DEF MarkingSound, table, program, Reachable, Targets, valid_handle,
                    RootWords

LEMMA NextMarks == TypeOK /\ MarkingSound /\ [Next]_vars => MarkingSound'
<1> SUFFICES ASSUME TypeOK, MarkingSound, [Next]_vars PROVE MarkingSound'
  OBVIOUS
<1>1. ASSUME pc' \notin {"mark", "sweep"} PROVE MarkingSound'
  BY <1>1 DEF MarkingSound
<1>2. CASE Allocate
  <2>1. ASSUME NEW n \in Sizes, AllocCollects(n) PROVE MarkingSound'
    BY <2>1, BeginCollectMarks DEF AllocCollects
  <2> QED
    BY <1>1, <1>2, <2>1
       DEF Allocate, AllocReuse, AllocGrow, AllocOutOfMemory, Panic, Place
<1>3. CASE Collect
  <2>1. CASE MarkDone
    <3>1. /\ work = {} /\ cursor' = 1 /\ pc = "mark" /\ pc' = "sweep"
          /\ UNCHANGED <<table, program, marked, work>>
      BY <2>1 DEF MarkDone
    <3>2. \A i \in used : ~(i < 1)
      BY DEF TypeOK, TableType
    <3> QED
      BY <3>1, <3>2 DEF MarkingSound, table, program, Reachable, Targets,
                        valid_handle, RootWords
  <2>2. CASE SweepDone
    BY <1>1, <2>2 DEF SweepDone
  <2> QED
    BY <1>3, <2>1, <2>2, MarkObjectMarks, SweepFreeMarks, SweepKeepMarks DEF Collect
<1>4. CASE Program
  BY <1>1, <1>4, BeginCollectMarks
     DEF Program, Running, cl_gc_push_root, cl_gc_pop_roots, cl_gc_pin, AssignRoot,
         ReadRoot, Load, Store, DerefPanics, Panic, cl_gc_set_threshold,
         cl_gc_collect
<1>5. CASE UNCHANGED vars
  BY <1>5 DEF vars, table, program, collector, MarkingSound, Reachable, Targets,
              valid_handle, RootWords
<1> QED
  BY <1>2, <1>3, <1>4, <1>5 DEF Next

(* The tri-colour invariant of the mark phase and its outcome for the sweep. *)
THEOREM MarkingCorrect == Spec => []MarkingSound
<1>1. Init => MarkingSound
  BY DEF Init, MarkingSound
<1> QED
  BY <1>1, NextMarks, TypeCorrect, PTL DEF Spec

-----------------------------------------------------------------------------
(* What a sweep frees is not reachable.                                    *)
KeepsReachable == \A i \in Reachable(Refs) : i \in used' /\ inc'[i] = inc[i]

LEMMA SweepFreesGarbage ==
  ASSUME TypeOK, MarkingSound, SweepFree
  PROVE  cursor \notin Reachable(Refs)
<1>1. /\ marked \subseteq used /\ Targets(RootWords) \subseteq marked
      /\ \A p \in marked : Targets(Range(words[p])) \subseteq marked
  BY DEF SweepFree, MarkingSound
<1>2. /\ Refs(RootWords) \subseteq marked
      /\ \A p \in marked : Refs(Range(words[p])) \subseteq marked
  BY <1>1, RefsAreTargets
<1>3. Reachable(Refs) \subseteq marked
  BY <1>1, <1>2 DEF Reachable
<1> QED
  BY <1>3 DEF SweepFree

LEMMA NextKeepsReachable == TypeOK /\ MarkingSound /\ [Next]_vars => KeepsReachable
<1> SUFFICES ASSUME TypeOK, MarkingSound, [Next]_vars PROVE KeepsReachable
  OBVIOUS
<1>1. Reachable(Refs) \subseteq used
  BY DEF Reachable
<1>2. ASSUME UNCHANGED <<used, inc>> PROVE KeepsReachable
  BY <1>1, <1>2 DEF KeepsReachable
<1> USE DEF table
<1>3. CASE Allocate
  <2>1. ASSUME NEW n \in Sizes, AllocReuse(n) PROVE KeepsReachable
    BY <1>1, <2>1 DEF AllocReuse, Place, KeepsReachable
  <2>2. ASSUME NEW n \in Sizes, AllocGrow(n) PROVE KeepsReachable
    <3>1. cap \in Nat /\ used \subseteq 1 .. cap - 1
      BY DEF TypeOK, TableType
    <3>2. \A i \in used : i \in 0 .. GrownCap - 1 /\ i < cap
      BY <3>1, GrowthBounds
    <3>3. \A i \in used : inc'[i] = inc[i]
      BY <2>2, <3>2 DEF AllocGrow
    <3> QED
      BY <1>1, <2>2, <3>3 DEF AllocGrow, Place, KeepsReachable
  <2> QED
    BY <1>2, <1>3, <2>1, <2>2
       DEF Allocate, AllocCollects, BeginCollect, AllocOutOfMemory, Panic
<1>4. CASE Collect
  <2>1. CASE SweepFree
    <3>1. \A i \in used : i # cursor => inc'[i] = inc[i]
      BY <2>1 DEF SweepFree, TypeOK, TableType
    <3> QED
      BY <1>1, <2>1, <3>1, SweepFreesGarbage DEF SweepFree, KeepsReachable
  <2> QED
    BY <1>2, <1>4, <2>1 DEF Collect, MarkObject, MarkDone, SweepKeep, SweepDone
<1>5. CASE Program
  BY <1>2, <1>5
     DEF Program, Running, cl_gc_push_root, cl_gc_pop_roots, cl_gc_pin, AssignRoot,
         ReadRoot, Load, Store, DerefPanics, Panic, cl_gc_set_threshold,
         cl_gc_collect, BeginCollect
<1>6. CASE UNCHANGED vars
  BY <1>2, <1>6 DEF vars
<1> QED
  BY <1>3, <1>4, <1>5, <1>6 DEF Next

(* Safety of the collector: no step of any program that uses the heap frees *)
(* an object a root reaches, whatever the generations have wrapped to.      *)
THEOREM NoReachableObjectFreed == Spec => ReachableKept
<1>1. Spec => [][KeepsReachable]_vars
  BY NextKeepsReachable, TypeCorrect, MarkingCorrect, PTL DEF Spec
<1> QED
  BY <1>1 DEF ReachableKept, KeepsReachable

(* Completeness of a collection.                                           *)
LeavesOnlyReachable ==
  pc = "sweep" /\ pc' # "sweep" => used' = Reachable(Targets)'

LEMMA NextLeavesOnlyReachable ==
  TypeOK /\ MarkingSound /\ [Next]_vars => LeavesOnlyReachable
<1> SUFFICES ASSUME TypeOK, MarkingSound, [Next]_vars, pc = "sweep", pc' # "sweep"
             PROVE  used' = Reachable(Targets)'
  BY DEF LeavesOnlyReachable
<1>1. SweepDone
  BY DEF Next, Allocate, AllocCollects, AllocReuse, AllocGrow, AllocOutOfMemory,
         AllocReady, Collect, MarkObject, MarkDone, SweepFree, SweepKeep, Program,
         Running, cl_gc_push_root, cl_gc_pop_roots, cl_gc_pin, AssignRoot, ReadRoot,
         Load, Store, DerefPanics, cl_gc_set_threshold, cl_gc_collect, vars
<1>2. used = Reachable(Targets)
  <2>1. \A i \in used : i < cursor
    BY <1>1 DEF SweepDone, TypeOK, TableType, CollectorType
  <2>2. used \subseteq marked /\ marked \subseteq Reachable(Targets)
    BY <2>1 DEF MarkingSound
  <2> QED
    BY <2>2 DEF Reachable
<1>3. UNCHANGED <<table, program>>
  BY <1>1 DEF SweepDone
<1> QED
  BY <1>2, <1>3 DEF table, program, Reachable, Targets, valid_handle, RootWords

(* When cl_gc_collect returns, exactly the reachable objects are left.     *)
THEOREM CollectionLeavesReachable == Spec => CollectionComplete
<1>1. Spec => [][LeavesOnlyReachable]_vars
  BY NextLeavesOnlyReachable, TypeCorrect, MarkingCorrect, PTL DEF Spec
<1> QED
  BY <1>1 DEF CollectionComplete, LeavesOnlyReachable
=============================================================================
