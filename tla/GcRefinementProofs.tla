-------------------------- MODULE GcRefinementProofs --------------------------
(***************************************************************************)
(* The handle heap of cardinal_gc.c implements AbstractHeap, for every     *)
(* table size, program and threshold, as long as no slot is freed as often *)
(* as there are generations (MaxInc < GenMod: 2^16 reuses of one slot).    *)
(* Until then a handle accepted by cl_gc_deref is the one of the object    *)
(* that lives in the slot, and a stale one is detected.                    *)
(***************************************************************************)
EXTENDS GcHeapProofs

USE DEF Index, NoAlloc

(* No slot is freed more often than the guard of a collection allows: one  *)
(* collection frees a slot at most once; slot 0 is never freed.            *)
IncBounded ==
  /\ \A i \in Index : inc[i] <= MaxInc /\ (i = 0 => inc[i] = 0)
  /\ pc \in {"mark", "sweep"} => \A i \in used : inc[i] < MaxInc

(* A handle the program can come by is null or was returned for an object  *)
(* that lived, or still lives, in its slot: handles are never forged.      *)
Known(w) == w = Null \/ w \in PastTenants
HandlesKnown ==
  /\ \A w \in Held : Known(w)
  /\ \A i \in used : \A w \in Range(words[i]) : Known(w)

-----------------------------------------------------------------------------
LEMMA TableFacts ==
  ASSUME TypeOK
  PROVE  /\ cap \in Nat /\ used \subseteq 1 .. cap - 1 /\ used \subseteq Index
         /\ inc \in [Index -> Nat] /\ words \in [Index -> Seq(Word)]
         /\ \A i \in Index : inc[i] \in Nat /\ i \in Nat
         /\ 0 \notin used
<1>1. cap \in Nat /\ used \subseteq 1 .. cap - 1 /\ inc \in [Index -> Nat]
      /\ words \in [Index -> Seq(Word)]
  BY DEF TypeOK, TableType
<1> QED BY <1>1

LEMMA SweepFreeFacts ==
  ASSUME TypeOK, SweepFree
  PROVE  /\ cursor \in used \ marked /\ cursor \in Index /\ cap' = cap
         /\ used' = used \ {cursor}
         /\ inc' = [inc EXCEPT ![cursor] = inc[cursor] + 1]
         /\ inc'[cursor] = inc[cursor] + 1
         /\ \A i \in Index \ {cursor} : inc'[i] = inc[i]
         /\ \A i \in used' : words'[i] = words[i]
         /\ UNCHANGED <<roots, pins, reg, pc>> /\ pc = "sweep"
BY TableFacts DEF SweepFree, program

LEMMA NextIncBounded == TypeOK /\ IncBounded /\ [Next]_vars => IncBounded'
<1> SUFFICES ASSUME TypeOK, IncBounded, [Next]_vars PROVE IncBounded'
  OBVIOUS
<1>1. ASSUME UNCHANGED table,
             pc' \in {"mark", "sweep"} =>
               pc \in {"mark", "sweep"} \/ \A i \in used : inc[i] < MaxInc
      PROVE  IncBounded'
  BY <1>1 DEF table, IncBounded
<1>2. ASSUME NEW n, BeginCollect(n) PROVE IncBounded'
  BY <1>1, <1>2 DEF BeginCollect
<1>3. CASE Allocate
  <2>1. ASSUME NEW n \in Sizes, AllocReuse(n) PROVE IncBounded'
    BY <2>1 DEF AllocReuse, Place, IncBounded
  <2>2. ASSUME NEW n \in Sizes, AllocGrow(n) PROVE IncBounded'
    <3>1. /\ cap' = GrownCap /\ pc' = "run"
          /\ inc' = [i \in 0 .. GrownCap - 1 |-> IF i < cap THEN inc[i] ELSE 0]
      BY <2>2 DEF AllocGrow, Place
    <3>2. \A i \in 0 .. GrownCap - 1 : i < cap => i \in Index
      BY TableFacts, GrowthBounds
    <3> QED BY <3>1, <3>2, MaxIncAssumption DEF IncBounded
  <2> QED
    BY <1>1, <1>2, <1>3, <2>1, <2>2
       DEF Allocate, AllocCollects, AllocOutOfMemory, Panic
<1>4. CASE Collect
  <2>1. CASE SweepFree
    <3>1. inc[cursor] < MaxInc /\ inc[cursor] \in Nat
      BY <2>1, SweepFreeFacts, TableFacts DEF IncBounded
    <3>2. \A i \in Index : inc'[i] <= MaxInc
      BY <2>1, <3>1, SweepFreeFacts, MaxIncAssumption DEF IncBounded
    <3> QED BY <2>1, <3>2, SweepFreeFacts, TableFacts DEF IncBounded
  <2> QED
    BY <1>1, <1>4, <2>1 DEF Collect, MarkObject, MarkDone, SweepKeep, SweepDone
<1>5. CASE Program
  <2>1. ASSUME NEW h, NEW f, NEW w, Store(h, f, w) PROVE IncBounded'
    BY <2>1 DEF Store, IncBounded
  <2> QED
    BY <1>1, <1>2, <1>5, <2>1
       DEF Program, Running, cl_gc_push_root, cl_gc_pop_roots, cl_gc_pin, AssignRoot,
           ReadRoot, Load, DerefPanics, Panic, cl_gc_set_threshold, cl_gc_collect
<1>6. CASE UNCHANGED vars
  BY <1>1, <1>6 DEF vars
<1> QED BY <1>3, <1>4, <1>5, <1>6 DEF Next

(* The incarnation of a slot is at most MaxInc, so that below GenMod the    *)
(* generation kept in the slot's 16 bits tells the incarnations apart.     *)
LEMMA IncCorrect == Spec => []IncBounded
<1>1. Init => IncBounded
  BY DEF Init, IncBounded
<1> QED BY <1>1, NextIncBounded, TypeCorrect, PTL DEF Spec

-----------------------------------------------------------------------------
(* The handles given out, and the objects that live, as functions of the   *)
(* table: c slots, of which us are in use, freed ic times, holding ws.     *)
PastOf(c, us, ic) ==
  {h \in [idx : 0 .. c - 1, inc : 0 .. MaxInc] :
     h.inc < ic[h.idx] \/ (h.idx \in us /\ h.inc = ic[h.idx])}
TenantsOf(us, ic, ws) == [h \in {MK_HANDLE(i, ic[i]) : i \in us} |-> ws[h.idx]]

LEMMA MappedState ==
  /\ PastTenants = PastOf(cap, used, inc) /\ Tenants = TenantsOf(used, inc, words)
  /\ PastTenants' = PastOf(cap', used', inc')
  /\ Tenants' = TenantsOf(used', inc', words')
BY DEF PastTenants, Tenants, PastOf, TenantsOf

LEMMA HandleFields ==
  ASSUME NEW i, NEW k
  PROVE  /\ MK_HANDLE(i, k).idx = i /\ MK_HANDLE(i, k).inc = k
         /\ \A j, l : MK_HANDLE(i, k) = MK_HANDLE(j, l) => i = j /\ k = l
<1>1. \A a, b : MK_HANDLE(a, b).idx = a /\ MK_HANDLE(a, b).inc = b
  BY DEF MK_HANDLE
<1>2. \A j, l : MK_HANDLE(i, k) = MK_HANDLE(j, l) => i = j /\ k = l
  BY <1>1
<1> QED BY <1>1, <1>2

(* k is an incarnation of slot i that has lived, or lives.                 *)
Lived(c, us, ic, i, k) ==
  /\ i \in 0 .. c - 1 /\ k \in 0 .. MaxInc
  /\ k < ic[i] \/ (i \in us /\ k = ic[i])

LEMMA PastIs ==
  ASSUME NEW c, NEW us, NEW ic
  PROVE  /\ \A i, k : MK_HANDLE(i, k) \in PastOf(c, us, ic) <=> Lived(c, us, ic, i, k)
         /\ \A w \in PastOf(c, us, ic) : w = MK_HANDLE(w.idx, w.inc)
<1>1. ASSUME NEW w \in PastOf(c, us, ic) PROVE w = MK_HANDLE(w.idx, w.inc)
  BY DEF PastOf, MK_HANDLE
<1>2. ASSUME NEW i, NEW k
      PROVE  MK_HANDLE(i, k) \in PastOf(c, us, ic) <=> Lived(c, us, ic, i, k)
  <2>1. MK_HANDLE(i, k) \in [idx : 0 .. c - 1, inc : 0 .. MaxInc]
          <=> i \in 0 .. c - 1 /\ k \in 0 .. MaxInc
    BY DEF MK_HANDLE
  <2> QED BY <2>1, HandleFields DEF PastOf, Lived
<1> QED BY <1>1, <1>2

Handles(us, ic) == {MK_HANDLE(i, ic[i]) : i \in us}
IsTenants(T, us, ic, ws) ==
  DOMAIN T = Handles(us, ic) /\ \A i \in us : T[MK_HANDLE(i, ic[i])] = ws[i]

LEMMA TenantsAre ==
  ASSUME NEW us, NEW ic, NEW ws
  PROVE  IsTenants(TenantsOf(us, ic, ws), us, ic, ws)
BY HandleFields DEF TenantsOf, IsTenants, Handles

LEMMA NullUnborn == TypeOK /\ IncBounded => Null \notin PastTenants
<1> SUFFICES ASSUME TypeOK, IncBounded, Null \in PastTenants PROVE FALSE
  OBVIOUS
<1>1. Null = MK_HANDLE(0, 0)
  BY DEF Null, MK_HANDLE
<1>2. Lived(cap, used, inc, 0, 0)
  BY <1>1, MappedState, PastIs
<1> QED BY <1>2, TableFacts DEF Lived, IncBounded

(* A new object in slot i is the only handle a placement gives out, and it *)
(* was never given out before. The table has grown from c to d slots.      *)
LEMMA OneMoreLived ==
  ASSUME NEW c \in Nat, NEW us \in SUBSET (1 .. c - 1), NEW ic, NEW jc,
         NEW d \in Nat, c <= d, NEW i \in 1 .. d - 1, i \notin us,
         \A j \in 0 .. c - 1 : jc[j] = ic[j],
         \A j \in c .. d - 1 : jc[j] = 0,
         \A j \in 0 .. d - 1 : jc[j] \in 0 .. MaxInc
  PROVE  \A j, k : Lived(d, us \cup {i}, jc, j, k) <=>
                     Lived(c, us, ic, j, k) \/ (j = i /\ k = jc[i])
<1> SUFFICES ASSUME NEW j, NEW k
             PROVE  Lived(d, us \cup {i}, jc, j, k) <=>
                      Lived(c, us, ic, j, k) \/ (j = i /\ k = jc[i])
  OBVIOUS
<1>1. CASE j \in 0 .. c - 1
  <2>1. jc[j] = ic[j] /\ j \in 0 .. d - 1
    BY <1>1
  <2>2. j = i => ic[j] \in 0 .. MaxInc
    BY <2>1
  <2> QED BY <1>1, <2>1, <2>2 DEF Lived
<1>2. CASE j \in c .. d - 1
  <2>1. jc[j] = 0 /\ j \notin us /\ j \in 0 .. d - 1 /\ j \notin 0 .. c - 1
    BY <1>2
  <2>2. \A n \in 0 .. MaxInc : ~(n < 0)
    BY MaxIncAssumption
  <2>3. 0 \in 0 .. MaxInc
    BY MaxIncAssumption
  <2> QED BY <2>1, <2>2, <2>3 DEF Lived
<1>3. CASE j \notin 0 .. d - 1
  <2>1. j \notin 0 .. c - 1 /\ j # i
    BY <1>3
  <2> QED BY <1>3, <2>1 DEF Lived
<1>4. j \in 0 .. c - 1 \/ j \in c .. d - 1 \/ j \notin 0 .. d - 1
  OBVIOUS
<1> QED BY <1>1, <1>2, <1>3, <1>4

IsPlacement(c, us, ic, d, jc, i) ==
  /\ c \in Nat /\ us \in SUBSET (1 .. c - 1) /\ d \in Nat /\ c <= d
  /\ i \in 1 .. d - 1 /\ i \notin us
  /\ \A j \in 0 .. c - 1 : jc[j] = ic[j]
  /\ \A j \in c .. d - 1 : jc[j] = 0
  /\ \A j \in 0 .. d - 1 : jc[j] \in 0 .. MaxInc
IsBirth(c, us, ic, d, jc, i) ==
  /\ PastOf(d, us \cup {i}, jc) = PastOf(c, us, ic) \cup {MK_HANDLE(i, jc[i])}
  /\ MK_HANDLE(i, jc[i]) \notin PastOf(c, us, ic)
  /\ MK_HANDLE(i, jc[i]) # Null

LEMMA PlaceBorn ==
  ASSUME NEW c, NEW us, NEW ic, NEW d, NEW jc, NEW i, IsPlacement(c, us, ic, d, jc, i)
  PROVE  IsBirth(c, us, ic, d, jc, i)
<1> USE DEF IsPlacement, IsBirth
<1> DEFINE o == MK_HANDLE(i, jc[i])
           P == PastOf(c, us, ic)
           Q == PastOf(d, us \cup {i}, jc)
<1>1. \A j, k : Lived(d, us \cup {i}, jc, j, k) <=>
                  Lived(c, us, ic, j, k) \/ (j = i /\ k = jc[i])
  BY OneMoreLived
<1>2. \A j, k : /\ MK_HANDLE(j, k) \in P <=> Lived(c, us, ic, j, k)
                /\ MK_HANDLE(j, k) \in Q <=> Lived(d, us \cup {i}, jc, j, k)
  BY PastIs
<1>3. (\A w \in P : w = MK_HANDLE(w.idx, w.inc)) /\ \A w \in Q : w = MK_HANDLE(w.idx, w.inc)
  BY PastIs
<1>4. o \notin P
  <2>1. ~Lived(c, us, ic, i, jc[i])
    <3>1. i \in 0 .. c - 1 => jc[i] = ic[i] /\ jc[i] \in 0 .. MaxInc
      OBVIOUS
    <3> QED BY <3>1 DEF Lived
  <2> QED BY <1>2, <2>1
<1>5. o # Null
  <2>1. Null = MK_HANDLE(0, 0) /\ i # 0
    BY DEF Null, MK_HANDLE
  <2> QED BY <2>1, HandleFields
<1> HIDE DEF P, Q, o
<1>6. ASSUME NEW w PROVE w \in Q <=> w \in P \/ w = o
  <2>1. w \in Q \/ w \in P \/ w = o => \E j, k : w = MK_HANDLE(j, k)
    BY <1>3 DEF o
  <2>2. SUFFICES ASSUME NEW j, NEW k, w = MK_HANDLE(j, k)
                 PROVE  w \in Q <=> w \in P \/ w = o
    BY <2>1
  <2>3. w = o <=> j = i /\ k = jc[i]
    BY <2>2, HandleFields DEF o
  <2> QED BY <1>1, <1>2, <2>2, <2>3
<1>7. Q = P \cup {o}
  BY <1>6
<1> QED BY <1>4, <1>5, <1>7 DEF P, Q, o

(* A freed slot's handle stays born; nothing else changes.                 *)
LEMMA FreeBorn ==
  ASSUME NEW c \in Nat, NEW us, NEW ic, NEW jc, NEW i \in us,
         i \in 0 .. c - 1, ic[i] \in 0 .. MaxInc, jc[i] = ic[i] + 1,
         \A j \in (0 .. c - 1) \ {i} : jc[j] = ic[j]
  PROVE  PastOf(c, us \ {i}, jc) = PastOf(c, us, ic)
<1>1. ASSUME NEW j, NEW k
      PROVE  Lived(c, us \ {i}, jc, j, k) <=> Lived(c, us, ic, j, k)
  <2>1. CASE j = i
    BY <2>1, MaxIncAssumption DEF Lived
  <2>2. CASE j # i
    BY <2>2 DEF Lived
  <2> QED BY <2>1, <2>2
<1> DEFINE P == PastOf(c, us, ic)
           Q == PastOf(c, us \ {i}, jc)
<1>2. \A j, k : MK_HANDLE(j, k) \in P <=> MK_HANDLE(j, k) \in Q
  BY <1>1, PastIs
<1>3. (\A w \in P : w = MK_HANDLE(w.idx, w.inc)) /\ \A w \in Q : w = MK_HANDLE(w.idx, w.inc)
  BY PastIs
<1> HIDE DEF P, Q
<1>4. P = Q
  BY <1>2, <1>3
<1> QED BY <1>4 DEF P, Q

-----------------------------------------------------------------------------
(* What an allocation does, seen from the program.                         *)
PlacesNew(o) ==
  /\ o \notin PastTenants \cup {Null}
  /\ PastTenants' = PastTenants \cup {o}
  /\ DOMAIN Tenants' = DOMAIN Tenants \cup {o}
  /\ \A p \in DOMAIN Tenants : Tenants'[p] = Tenants[p]
  /\ Range(Tenants'[o]) \subseteq {Null}
  /\ reg' = o
  /\ UNCHANGED <<roots, pins>>
  /\ pc # "panic" /\ pc' # "panic"

LEMMA PlaceIsNew ==
  ASSUME TypeOK, IncBounded, TypeOK', IncBounded', NEW n \in Nat, NEW i \in 1 .. cap' - 1,
         Place(i, n), i \notin used, cap <= cap', pc # "panic",
         \A j \in 0 .. cap - 1 : inc'[j] = inc[j],
         \A j \in cap .. cap' - 1 : inc'[j] = 0,
         \A j \in used : words'[j] = words[j],
         words'[i] = [f \in 1 .. n |-> Null]
  PROVE  PlacesNew(MK_HANDLE(i, inc'[i])) /\ \A j \in used : inc'[j] = inc[j]
<1> DEFINE o == MK_HANDLE(i, inc'[i])
           d == cap'
           jc == inc'
           vs == words'
<1>1. /\ cap \in Nat /\ used \in SUBSET (1 .. cap - 1) /\ d \in Nat
      /\ \A j \in 0 .. d - 1 : jc[j] \in 0 .. MaxInc
  <2>1. cap' \in Nat /\ inc' \in [0 .. cap' - 1 -> Nat]
    BY DEF TypeOK, TableType
  <2>2. \A j \in 0 .. cap' - 1 : inc'[j] <= MaxInc
    BY DEF IncBounded
  <2> QED BY <2>1, <2>2, TableFacts, MaxIncAssumption
<1>2. used' = used \cup {i} /\ reg' = o /\ UNCHANGED <<roots, pins>> /\ pc' = "run"
  BY DEF Place
<1>3. \A j \in used : jc[j] = inc[j] /\ vs[j] = words[j]
  BY TableFacts
<1>4. IsBirth(cap, used, inc, d, jc, i)
  <2>1. IsPlacement(cap, used, inc, d, jc, i)
    BY <1>1 DEF IsPlacement
  <2> QED BY <2>1, PlaceBorn
<1>5. PastTenants' = PastTenants \cup {o} /\ o \notin PastTenants \cup {Null}
  BY <1>2, <1>4, MappedState DEF IsBirth
<1> DEFINE T == TenantsOf(used, inc, words)
           U == TenantsOf(used \cup {i}, jc, vs)
<1>6. T = Tenants /\ U = Tenants'
  BY <1>2, MappedState
<1>7. IsTenants(T, used, inc, words)
  BY TenantsAre
<1>8. IsTenants(U, used \cup {i}, jc, vs)
  BY TenantsAre
<1>9. DOMAIN U = DOMAIN T \cup {o} /\ (\A p \in DOMAIN T : U[p] = T[p]) /\ U[o] = vs[i]
  <2> HIDE DEF T, U, vs, jc
  <2>1. o = MK_HANDLE(i, jc[i])
    BY DEF jc
  <2> HIDE DEF o
  <2> QED BY <1>3, <1>7, <1>8, <2>1 DEF IsTenants, Handles
<1>10. Range(vs[i]) \subseteq {Null}
  BY DEF Range
<1> HIDE DEF T, U, o
<1> QED BY <1>2, <1>3, <1>5, <1>6, <1>9, <1>10 DEF PlacesNew, o

LEMMA AllocIsNew ==
  ASSUME TypeOK, FreeListSound, IncBounded, TypeOK', IncBounded', NEW n \in Sizes,
         AllocReuse(n) \/ AllocGrow(n)
  PROVE  \E i \in 1 .. cap' - 1 :
           /\ PlacesNew(MK_HANDLE(i, inc'[i])) /\ used' = used \cup {i}
           /\ words'[i] = [f \in 1 .. n |-> Null]
           /\ \A j \in used : inc'[j] = inc[j] /\ words'[j] = words[j]
<1> USE SizesAssumption
<1>1. CASE AllocReuse(n)
  <2> DEFINE i == free[Len(free)]
  <2>1. free \in Seq(1 .. cap - 1) /\ free # << >>
    BY <1>1 DEF TypeOK, TableType, AllocReuse
  <2>2. i \in Range(free) /\ i \in 1 .. cap - 1
    <3>1. Len(free) \in DOMAIN free
      BY <2>1, PopTop, LenProperties
    <3>2. i \in 1 .. cap - 1
      BY <2>1, PopTop
    <3> QED BY <2>1, <3>1, <3>2 DEF Range
  <2>3. i \notin used
    BY <2>2 DEF FreeListSound
  <2>4. /\ words' = [words EXCEPT ![i] = [f \in 1..n |-> Null]] /\ Place(i, n)
        /\ cap' = cap /\ inc' = inc /\ pc # "panic"
    BY <1>1 DEF AllocReuse, AllocReady
  <2> HIDE DEF i
  <2>5. words'[i] = [f \in 1..n |-> Null] /\ \A j \in used : words'[j] = words[j]
    BY <2>2, <2>3, <2>4, TableFacts
  <2>6. cap <= cap' /\ i \in 1 .. cap' - 1 /\ \A j \in cap .. cap' - 1 : inc'[j] = 0
    BY <2>2, <2>4, TableFacts
  <2>7. PlacesNew(MK_HANDLE(i, inc'[i])) /\ \A j \in used : inc'[j] = inc[j]
    BY <2>3, <2>4, <2>5, <2>6, PlaceIsNew
  <2> QED BY <2>4, <2>5, <2>6, <2>7 DEF Place
<1>2. CASE AllocGrow(n)
  <2> DEFINE i == FirstNew
  <2>1. /\ cap \in Nat /\ GrownCap \in Nat /\ i \in 1 .. GrownCap - 1 /\ cap <= i
        /\ cap <= GrownCap
    BY TableFacts, GrowthBounds
  <2>2. i \notin used
    BY <2>1, TableFacts
  <2>3. /\ cap' = GrownCap /\ Place(i, n) /\ pc # "panic"
        /\ inc' = [j \in 0 .. GrownCap - 1 |-> IF j < cap THEN inc[j] ELSE 0]
        /\ words' = [j \in 0 .. GrownCap - 1 |->
                       IF j = i THEN [f \in 1..n |-> Null]
                       ELSE IF j < cap THEN words[j] ELSE << >>]
    BY <1>2 DEF AllocGrow, AllocReady
  <2> HIDE DEF i
  <2>4. words'[i] = [f \in 1..n |-> Null] /\ \A j \in used : words'[j] = words[j]
    <3>1. \A j \in used : j \in 0 .. GrownCap - 1 /\ j < cap /\ j # i
      BY <2>1, <2>2, TableFacts
    <3> QED BY <2>1, <2>3, <3>1
  <2>5. \A j \in 0 .. cap - 1 : inc'[j] = inc[j]
    BY <2>1, <2>3
  <2>6. \A j \in cap .. cap' - 1 : inc'[j] = 0
    BY <2>1, <2>3
  <2>7. PlacesNew(MK_HANDLE(i, inc'[i])) /\ \A j \in used : inc'[j] = inc[j]
    BY <2>1, <2>2, <2>3, <2>4, <2>5, <2>6, PlaceIsNew
  <2> QED BY <2>1, <2>3, <2>4, <2>7 DEF Place
<1> QED BY <1>1, <1>2

(* The sweep takes one object away and gives no handle out.                *)
LEMMA SweepFreeRemoves ==
  ASSUME TypeOK, IncBounded, SweepFree
  PROVE  /\ PastTenants' = PastTenants
         /\ Tenants' = [p \in DOMAIN Tenants \ {MK_HANDLE(cursor, inc[cursor])} |-> Tenants[p]]
         /\ MK_HANDLE(cursor, inc[cursor]) \in DOMAIN Tenants
<1> DEFINE o == MK_HANDLE(cursor, inc[cursor])
           jc == inc'
           vs == words'
           us == used \ {cursor}
           T == TenantsOf(used, inc, words)
           U == TenantsOf(us, jc, vs)
<1>1. /\ cursor \in used /\ cursor \in Index /\ used' = us /\ cap' = cap
      /\ jc[cursor] = inc[cursor] + 1
      /\ \A j \in Index \ {cursor} : jc[j] = inc[j]
      /\ \A j \in us : vs[j] = words[j]
  BY SweepFreeFacts
<1>2. inc[cursor] \in 0 .. MaxInc /\ cap \in Nat /\ used \subseteq Index
  BY <1>1, TableFacts, MaxIncAssumption DEF IncBounded
<1>3. PastTenants' = PastTenants
  <2>1. PastOf(cap, us, jc) = PastOf(cap, used, inc)
    <3> HIDE DEF jc, vs
    <3> QED BY <1>1, <1>2, FreeBorn
  <2> QED BY <1>1, <2>1, MappedState
<1>4. T = Tenants /\ U = Tenants'
  BY <1>1, MappedState
<1> HIDE DEF jc, vs
<1>5. IsTenants(T, used, inc, words)
  BY TenantsAre
<1>6. IsTenants(U, us, jc, vs)
  BY TenantsAre
<1> USE DEF IsTenants, Handles
<1>7. \A j \in used : MK_HANDLE(j, inc[j]) = o <=> j = cursor
  BY HandleFields
<1>8. \A j \in us : jc[j] = inc[j] /\ vs[j] = words[j]
  BY <1>1, <1>2
<1>9. o \in DOMAIN T
  BY <1>1, <1>5
<1>10. U = [p \in DOMAIN T \ {o} |-> T[p]]
  <2>1. DOMAIN U = DOMAIN T \ {o}
    BY <1>5, <1>6, <1>7, <1>8
  <2>2. \A p \in DOMAIN U : U[p] = T[p]
    BY <1>5, <1>6, <1>8
  <2>3. U = [p \in DOMAIN U |-> U[p]]
    BY DEF TenantsOf
  <2> HIDE DEF U, T, o
  <2> QED BY <2>1, <2>2, <2>3
<1> QED BY <1>3, <1>4, <1>9, <1>10

-----------------------------------------------------------------------------
(* The program holds only handles it was given.                            *)
LEMMA HeldParts ==
  /\ Held = {reg} \cup Range(roots) \cup Range(pins)
  /\ Held' = {reg'} \cup Range(roots') \cup Range(pins')
BY DEF Held, RootWords

LEMMA KnownKept ==
  ASSUME HandlesKnown, PastTenants \subseteq PastTenants',
         Held' \subseteq Held \cup PastTenants' \cup {Null},
         \A i \in used' : \/ Range(words'[i]) \subseteq Held \cup {Null}
                          \/ i \in used /\ Range(words'[i]) \subseteq Range(words[i]) \cup Held
  PROVE  HandlesKnown'
<1>1. \A w : Known(w) => Known(w)'
  BY DEF Known
<1>2. \A w \in Held' : Known(w)'
  BY <1>1 DEF HandlesKnown, Known
<1>3. ASSUME NEW i \in used', NEW w \in Range(words'[i]) PROVE Known(w)'
  BY <1>1 DEF HandlesKnown, Known
<1> QED BY <1>2, <1>3 DEF HandlesKnown

(* A step of the program moves handles between the variables it owns, the   *)
(* rooted ones and the one it holds unrooted; it invents none.             *)
Moves ==
  /\ UNCHANGED <<table, free, collector, pc>> /\ pc = "run"
  /\ reg' \in Held \cup {Null}
  /\ Range(roots') \subseteq Held \cup {Null}
  /\ Range(pins') \subseteq Held \cup {Null}

Loads == \E h \in {w \in Held : valid_handle(w)} : \E f \in DOMAIN words[h.idx] : Load(h, f)
Stores ==
  \E h \in {w \in Held : valid_handle(w)} : \E f \in DOMAIN words[h.idx] :
    \E w \in Held : Store(h, f, w)

LEMMA ProgramMoves ==
  ASSUME TypeOK, Program
  PROVE  \/ Moves \/ Loads \/ Stores
         \/ pc = "run" /\ Panic
         \/ cl_gc_collect
         \/ \E t \in Thresholds : cl_gc_set_threshold(t)
<1>1. roots \in Seq(Word) /\ pins \in Seq(Word) /\ Len(roots) \in Nat
      /\ DOMAIN roots = 1 .. Len(roots) /\ DOMAIN pins = 1 .. Len(pins) /\ Len(pins) \in Nat
  BY LenProperties DEF TypeOK, ProgramType
<1>2. reg \in Held /\ Range(roots) \subseteq Held /\ Range(pins) \subseteq Held
      /\ RootWords \subseteq Held
  BY DEF Held, RootWords
<1>3. \A s \in Seq(Word), w \in Held \cup {Null} :
         Range(s) \subseteq Held => Range(Append(s, w)) \subseteq Held \cup {Null}
  <2> SUFFICES ASSUME NEW s \in Seq(Word), NEW w \in Held \cup {Null}, Range(s) \subseteq Held,
                      NEW x \in Range(Append(s, w))
               PROVE  x \in Held \cup {Null}
    OBVIOUS
  <2>1. PICK k \in DOMAIN Append(s, w) : x = Append(s, w)[k]
    BY DEF Range
  <2>2. Len(s) \in Nat /\ DOMAIN s = 1 .. Len(s)
    BY LenProperties
  <2>3. DOMAIN Append(s, w) = 1 .. Len(s) + 1
    BY <2>2
  <2>4. CASE k = Len(s) + 1
    BY <2>1, <2>2, <2>4
  <2>5. CASE k \in 1 .. Len(s)
    <3>1. x = s[k]
      BY <2>1, <2>2, <2>5
    <3> QED BY <2>2, <2>5, <3>1 DEF Range
  <2> QED BY <2>1, <2>2, <2>3, <2>4, <2>5
<1>4. ASSUME NEW w \in {Null, reg}, cl_gc_push_root(w) PROVE Moves
  BY <1>1, <1>2, <1>3, <1>4 DEF cl_gc_push_root, Running, Moves
<1>5. ASSUME NEW n \in 1 .. Len(roots), cl_gc_pop_roots(n) PROVE Moves
  <2>1. Range(roots') \subseteq Range(roots)
    <3>1. Len(roots) - n \in 0 .. Len(roots) /\ roots' = SubSeq(roots, 1, Len(roots) - n)
      BY <1>1, <1>5 DEF cl_gc_pop_roots
    <3>2. DOMAIN roots' = 1 .. Len(roots) - n
          /\ \A k \in 1 .. Len(roots) - n : roots'[k] = roots[k] /\ k \in DOMAIN roots
      BY <1>1, <3>1
    <3> QED BY <3>2 DEF Range
  <2> QED BY <1>2, <1>5, <2>1 DEF cl_gc_pop_roots, Running, Moves
<1>6. CASE cl_gc_pin
  BY <1>1, <1>2, <1>3, <1>6 DEF cl_gc_pin, Running, Moves
<1>7. ASSUME NEW k \in DOMAIN roots, AssignRoot(k) PROVE Moves
  <2>1. Range(roots') \subseteq Range(roots) \cup {reg}
    BY <1>1, <1>7 DEF AssignRoot, Range
  <2> QED BY <1>2, <1>7, <2>1 DEF AssignRoot, Running, Moves
<1>8. ASSUME NEW w \in RootWords, ReadRoot(w) PROVE Moves
  BY <1>2, <1>8 DEF ReadRoot, Running, Moves
<1>9. ASSUME NEW h \in Held, DerefPanics(h) PROVE pc = "run" /\ Panic
  BY <1>9 DEF DerefPanics
<1> QED
  BY <1>4, <1>5, <1>6, <1>7, <1>8, <1>9 DEF Program, Loads, Stores

LEMMA Unmapped ==
  ASSUME UNCHANGED table
  PROVE  PastTenants' = PastTenants /\ Tenants' = Tenants
BY MappedState DEF table

(* Below GenMod incarnations cl_gc_deref accepts a handle only while the    *)
(* object it was made for lives.                                           *)
LEMMA ValidIsLive ==
  ASSUME MaxInc < GenMod, TypeOK, IncBounded, NEW w, Known(w), valid_handle(w)
  PROVE  w = MK_HANDLE(w.idx, inc[w.idx]) /\ w.idx \in used
<1>1. w \in PastTenants /\ w.idx \in used
  BY DEF Known, valid_handle
<1>2. w = MK_HANDLE(w.idx, w.inc) /\ Lived(cap, used, inc, w.idx, w.inc)
  BY <1>1, MappedState, PastIs
<1>3. w.inc \in 0 .. GenMod - 1 /\ inc[w.idx] \in 0 .. GenMod - 1
  BY <1>1, <1>2, TableFacts, MaxIncAssumption, GenModAssumption DEF Lived, IncBounded
<1>4. w.inc % GenMod = w.inc /\ inc[w.idx] % GenMod = inc[w.idx]
  <2>1. \A n \in 0 .. GenMod - 1 : n % GenMod = n
    BY GenModAssumption
  <2> QED BY <1>3, <2>1
<1>5. w.inc = inc[w.idx]
  BY <1>4 DEF valid_handle
<1> QED BY <1>1, <1>2, <1>5

LEMMA LoadFacts ==
  ASSUME TypeOK, NEW h \in {w \in Held : valid_handle(w)}, NEW f \in DOMAIN words[h.idx]
  PROVE  h.idx \in used /\ h.idx \in Index /\ words[h.idx][f] \in Range(words[h.idx])
         /\ words[h.idx] \in Seq(Word)
<1>1. h.idx \in used
  BY DEF valid_handle
<1>2. h.idx \in Index
  BY <1>1, TableFacts
<1> QED BY <1>1, <1>2, TableFacts DEF Range

LEMMA StoreFacts ==
  ASSUME TypeOK, NEW h \in {w \in Held : valid_handle(w)}, NEW f \in DOMAIN words[h.idx],
         NEW w \in Held, Store(h, f, w)
  PROVE  /\ words'[h.idx] = [words[h.idx] EXCEPT ![f] = w]
         /\ \A i \in Index \ {h.idx} : words'[i] = words[i]
         /\ UNCHANGED <<cap, used, inc, pc, reg, roots, pins>> /\ pc = "run"
         /\ Range(words'[h.idx]) \subseteq Range(words[h.idx]) \cup {w}
<1>1. words' = [words EXCEPT ![h.idx] = [words[h.idx] EXCEPT ![f] = w]]
  BY DEF Store
<1>2. /\ words'[h.idx] = [words[h.idx] EXCEPT ![f] = w]
      /\ \A i \in Index \ {h.idx} : words'[i] = words[i]
  BY <1>1, LoadFacts, TableFacts
<1>3. Range(words'[h.idx]) \subseteq Range(words[h.idx]) \cup {w}
  BY <1>2, LoadFacts DEF Range
<1> QED BY <1>2, <1>3 DEF Store, program

LEMMA NextHandlesKnown ==
  TypeOK /\ TypeOK' /\ FreeListSound /\ IncBounded /\ IncBounded' /\ HandlesKnown /\ [Next]_vars
    => HandlesKnown'
<1> SUFFICES ASSUME TypeOK, TypeOK', FreeListSound, IncBounded, IncBounded', HandlesKnown,
                    [Next]_vars
             PROVE  HandlesKnown'
  OBVIOUS
<1>1. ASSUME UNCHANGED table, Held' \subseteq Held \cup {Null} PROVE HandlesKnown'
  <2>1. \A i \in used' : i \in used /\ Range(words'[i]) \subseteq Range(words[i])
    BY <1>1 DEF table
  <2> QED BY <1>1, <2>1, Unmapped, KnownKept
<1>2. ASSUME UNCHANGED table, UNCHANGED program PROVE HandlesKnown'
  BY <1>1, <1>2, HeldParts DEF program
<1>3. ASSUME NEW n, BeginCollect(n) PROVE HandlesKnown'
  BY <1>2, <1>3 DEF BeginCollect
<1>4. CASE Allocate
  <2>1. ASSUME NEW n \in Sizes, AllocReuse(n) \/ AllocGrow(n) PROVE HandlesKnown'
    <3>1. PICK i \in 1 .. cap' - 1 :
             /\ PlacesNew(MK_HANDLE(i, inc'[i])) /\ used' = used \cup {i}
             /\ words'[i] = [f \in 1 .. n |-> Null]
             /\ \A j \in used : inc'[j] = inc[j] /\ words'[j] = words[j]
      BY <2>1, AllocIsNew
    <3>2. PastTenants \subseteq PastTenants' /\ reg' \in PastTenants'
          /\ roots' = roots /\ pins' = pins
      BY <3>1 DEF PlacesNew
    <3>3. Held' \subseteq Held \cup PastTenants'
      BY <3>2, HeldParts
    <3>4. Range(words'[i]) \subseteq {Null}
      BY <3>1 DEF Range
    <3> QED BY <3>1, <3>2, <3>3, <3>4, KnownKept
  <2> QED
    BY <1>2, <1>3, <1>4, <2>1 DEF Allocate, AllocCollects, AllocOutOfMemory, Panic
<1>5. CASE Collect
  <2>1. CASE SweepFree
    <3>1. Held' = Held
      BY <2>1, SweepFreeFacts, HeldParts
    <3>2. \A i \in used' : i \in used /\ words'[i] = words[i]
      BY <2>1, SweepFreeFacts
    <3>3. PastTenants' = PastTenants
      BY <2>1, SweepFreeRemoves
    <3> QED BY <3>1, <3>2, <3>3, KnownKept
  <2> QED
    BY <1>2, <1>5, <2>1 DEF Collect, MarkObject, MarkDone, SweepKeep, SweepDone
<1>6. CASE Program
  <2>1. CASE Moves
    BY <1>1, <2>1, HeldParts DEF Moves
  <2>2. CASE Loads
    <3>1. PICK h \in {w \in Held : valid_handle(w)} : \E f \in DOMAIN words[h.idx] : Load(h, f)
      BY <2>2 DEF Loads
    <3>2. PICK f \in DOMAIN words[h.idx] : Load(h, f)
      BY <3>1
    <3>3. /\ UNCHANGED <<table, roots, pins>> /\ reg' = words[h.idx][f]
      BY <3>2 DEF Load, Running
    <3>4. Known(reg')
      BY <3>3, LoadFacts DEF HandlesKnown
    <3>5. PastTenants' = PastTenants /\ Held' \subseteq Held \cup PastTenants' \cup {Null}
      BY <3>3, <3>4, Unmapped, HeldParts DEF Known
    <3> QED BY <3>3, <3>5, KnownKept DEF table
  <2>3. CASE Stores
    <3>1. PICK h \in {w \in Held : valid_handle(w)} :
             \E f \in DOMAIN words[h.idx] : \E w \in Held : Store(h, f, w)
      BY <2>3 DEF Stores
    <3>2. PICK f \in DOMAIN words[h.idx], w \in Held : Store(h, f, w)
      BY <3>1
    <3>3. PastTenants' = PastTenants
      BY <3>2, MappedState, StoreFacts
    <3>4. Held' = Held
      BY <3>2, HeldParts, StoreFacts
    <3>5. \A i \in used' : i \in used /\ Range(words'[i]) \subseteq Range(words[i]) \cup Held
      <4>1. /\ used' = used /\ used \subseteq Index
            /\ Range(words'[h.idx]) \subseteq Range(words[h.idx]) \cup {w}
            /\ \A i \in Index \ {h.idx} : words'[i] = words[i]
        BY <3>2, StoreFacts, TableFacts
      <4> QED BY <4>1
    <3> QED BY <3>3, <3>4, <3>5, KnownKept
  <2>4. CASE \E t \in Thresholds : cl_gc_set_threshold(t)
    BY <1>2, <2>4 DEF cl_gc_set_threshold, Running
  <2> QED
    BY <1>2, <1>3, <1>6, <2>1, <2>2, <2>3, <2>4, ProgramMoves DEF Panic, cl_gc_collect
<1>7. CASE UNCHANGED vars
  BY <1>2, <1>7 DEF vars
<1> QED BY <1>4, <1>5, <1>6, <1>7 DEF Next

(* Everything the induction rests on, at once.                             *)
HeapInv == TypeOK /\ FreeListSound /\ MarkingSound /\ IncBounded /\ HandlesKnown

LEMMA HandlesCorrect == Spec => []HeapInv
<1>1. Init => HandlesKnown
  BY DEF Init, HandlesKnown, Known, Held, RootWords, Range
<1>2. Spec => [](TypeOK /\ FreeListSound /\ MarkingSound /\ IncBounded)
  BY TypeCorrect, FreeListCorrect, MarkingCorrect, IncCorrect, PTL
<1> QED BY <1>1, <1>2, NextHandlesKnown, PTL DEF Spec, HeapInv

(* "Dereferencing a stale handle is detected": true of every program until a *)
(* slot has been freed as often as there are generations.                   *)
THEOREM StaleHandlesDetected == ASSUME MaxInc < GenMod PROVE Spec => []StaleHandleDetected
<1>1. HeapInv => StaleHandleDetected
  BY ValidIsLive, HandleFields DEF HeapInv, HandlesKnown, StaleHandleDetected
<1> QED BY <1>1, HandlesCorrect, PTL

-----------------------------------------------------------------------------
(* The refinement: initial states map to initial states.                   *)
LEMMA InitMaps == Init => Abstract!Init
<1> SUFFICES ASSUME Init PROVE Abstract!Init
  OBVIOUS
<1>1. Tenants = << >>
  BY DEF Init, Tenants
<1>2. PastTenants = {}
  BY DEF Init, PastTenants
<1> QED BY <1>1, <1>2 DEF Init, Abstract!Init

(* What a sweep frees is unreachable in the abstract heap.                 *)
LEMMA FreedUnreachable ==
  ASSUME TypeOK, IncBounded, MarkingSound, SweepFree
  PROVE  MK_HANDLE(cursor, inc[cursor]) \notin Abstract!Reachable
<1> DEFINE o == MK_HANDLE(cursor, inc[cursor])
           S == {MK_HANDLE(i, inc[i]) : i \in marked}
<1>1. /\ cursor \in used /\ cursor \notin marked /\ marked \subseteq used
      /\ Targets(RootWords) \subseteq marked
      /\ \A i \in marked : Targets(Range(words[i])) \subseteq marked
  BY SweepFreeFacts DEF MarkingSound
<1>2. IsTenants(Tenants, used, inc, words)
  BY MappedState, TenantsAre
<1>3. DOMAIN Tenants = Handles(used, inc)
      /\ \A i \in used : Tenants[MK_HANDLE(i, inc[i])] = words[i]
  BY <1>2 DEF IsTenants
<1>4. S \subseteq DOMAIN Tenants /\ o \notin S
  BY <1>1, <1>3, HandleFields DEF Handles
<1>5. \A ws : Targets(ws) \subseteq marked => ws \cap DOMAIN Tenants \subseteq S
  <2> SUFFICES ASSUME NEW ws, Targets(ws) \subseteq marked, NEW i \in used,
                      MK_HANDLE(i, inc[i]) \in ws
               PROVE  i \in marked
    BY <1>3 DEF Handles
  <2> QED BY RefsAreTargets DEF Refs
<1>6. RootWords \cap DOMAIN Tenants \subseteq S
  BY <1>1, <1>5
<1>7. \A p \in S : Range(Tenants[p]) \cap DOMAIN Tenants \subseteq S
  BY <1>1, <1>3, <1>5
<1>8. /\ Abstract!Live = DOMAIN Tenants /\ Abstract!Rooted = RootWords
      /\ \A p : Abstract!FieldsOf(p) = Range(Tenants[p])
  BY DEF Abstract!Live, Abstract!Rooted, Abstract!FieldsOf, Abstract!Range, Range, RootWords
<1> HIDE DEF S, o
<1>9. o \notin Abstract!Reachable
  BY <1>4, <1>6, <1>7, <1>8 DEF Abstract!Reachable
<1> QED BY <1>9 DEF o

LEMMA AbstractHeld ==
  /\ Abstract!Held = Held /\ Abstract!Live = DOMAIN Tenants
  /\ Abstract!Live' = DOMAIN Tenants'
  /\ \A t : Abstract!Range(t) = Range(t)
BY DEF Abstract!Held, Abstract!Rooted, Abstract!Live, Abstract!Range, Range, Held, RootWords

(* Every step maps to a step of the abstract heap, or changes none of what  *)
(* the abstract heap shows.                                                *)
LEMMA AllocMaps ==
  ASSUME HeapInv, HeapInv', NEW n \in Sizes, AllocReuse(n) \/ AllocGrow(n)
  PROVE  Abstract!Next
<1>1. PICK i \in 1 .. cap' - 1 : PlacesNew(MK_HANDLE(i, inc'[i]))
  BY AllocIsNew DEF HeapInv
<1> DEFINE o == MK_HANDLE(i, inc'[i])
<1>2. Abstract!Allocate(o) /\ o \in PastTenants' \ PastTenants
  BY <1>1, AbstractHeld DEF PlacesNew, Abstract!Allocate
<1> QED BY <1>2 DEF Abstract!Next

LEMMA SweepFreeMaps ==
  ASSUME HeapInv, SweepFree
  PROVE  Abstract!Next
<1> DEFINE o == MK_HANDLE(cursor, inc[cursor])
<1>1. /\ PastTenants' = PastTenants
      /\ Tenants' = [p \in DOMAIN Tenants \ {o} |-> Tenants[p]]
      /\ o \in DOMAIN Tenants
  BY SweepFreeRemoves DEF HeapInv
<1>2. o \notin Abstract!Reachable
  BY FreedUnreachable DEF HeapInv
<1>3. UNCHANGED <<roots, pins, reg, pc>> /\ pc = "sweep"
  BY SweepFreeFacts DEF HeapInv
<1> HIDE DEF o
<1>4. Abstract!Reclaim(o)
  BY <1>1, <1>2, <1>3, AbstractHeld DEF Abstract!Reclaim
<1>5. o \in Abstract!Live \ Abstract!Live'
  BY <1>1, AbstractHeld
<1> QED BY <1>4, <1>5 DEF Abstract!Next

LEMMA LoadMaps ==
  ASSUME MaxInc < GenMod, HeapInv, Loads
  PROVE  Abstract!Next
<1>1. PICK h \in {w \in Held : valid_handle(w)} : \E f \in DOMAIN words[h.idx] : Load(h, f)
  BY DEF Loads
<1>2. PICK f \in DOMAIN words[h.idx] : Load(h, f)
  BY <1>1
<1>3. h = MK_HANDLE(h.idx, inc[h.idx]) /\ h.idx \in used
  BY ValidIsLive DEF HeapInv, HandlesKnown
<1>4. h \in DOMAIN Tenants /\ Tenants[h] = words[h.idx]
  <2>1. IsTenants(Tenants, used, inc, words)
    BY MappedState, TenantsAre
  <2> QED BY <1>3, <2>1 DEF IsTenants, Handles
<1>5. /\ UNCHANGED <<table, roots, pins, pc>> /\ reg' = words[h.idx][f] /\ pc = "run"
  BY <1>2 DEF Load, Running
<1>6. Abstract!Read(h, f)
  BY <1>4, <1>5, Unmapped, AbstractHeld DEF Abstract!Read
<1> QED BY <1>4, <1>6, AbstractHeld DEF Abstract!Next

LEMMA StoreMaps ==
  ASSUME MaxInc < GenMod, HeapInv, Stores
  PROVE  Abstract!Next
<1>1. PICK h \in {w \in Held : valid_handle(w)} :
         \E f \in DOMAIN words[h.idx] : \E w \in Held : Store(h, f, w)
  BY DEF Stores
<1>2. PICK f \in DOMAIN words[h.idx], w \in Held : Store(h, f, w)
  BY <1>1
<1>3. h = MK_HANDLE(h.idx, inc[h.idx]) /\ h.idx \in used /\ TypeOK
  BY ValidIsLive DEF HeapInv, HandlesKnown
<1> DEFINE T == Tenants
           U == Tenants'
           vs == words'
<1>4. /\ vs[h.idx] = [words[h.idx] EXCEPT ![f] = w]
      /\ \A i \in Index \ {h.idx} : vs[i] = words[i]
      /\ UNCHANGED <<cap, used, inc, pc, reg, roots, pins>> /\ pc = "run"
  BY <1>2, <1>3, StoreFacts
<1>5. IsTenants(T, used, inc, words) /\ IsTenants(U, used, inc, vs)
  BY <1>4, MappedState, TenantsAre
<1>6. U = [p \in DOMAIN U |-> U[p]] /\ T = [p \in DOMAIN T |-> T[p]]
  BY DEF Tenants
<1>7. PastTenants' = PastTenants
  BY <1>4, MappedState
<1> HIDE DEF T, U, vs
<1>8. DOMAIN U = DOMAIN T /\ h \in DOMAIN T /\ T[h] = words[h.idx]
  BY <1>3, <1>5 DEF IsTenants, Handles
<1>9. U[h] = [T[h] EXCEPT ![f] = w]
  BY <1>3, <1>4, <1>5, <1>8 DEF IsTenants
<1>10. \A p \in DOMAIN T : p # h => U[p] = T[p]
  <2> SUFFICES ASSUME NEW i \in used, MK_HANDLE(i, inc[i]) # h
               PROVE  U[MK_HANDLE(i, inc[i])] = T[MK_HANDLE(i, inc[i])]
    BY <1>5 DEF IsTenants, Handles
  <2>1. i \in Index \ {h.idx}
    BY <1>3, TableFacts
  <2> QED BY <1>4, <1>5, <2>1 DEF IsTenants
<1>11. U = [T EXCEPT ![h] = [T[h] EXCEPT ![f] = w]]
  BY <1>6, <1>8, <1>9, <1>10
<1>12. Abstract!Write(h, f, w)
  BY <1>4, <1>7, <1>8, <1>11, AbstractHeld DEF Abstract!Write, T, U
<1> QED BY <1>8, <1>12, AbstractHeld DEF Abstract!Next, T

LEMMA StepMaps ==
  ASSUME MaxInc < GenMod, HeapInv, HeapInv', [Next]_vars
  PROVE  [Abstract!Next]_(Abstract!avars)
<1> DEFINE Stutters == UNCHANGED <<table, program>> /\ (pc' = "panic" <=> pc = "panic")
<1>1. ASSUME Stutters PROVE UNCHANGED Abstract!avars
  BY <1>1, Unmapped DEF Abstract!avars, program
<1>2. ASSUME pc # "panic", Panic PROVE Abstract!Next
  <2>1. Abstract!Halt
    BY <1>2, Unmapped DEF Abstract!Halt, Panic, program
  <2> QED BY <2>1 DEF Abstract!Next
<1>3. ASSUME NEW n, pc # "panic", BeginCollect(n) PROVE Stutters
  BY <1>3 DEF BeginCollect
<1>4. CASE Allocate
  <2>1. ASSUME NEW n \in Sizes, AllocCollects(n) PROVE Stutters
    BY <1>3, <2>1 DEF AllocCollects
  <2>2. ASSUME NEW n \in Sizes, AllocOutOfMemory(n) PROVE Abstract!Next
    BY <1>2, <2>2 DEF AllocOutOfMemory, AllocReady
  <2> HIDE DEF Stutters
  <2> QED BY <1>1, <1>4, <2>1, <2>2, AllocMaps DEF Allocate
<1>5. CASE Collect
  <2>1. CASE SweepFree
    BY <2>1, SweepFreeMaps
  <2>2. CASE ~SweepFree
    <3>1. Stutters
      BY <1>5, <2>2 DEF Collect, MarkObject, MarkDone, SweepKeep, SweepDone
    <3> QED BY <1>1, <3>1
  <2> QED BY <2>1, <2>2
<1>6. CASE Program
  <2>1. CASE Moves
    <3>1. Abstract!Reroot
      BY <2>1, Unmapped, AbstractHeld DEF Abstract!Reroot, Moves
    <3> QED BY <3>1 DEF Abstract!Next
  <2>2. CASE cl_gc_collect
    <3>1. Stutters
      BY <1>3, <2>2 DEF cl_gc_collect
    <3> QED BY <1>1, <3>1
  <2>3. CASE \E t \in Thresholds : cl_gc_set_threshold(t)
    <3>1. Stutters
      BY <2>3 DEF cl_gc_set_threshold, Running
    <3> QED BY <1>1, <3>1
  <2>4. TypeOK
    BY DEF HeapInv
  <2> HIDE DEF Stutters
  <2> QED
    BY <1>2, <1>6, <2>1, <2>2, <2>3, <2>4, LoadMaps, StoreMaps, ProgramMoves
<1>7. CASE UNCHANGED vars
  <2>1. Stutters
    BY <1>7 DEF vars
  <2> QED BY <1>1, <2>1
<1> QED BY <1>4, <1>5, <1>6, <1>7 DEF Next

(* The heap keeps what AbstractHeap promises: a fresh reference for every   *)
(* allocation, no object lost while a root reaches it, no field changed but *)
(* by a store through a reference to the object, and a panic for a          *)
(* reference to an object that is gone.                                    *)
THEOREM HeapImplementsAbstract ==
  ASSUME MaxInc < GenMod PROVE Spec => ImplementsAbstractHeap
<1>1. HeapInv /\ HeapInv' /\ [Next]_vars => [Abstract!Next]_(Abstract!avars)
  BY StepMaps
<1> QED
  BY <1>1, InitMaps, HandlesCorrect, PTL DEF Spec, ImplementsAbstractHeap, Abstract!Spec
=============================================================================
