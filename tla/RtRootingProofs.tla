--------------------------- MODULE RtRootingProofs ---------------------------
(***************************************************************************)
(* RtRooting keeps every handle it holds alive, for any number of objects, *)
(* temporaries, literals and arguments, and wherever collections come.     *)
(*                                                                         *)
(* RtInv says what each call in progress has rooted and where else what it *)
(* holds is reachable from. At most two calls are active, since no runtime *)
(* function calls another one that calls a third. The outermost holds what *)
(* the emitted frame's temporaries hold, what it has pushed on the shadow  *)
(* stack, and what it allocated last. The inner one was passed what its    *)
(* caller has rooted, the interned literals, or a key of a rooted map. So  *)
(* what a collection frees is in no variable that will be read.            *)
(*                                                                         *)
(* EachOwned says that no two containers share a buffer, so writing to one *)
(* container's buffer, or giving it another, changes the contents of no    *)
(* other one.                                                              *)
(***************************************************************************)
EXTENDS RtRooting, Inductions, SequenceTheorems, TLAPS

\* What a variable may hold when L are the live objects.
Val(L) == L \cup {Null} \cup Lits
OfKind(kind, L) == {o \in L : Kind(o) = kind}
EntriesOver(L) == [key : Val(L), val : Val(L), live : BOOLEAN]
WordsOver(o, L) == IF Kind(o) = "entries" THEN Seq(EntriesOver(L)) ELSE Seq(Val(L))
ObjectOver(o, L) ==
  [buf : OfKind("buf", L) \cup {Null}, entries : OfKind("entries", L) \cup {Null},
   index : OfKind("index", L) \cup {Null}, len : Nat, words : WordsOver(o, L)]

\* A vector is no longer than its buffer.
Fits(hp, o) == hp[o].len <= Len(IF hp[o].buf = Null THEN << >> ELSE hp[hp[o].buf].words)

\* The objects of a heap refer to its objects.
GoodHeap(hp) ==
  /\ hp = [o \in DOMAIN hp |-> hp[o]]
  /\ IsFiniteSet(DOMAIN hp) /\ DOMAIN hp \subseteq Ids
  /\ \A o \in DOMAIN hp : hp[o] \in ObjectOver(o, DOMAIN hp)
  /\ \A o \in DOMAIN hp : Fits(hp, o)

Points ==
  {"entry", "grown", "compact", "reindex", "indexed", "room", "regrown", "append", "root",
   "loop", "pin", "set", "done", "arg", "pushed", "copy", "call", "body", "exit"}
FromTemps == {"vec_push", "map_set", "map_keys", "concat", "read_file_cb", "write_file_cb"}
FrameOver(L) ==
  [fn : FromTemps \cup {"strlit", "args", "callback"}, at : Points, h : Val(L), k : Val(L), v : Val(L), x : Val(L), i : Nat,
   dst : Temps \cup {Null}]

AtIn(f, fn, ats) == f.fn = fn /\ f.at \in ats

\* What the variables of a call hold at its points.
HoldsWhat(f, hp) ==
  /\ f.fn = "vec_push" => f.h \in OfKind("vec", DOMAIN hp)
  /\ AtIn(f, "vec_push", {"grown"}) =>
       f.x \in OfKind("buf", DOMAIN hp) /\ \A o \in DOMAIN hp : hp[o].buf # f.x
  /\ f.fn = "map_set" => f.h \in OfKind("map", DOMAIN hp)
  /\ AtIn(f, "map_set", {"compact", "regrown"}) =>
       f.x \in OfKind("entries", DOMAIN hp) /\ \A o \in DOMAIN hp : hp[o].entries # f.x
  /\ AtIn(f, "map_set", {"indexed"}) => f.x \in OfKind("index", DOMAIN hp)
  /\ f.fn = "map_keys" => f.h \in OfKind("map", DOMAIN hp)
  /\ AtIn(f, "map_keys", {"root", "loop"}) => f.x \in OfKind("vec", DOMAIN hp)
  /\ AtIn(f, "strlit", {"pin"}) => f.x \in OfKind("map", DOMAIN hp)
  /\ AtIn(f, "args", {"root"}) => f.x \in OfKind("vec", DOMAIN hp)
  /\ AtIn(f, "args", {"loop", "arg", "pushed"}) => f.h \in OfKind("vec", DOMAIN hp)

\* A call of the emitted frame is passed that frame's temporaries, or makes its
\* own objects.
Outermost(f, tm, in) ==
  /\ f.fn \in FromTemps \cup {"strlit", "args"}
  /\ f.fn \in FromTemps => {f.h, f.k, f.v} \subseteq Range(tm) \cup {Null}
  /\ f.fn = "strlit" => f.h = Null /\ f.k \in Lits /\ f.v = Null
  /\ AtIn(f, "strlit", {"set", "done"}) => in # Null
  /\ f.fn = "args" =>
       f.k = Null /\ f.v = Null /\ (f.at \in {"loop", "arg", "pushed"} \/ f.h = Null)
  /\ f.fn = "write_file_cb" => f.x = Null

\* The calls c that runtime functions make of others, f, and what they pass:
\* what they have rooted, or the key of an entry of a map that is.
KeysOf(hp, m) == {e.key : e \in Range(hp[hp[m].entries].words)}
Nested(c, f, hp, in) ==
  /\ f.dst = Null
  /\ \/ /\ AtIn(c, "map_keys", {"loop"}) /\ f.fn = "vec_push"
        /\ f.h = c.x /\ f.k = Null /\ hp[c.h].entries # Null /\ f.v \in KeysOf(hp, c.h)
     \/ /\ AtIn(c, "strlit", {"done"}) /\ f.fn = "map_set"
        /\ f.h = in /\ f.k \in Lits /\ f.v = c.x
     \/ /\ AtIn(c, "args", {"pushed"}) /\ f.fn = "vec_push"
        /\ f.h = c.h /\ f.k = Null /\ f.v = c.x
     \/ /\ AtIn(c, "read_file_cb", {"done"}) /\ f.fn = "callback"
        /\ f.h = c.k /\ f.k = Null /\ f.v = c.x
     \/ /\ AtIn(c, "write_file_cb", {"done"}) /\ f.fn = "callback"
        /\ f.h = c.k /\ f.k = Null /\ f.v = Null

\* What a call at depth d has on the shadow stack.
Rooted(f, d) ==
  IF \/ AtIn(f, "map_keys", {"loop"}) \/ AtIn(f, "strlit", {"done"})
     \/ AtIn(f, "read_file_cb", {"done"})
  THEN << <<d, "x">> >>
  ELSE IF AtIn(f, "args", {"loop", "arg"}) THEN << <<d, "h">> >>
  ELSE IF AtIn(f, "args", {"pushed"}) THEN << <<d, "h">>, <<d, "x">> >>
  ELSE IF AtIn(f, "callback", {"body", "exit"}) THEN << <<d, "x">>, <<d, "h">>, <<d, "v">> >>
  ELSE << >>

GoodOuter(f, hp, tm, in) ==
  f \in FrameOver(DOMAIN hp) /\ HoldsWhat(f, hp) /\ Outermost(f, tm, in)
GoodInner(c, f, hp, in) ==
  f \in FrameOver(DOMAIN hp) /\ HoldsWhat(f, hp) /\ Nested(c, f, hp, in)

NoCall(st, rt) == st = << >> /\ rt = FrameRoots
OneCall(f, hp, tm, in, st, rt) ==
  st = <<f>> /\ GoodOuter(f, hp, tm, in) /\ rt = FrameRoots \o Rooted(f, 1)
TwoCalls(c, f, hp, tm, in, st, rt) ==
  /\ st = <<c, f>> /\ GoodOuter(c, hp, tm, in) /\ GoodInner(c, f, hp, in)
  /\ rt = (FrameRoots \o Rooted(c, 1)) \o Rooted(f, 2)

GoodMemory(hp, tm, in, pn) ==
  /\ GoodHeap(hp)
  /\ tm \in [Temps -> Val(DOMAIN hp)]
  /\ in \in OfKind("map", DOMAIN hp) \cup {Null} /\ pn \in BOOLEAN /\ (in # Null => pn)
GoodStack(hp, tm, in, st, rt) ==
  \/ NoCall(st, rt)
  \/ \E f : OneCall(f, hp, tm, in, st, rt)
  \/ \E c, f : TwoCalls(c, f, hp, tm, in, st, rt)
Good(hp, tm, in, pn, rt, st) == GoodMemory(hp, tm, in, pn) /\ GoodStack(hp, tm, in, st, rt)

RtInv == Good(heap, temps, intern, pinned, roots, stack)

-----------------------------------------------------------------------------
LEMMA IdsAre ==
  ASSUME NEW kind \in DOMAIN MaxObjs, NEW n \in 1 .. MaxObjs[kind]
  PROVE  <<kind, n>> \in Ids /\ Kind(<<kind, n>>) = kind
<1>1. <<kind, n>> \in {kind} \X (1 .. MaxObjs[kind])
  OBVIOUS
<1> QED BY <1>1 DEF Ids, Kind

LEMMA ValRefs == ASSUME NEW L, L \subseteq Ids, NEW y \in Val(L) PROVE y \in Ids => y \in L
BY HandlesAssumption DEF Val

LEMMA NoneIsNone == Null \notin Ids /\ Lits \cap Ids = {} /\ Null \notin Lits
BY HandlesAssumption, NullAssumption

LEMMA RangeIs == \A f, y : y \in Range(f) <=> \E z \in DOMAIN f : y = f[z]
BY DEF Range

LEMMA FieldsAre ==
  ASSUME NEW o, NEW y, y \in Ids
  PROVE  /\ y \in {heap[o].buf, heap[o].entries, heap[o].index} => y \in Fields(o)
         /\ Kind(o) # "entries" /\ y \in Range(heap[o].words) => y \in Fields(o)
         /\ \A e : Kind(o) = "entries" /\ e \in Range(heap[o].words) /\ y \in {e.key, e.val} => y \in Fields(o)
<1>1. Kind(o) # "entries" => Handles(o) = Range(heap[o].words)
  BY DEF Handles
<1>2. Kind(o) = "entries" => Handles(o) = UNION {{e.key, e.val} : e \in Range(heap[o].words)}
  BY DEF Handles
<1> QED BY <1>1, <1>2 DEF Fields, Refs

\* A good object whose fields are in K is good over K.
LEMMA GoodOver ==
  ASSUME NEW L, NEW K, L \subseteq Ids, K \subseteq L, NEW o, heap[o] \in ObjectOver(o, L),
         Fields(o) \subseteq K
  PROVE  heap[o] \in ObjectOver(o, K)
<1> DEFINE b == heap[o]
<1>1. \A y : y \in Ids /\ y \in {b.buf, b.entries, b.index} => y \in K
  BY FieldsAre
<1>2. /\ b = [buf |-> b.buf, entries |-> b.entries, index |-> b.index, len |-> b.len, words |-> b.words]
      /\ b.buf \in OfKind("buf", L) \cup {Null} /\ b.entries \in OfKind("entries", L) \cup {Null}
      /\ b.index \in OfKind("index", L) \cup {Null} /\ b.len \in Nat /\ b.words \in WordsOver(o, L)
  BY DEF ObjectOver
<1>3. /\ b.buf \in OfKind("buf", K) \cup {Null} /\ b.entries \in OfKind("entries", K) \cup {Null}
      /\ b.index \in OfKind("index", K) \cup {Null}
  BY <1>1, <1>2 DEF OfKind
<1>4. b.words \in WordsOver(o, K)
  <2>1. CASE Kind(o) = "entries"
    <3>1. b.words \in Seq(EntriesOver(L))
      BY <1>2, <2>1 DEF WordsOver
    <3>2. ASSUME NEW i \in 1 .. Len(b.words) PROVE b.words[i] \in EntriesOver(K)
      <4> DEFINE e == b.words[i]
      <4>1. e \in EntriesOver(L) /\ e \in Range(b.words)
        BY <3>1, RangeIs
      <4>2. \A y : y \in Ids /\ y \in {e.key, e.val} => y \in K
        BY <2>1, <4>1, FieldsAre
      <4> HIDE DEF e
      <4>3. e.key \in Val(K) /\ e.val \in Val(K)
        BY <4>1, <4>2 DEF EntriesOver, Val
      <4> QED BY <4>1, <4>3 DEF EntriesOver, e
    <3>3. b.words \in Seq(EntriesOver(K))
      BY <3>1, <3>2
    <3> QED BY <2>1, <3>3 DEF WordsOver
  <2>2. CASE Kind(o) # "entries"
    <3>1. b.words \in Seq(Val(L))
      BY <1>2, <2>2 DEF WordsOver
    <3>2. ASSUME NEW i \in 1 .. Len(b.words) PROVE b.words[i] \in Val(K)
      <4>1. b.words[i] \in Val(L) /\ b.words[i] \in Range(b.words)
        BY <3>1, RangeIs
      <4>2. b.words[i] \in Ids => b.words[i] \in K
        BY <2>2, <4>1, FieldsAre
      <4> QED BY <4>1, <4>2 DEF Val
    <3>3. b.words \in Seq(Val(K))
      BY <3>1, <3>2
    <3> QED BY <2>2, <3>3 DEF WordsOver
  <2> QED BY <2>1, <2>2
<1> HIDE DEF b
<1>5. b \in ObjectOver(o, K)
  BY <1>2, <1>3, <1>4 DEF ObjectOver
<1> QED BY <1>5 DEF b

\* The fields of a good object are live.
LEMMA FieldsLive ==
  ASSUME NEW L, L \subseteq Ids, NEW o, heap[o] \in ObjectOver(o, L)
  PROVE  Fields(o) \subseteq L
<1> SUFFICES ASSUME NEW y \in Fields(o) PROVE y \in L
  OBVIOUS
<1> DEFINE b == heap[o]
<1>1. /\ b.buf \in OfKind("buf", L) \cup {Null} /\ b.entries \in OfKind("entries", L) \cup {Null}
      /\ b.index \in OfKind("index", L) \cup {Null} /\ b.words \in WordsOver(o, L)
  BY DEF ObjectOver
<1>2. y \in Ids /\ y \in {b.buf, b.entries, b.index} \cup Handles(o)
  BY DEF Fields, Refs
<1>3. CASE y \in {b.buf, b.entries, b.index}
  BY <1>1, <1>2, <1>3, NoneIsNone DEF OfKind
<1>4. CASE y \in Handles(o)
  <2>1. CASE Kind(o) = "entries"
    <3>1. PICK e \in Range(b.words) : y \in {e.key, e.val}
      BY <1>4, <2>1 DEF Handles
    <3>2. b.words \in Seq(EntriesOver(L))
      BY <1>1, <2>1 DEF WordsOver
    <3>3. e \in EntriesOver(L)
      BY <3>1, <3>2, RangeIs
    <3>4. y \in Val(L)
      BY <3>1, <3>3 DEF EntriesOver
    <3> QED BY <1>2, <3>4, ValRefs
  <2>2. CASE Kind(o) # "entries"
    <3>1. y \in Range(b.words) /\ b.words \in Seq(Val(L))
      BY <1>1, <1>4, <2>2 DEF Handles, WordsOver
    <3>2. y \in Val(L)
      BY <3>1, RangeIs
    <3> QED BY <1>2, <3>2, ValRefs
  <2> QED BY <2>1, <2>2
<1> QED BY <1>2, <1>3, <1>4

-----------------------------------------------------------------------------
\* The sets of what the roots reach in n steps grow until they are closed, and
\* there are no more than so many objects.
Nearer(S) == S \cup ((UNION {Fields(o) : o \in S}) \cap Live)
IsWithin(w, N) ==
  w = [n \in 0 .. N |-> IF n = 0 THEN RootSet \cap Live
                         ELSE LET nearer == w[n - 1]
                              IN  nearer \cup ((UNION {Fields(o) : o \in nearer}) \cap Live)]

LEMMA WithinExists ==
  ASSUME NEW N \in Nat
  PROVE  \E w : IsWithin(w, N)
<1> DEFINE S == SUBSET Live
           c == RootSet \cap Live
           d == [n \in 1 .. N |-> [q \in S |-> Nearer(q)]]
<1>1. c \in S /\ \A q \in S : Nearer(q) \in S
  BY DEF Nearer
<1> HIDE DEF S, c
<1>2. IsStep(d, N, S)
  BY <1>1 DEF IsStep
<1>3. \A n \in 1 .. N : \A q \in S : d[n][q] = Nearer(q)
  OBVIOUS
<1> HIDE DEF d
<1>4. PICK g : Iterates(g, d, c, N, S)
  BY <1>1, <1>2, Iteration
<1>5. g \in [0 .. N -> S] /\ g[0] = c /\ \A n \in 1 .. N : g[n] = d[n][g[n - 1]]
  BY <1>4 DEF Iterates
<1>6. ASSUME NEW n \in 1 .. N PROVE g[n] = Nearer(g[n - 1])
  <2>1. n - 1 \in 0 .. N
    OBVIOUS
  <2> QED BY <1>3, <1>5, <2>1
<1>7. \A n \in 0 .. N : g[n] = IF n = 0 THEN c ELSE Nearer(g[n - 1])
  BY <1>5, <1>6
<1>8. g = [n \in 0 .. N |-> IF n = 0 THEN c ELSE Nearer(g[n - 1])]
  BY <1>5, <1>7
<1>9. IsWithin(g, N)
  BY Zenon, <1>8 DEF IsWithin, Nearer, c
<1> QED BY <1>9

LEMMA ReachedIs ==
  ASSUME Cardinality(Live) \in Nat
  PROVE  \E w : /\ Reached = w[Cardinality(Live)]
                /\ w[0] = RootSet \cap Live
                /\ \A n \in 1 .. Cardinality(Live) : w[n] = Nearer(w[n - 1])
<1> DEFINE N == Cardinality(Live)
           w == CHOOSE x : IsWithin(x, N)
<1>1. Reached = w[N]
  BY Zenon DEF Reached, IsWithin
<1>2. \E x : IsWithin(x, N)
  BY WithinExists
<1>3. IsWithin(w, N)
  BY Zenon, <1>2
<1> HIDE DEF w
<1>4. \A n \in 0 .. N : w[n] = IF n = 0 THEN RootSet \cap Live ELSE Nearer(w[n - 1])
  BY Zenon, <1>3 DEF IsWithin, Nearer
<1>5. w[0] = RootSet \cap Live /\ \A n \in 1 .. N : w[n] = Nearer(w[n - 1])
  <2>1. 0 \in 0 .. N /\ \A n \in 1 .. N : n \in 0 .. N /\ n # 0
    OBVIOUS
  <2> QED BY Zenon, <1>4, <2>1
<1> QED BY <1>1, <1>5

\* What is reached is live, includes the roots, and is closed.
LEMMA ReachedCloses ==
  ASSUME IsFiniteSet(Live)
  PROVE  /\ Reached \subseteq Live /\ RootSet \cap Live \subseteq Reached
         /\ \A o \in Reached : Fields(o) \cap Live \subseteq Reached
<1> DEFINE N == Cardinality(Live)
<1>1. N \in Nat
  BY FS_CardinalityType
<1>2. PICK w : /\ Reached = w[N]
               /\ w[0] = RootSet \cap Live
               /\ \A n \in 1 .. N : w[n] = Nearer(w[n - 1])
  BY <1>1, ReachedIs
<1> HIDE DEF N
<1> DEFINE Ok(n) == /\ w[n] \subseteq Live /\ RootSet \cap Live \subseteq w[n]
                    /\ Nearer(w[n]) = w[n] \/ Cardinality(w[n]) >= n
           T == {n \in Nat : n <= N => Ok(n)}
<1>3. \A q : q \subseteq Live => /\ IsFiniteSet(q) /\ Cardinality(q) \in Nat /\ Cardinality(q) <= N
                                /\ (Cardinality(q) = N => q = Live)
  BY FS_Subset, FS_CardinalityType DEF N
<1>4. 0 \in T
  BY <1>2, <1>3
<1>5. ASSUME NEW n \in Nat, n \in T PROVE n + 1 \in T
  <2> SUFFICES ASSUME n + 1 <= N PROVE Ok(n + 1)
    OBVIOUS
  <2>1. Ok(n)
    BY <1>1, <1>5
  <2>2. w[n + 1] = Nearer(w[n])
    <3>1. n + 1 \in 1 .. N /\ (n + 1) - 1 = n
      BY <1>1
    <3> QED BY <1>2, <3>1
  <2>3. w[n] \subseteq Nearer(w[n]) /\ Nearer(w[n]) \subseteq Live
    BY <2>1 DEF Nearer
  <2>4. CASE Nearer(w[n]) = w[n]
    BY <2>1, <2>2, <2>4
  <2>5. CASE Nearer(w[n]) # w[n]
    <3>1. Cardinality(w[n]) < Cardinality(Nearer(w[n]))
      <4>1. IsFiniteSet(Nearer(w[n]))
        BY <1>3, <2>3
      <4> QED BY <2>3, <2>5, <4>1, <1>3, FS_Subset
    <3>2. Cardinality(w[n]) >= n /\ Cardinality(w[n]) \in Nat /\ Cardinality(w[n + 1]) \in Nat
      BY <1>3, <2>1, <2>2, <2>3, <2>5
    <3>3. Cardinality(w[n + 1]) >= n + 1
      BY <2>2, <3>1, <3>2
    <3> QED BY <2>1, <2>2, <2>3, <3>3
  <2> QED BY <2>4, <2>5
<1> HIDE DEF T
<1>6. Nat \subseteq T
  BY <1>4, <1>5, NaturalInduction
<1>7. Ok(N)
  BY <1>1, <1>6 DEF T
<1>8. Nearer(w[N]) \subseteq w[N]
  <2>1. CASE Cardinality(w[N]) >= N
    <3>1. w[N] = Live
      BY <1>1, <1>3, <1>7, <2>1
    <3> QED BY <3>1 DEF Nearer
  <2> QED BY <1>7, <2>1
<1>9. \A o \in w[N] : Fields(o) \cap Live \subseteq w[N]
  BY <1>8 DEF Nearer
<1> QED BY <1>2, <1>7, <1>9

\* What survives the collection before an allocation, if there is one.
LEMMA SurvivorsClosed ==
  ASSUME GoodHeap(heap), NEW kept \in Survivors
  PROVE  /\ kept \subseteq Live /\ IsFiniteSet(kept) /\ RootSet \cap Live \subseteq kept
         /\ \A o \in kept : Fields(o) \subseteq kept
<1>1. \A o \in Live : Fields(o) \subseteq Live
  BY FieldsLive DEF GoodHeap, Live
<1>2. IsFiniteSet(Live)
  BY DEF GoodHeap, Live
<1>3. kept = Reached \/ kept = Live
  BY DEF Survivors
<1>4. kept \subseteq Live /\ RootSet \cap Live \subseteq kept
  BY <1>2, <1>3, ReachedCloses
<1>5. ASSUME NEW o \in kept PROVE Fields(o) \subseteq kept
  <2>1. Fields(o) \subseteq Live
    BY <1>1, <1>4
  <2>2. Fields(o) \cap Live \subseteq kept
    BY <1>1, <1>2, <1>3, ReachedCloses
  <2> QED BY <2>1, <2>2
<1> QED BY <1>2, <1>4, <1>5, FS_Subset

\* The object that is allocated.
LEMMA FreshIs ==
  ASSUME NEW kind \in DOMAIN MaxObjs, NEW kept, NEW o \in Fresh(kind, kept)
  PROVE  o \in Ids /\ Kind(o) = kind /\ o \notin kept \cup Mentioned(kept)
<1> DEFINE unused == {n \in 1 .. MaxObjs[kind] : <<kind, n>> \notin kept \cup Mentioned(kept)}
<1>1. unused # {} /\ o = <<kind, Min(unused)>>
  BY Zenon DEF Fresh
<1>2. Min(unused) \in unused
  <2>1. unused \in SUBSET Nat
    OBVIOUS
  <2> HIDE DEF unused
  <2> QED BY <1>1, <2>1, MinIsLeast
<1> QED BY <1>1, <1>2, IdsAre

\* The heap after an allocation that kept `kept'.
AllocIn(o, kept) == [p \in kept \cup {o} |-> IF p = o THEN Object ELSE heap[p]]
Allocated(hp, o, kept) ==
  /\ DOMAIN hp = kept \cup {o} /\ hp[o].buf = Null /\ hp[o].entries = Null
  /\ \A p \in kept : hp[p] = heap[p] /\ heap[p].buf # o /\ heap[p].entries # o
LEMMA AllocGood ==
  ASSUME GoodHeap(heap), NEW kept \in Survivors, NEW kind \in DOMAIN MaxObjs,
         NEW o \in Fresh(kind, kept)
  PROVE  GoodHeap(AllocIn(o, kept)) /\ Allocated(AllocIn(o, kept), o, kept)
<1> DEFINE hp == AllocIn(o, kept)
           L == kept \cup {o}
<1>1. o \in Ids /\ Kind(o) = kind /\ o \notin kept /\ o \notin Mentioned(kept)
  BY FreshIs
<1>2. /\ kept \subseteq Live /\ IsFiniteSet(kept)
      /\ \A p \in kept : Fields(p) \subseteq kept
  BY SurvivorsClosed
<1>3. DOMAIN hp = L /\ hp = [p \in L |-> hp[p]]
  BY DEF AllocIn
<1>4. hp[o] = Object /\ \A p \in kept : hp[p] = heap[p]
  BY <1>1 DEF AllocIn
<1>5. IsFiniteSet(L) /\ L \subseteq Ids
  BY <1>1, <1>2, FS_AddElement DEF GoodHeap, Live
<1> HIDE DEF hp
<1>6. ASSUME NEW p \in L PROVE hp[p] \in ObjectOver(p, L)
  <2>1. CASE p = o
    <3>1. << >> \in WordsOver(o, L)
      BY DEF WordsOver
    <3> QED BY <1>4, <2>1, <3>1 DEF Object, ObjectOver
  <2>2. CASE p \in kept
    <3>1. heap[p] \in ObjectOver(p, Live) /\ Live \subseteq Ids
      BY <1>2, <2>2 DEF GoodHeap, Live
    <3>2. Fields(p) \subseteq L
      BY <1>2, <2>2
    <3>3. heap[p] \in ObjectOver(p, kept)
      BY <1>2, <2>2, <3>1, GoodOver
    <3>4. OfKind("buf", kept) \subseteq OfKind("buf", L) /\ OfKind("entries", kept) \subseteq OfKind("entries", L)
          /\ OfKind("index", kept) \subseteq OfKind("index", L) /\ WordsOver(p, kept) \subseteq WordsOver(p, L)
      <4>1. kept \subseteq L /\ Val(kept) \subseteq Val(L)
        BY DEF Val
      <4> HIDE DEF L
      <4>2. EntriesOver(kept) \subseteq EntriesOver(L)
        BY <4>1 DEF EntriesOver
      <4>3. \A A, B : A \subseteq B => Seq(A) \subseteq Seq(B)
        OBVIOUS
      <4>4. WordsOver(p, kept) \subseteq WordsOver(p, L)
        BY <4>1, <4>2, <4>3 DEF WordsOver
      <4> QED BY <4>1, <4>4 DEF OfKind
    <3>5. ObjectOver(p, kept) \subseteq ObjectOver(p, L)
      BY <3>4 DEF ObjectOver
    <3> QED BY <1>4, <2>2, <3>3, <3>5
  <2> QED BY <2>1, <2>2
<1>7. ASSUME NEW p \in L PROVE Fits(hp, p)
  <2>1. CASE p = o
    BY <1>4, <2>1 DEF Object, Fits
  <2>2. CASE p \in kept
    <3>1. hp[p] = heap[p] /\ Fits(heap, p)
      BY <1>2, <1>4, <2>2 DEF GoodHeap, Live
    <3>2. heap[p].buf # Null => heap[p].buf \in kept
      <4>1. heap[p] \in ObjectOver(p, Live) /\ Live \subseteq Ids
        BY <1>2, <2>2 DEF GoodHeap, Live
      <4>2. heap[p].buf # Null => heap[p].buf \in Ids
        BY <4>1 DEF ObjectOver, OfKind
      <4> QED BY <1>2, <2>2, <4>2, FieldsAre
    <3>3. heap[p].buf # Null => hp[heap[p].buf] = heap[heap[p].buf]
      BY <1>4, <3>2
    <3> QED BY <3>1, <3>3 DEF Fits
  <2> QED BY <2>1, <2>2
<1>8. ASSUME NEW p \in kept PROVE heap[p].buf # o /\ heap[p].entries # o
  <2>1. heap[p].buf = o \/ heap[p].entries = o => o \in Fields(p)
    BY <1>1, FieldsAre
  <2> QED BY <1>1, <1>2, <2>1
<1>9. GoodHeap(hp)
  BY <1>3, <1>5, <1>6, <1>7 DEF GoodHeap
<1> QED BY <1>3, <1>4, <1>8, <1>9 DEF Object, Allocated, hp

-----------------------------------------------------------------------------
\* What a call becomes when it goes on at another point.
Moved(f, at, h, x, i) ==
  [fn |-> f.fn, at |-> at, h |-> h, k |-> f.k, v |-> f.v, x |-> x, i |-> i, dst |-> f.dst]

LEMMA FrameMoves ==
  ASSUME NEW L, NEW f \in FrameOver(L), NEW at, NEW y
  PROVE  /\ [f EXCEPT !.at = at] = Moved(f, at, f.h, f.x, f.i)
         /\ [[f EXCEPT !.at = at] EXCEPT !.x = y] = Moved(f, at, f.h, y, f.i)
         /\ [[f EXCEPT !.at = at] EXCEPT !.h = y] = Moved(f, at, y, f.x, f.i)
         /\ [f EXCEPT !.i = y] = Moved(f, f.at, f.h, f.x, y)
<1> DEFINE g == Moved(f, at, f.h, f.x, f.i)
<1>1. [f EXCEPT !.at = at] = g
  BY DEF FrameOver, Moved
<1>2. [g EXCEPT !.x = y] = Moved(f, at, f.h, y, f.i)
  BY DEF Moved
<1>3. [g EXCEPT !.h = y] = Moved(f, at, y, f.x, f.i)
  BY DEF Moved
<1>4. [f EXCEPT !.i = y] = Moved(f, f.at, f.h, f.x, y)
  BY DEF FrameOver, Moved
<1> HIDE DEF g
<1> QED BY <1>1, <1>2, <1>3, <1>4 DEF g

\* A change of the topmost call.
LEMMA TopField ==
  ASSUME NEW s, NEW d, NEW y
  PROVE  /\ [s EXCEPT ![d].at = y] = [s EXCEPT ![d] = [s[d] EXCEPT !.at = y]]
         /\ [s EXCEPT ![d].x = y] = [s EXCEPT ![d] = [s[d] EXCEPT !.x = y]]
         /\ [s EXCEPT ![d].h = y] = [s EXCEPT ![d] = [s[d] EXCEPT !.h = y]]
         /\ [s EXCEPT ![d].i = y] = [s EXCEPT ![d] = [s[d] EXCEPT !.i = y]]
BY Zenon

LEMMA TopIs ==
  ASSUME NEW c, NEW f, NEW g
  PROVE  /\ Len(<<f>>) = 1 /\ <<f>>[1] = f /\ [<<f>> EXCEPT ![1] = g] = <<g>>
         /\ Len(<<c, f>>) = 2 /\ <<c, f>>[2] = f /\ <<c, f>>[1] = c /\ [<<c, f>> EXCEPT ![2] = g] = <<c, g>>
OBVIOUS

\* s is a stack whose topmost call is f, at depth d, and t is s with g instead.
OnTop(s, t, d, f, g) ==
  \/ s = <<f>> /\ t = <<g>> /\ d = 1
  \/ \E c : s = <<c, f>> /\ t = <<c, g>> /\ d = 2

LEMMA TopMoves ==
  ASSUME NEW L, NEW f \in FrameOver(L), NEW at, NEW y,
         NEW s, NEW d, (s = <<f>> /\ d = 1) \/ (\E c : s = <<c, f>> /\ d = 2)
  PROVE  /\ OnTop(s, [s EXCEPT ![d].at = at], d, f, Moved(f, at, f.h, f.x, f.i))
         /\ OnTop(s, [s EXCEPT ![d].at = at, ![d].x = y], d, f, Moved(f, at, f.h, y, f.i))
         /\ OnTop(s, [s EXCEPT ![d].at = at, ![d].h = y], d, f, Moved(f, at, y, f.x, f.i))
         /\ OnTop(s, [s EXCEPT ![d].i = y], d, f, Moved(f, f.at, f.h, f.x, y))
<1>1. \A g : OnTop(s, [s EXCEPT ![d] = g], d, f, g) /\ [s EXCEPT ![d] = g][d] = g
  BY TopIs DEF OnTop
<1>2. \A g, u : OnTop(s, [[s EXCEPT ![d] = g] EXCEPT ![d] = u], d, f, u)
  BY TopIs DEF OnTop
<1>3. s[d] = f
  BY TopIs
<1> DEFINE g == [f EXCEPT !.at = at]
           s1 == [s EXCEPT ![d].at = at]
<1>4. s1 = [s EXCEPT ![d] = g] /\ s1[d] = g
  BY <1>1, <1>3, TopField
<1>5. /\ [s EXCEPT ![d].at = at, ![d].x = y] = [s1 EXCEPT ![d].x = y]
      /\ [s EXCEPT ![d].at = at, ![d].h = y] = [s1 EXCEPT ![d].h = y]
  BY Zenon
<1> HIDE DEF s1, g
<1>6. /\ [s1 EXCEPT ![d].x = y] = [s1 EXCEPT ![d] = [g EXCEPT !.x = y]]
      /\ [s1 EXCEPT ![d].h = y] = [s1 EXCEPT ![d] = [g EXCEPT !.h = y]]
  BY Zenon, <1>4, TopField
<1>7. OnTop(s, s1, d, f, Moved(f, at, f.h, f.x, f.i))
  BY Zenon, <1>1, <1>4, FrameMoves DEF g
<1>8. OnTop(s, [s EXCEPT ![d].at = at, ![d].x = y], d, f, Moved(f, at, f.h, y, f.i))
  <2>1. [s EXCEPT ![d].at = at, ![d].x = y] = [[s EXCEPT ![d] = g] EXCEPT ![d] = [g EXCEPT !.x = y]]
    BY Zenon, <1>4, <1>5, <1>6
  <2>2. [g EXCEPT !.x = y] = Moved(f, at, f.h, y, f.i)
    BY Zenon, FrameMoves DEF g
  <2> QED BY Zenon, <1>2, <2>1, <2>2
<1>9. OnTop(s, [s EXCEPT ![d].at = at, ![d].h = y], d, f, Moved(f, at, y, f.x, f.i))
  <2>1. [s EXCEPT ![d].at = at, ![d].h = y] = [[s EXCEPT ![d] = g] EXCEPT ![d] = [g EXCEPT !.h = y]]
    BY Zenon, <1>4, <1>5, <1>6
  <2>2. [g EXCEPT !.h = y] = Moved(f, at, y, f.x, f.i)
    BY Zenon, FrameMoves DEF g
  <2> QED BY Zenon, <1>2, <2>1, <2>2
<1>10. OnTop(s, [s EXCEPT ![d].i = y], d, f, Moved(f, f.at, f.h, f.x, y))
  <2>1. [s EXCEPT ![d].i = y] = [s EXCEPT ![d] = [f EXCEPT !.i = y]]
    BY Zenon, <1>3, TopField
  <2> QED BY Zenon, <1>1, <2>1, FrameMoves
<1> QED BY <1>7, <1>8, <1>9, <1>10 DEF s1

-----------------------------------------------------------------------------
\* A handle that a rooted variable holds survives.
LEMMA RootKept ==
  ASSUME GoodHeap(heap), NEW kept \in Survivors, NEW a \in Range(roots),
         Value(a) \in Val(DOMAIN heap)
  PROVE  Value(a) \in Val(kept)
<1>1. Value(a) \in Ids => Value(a) \in RootSet
  BY DEF RootSet, Refs
<1>2. Value(a) \in Ids => Value(a) \in Live
  BY ValRefs DEF GoodHeap, Live
<1>3. RootSet \cap Live \subseteq kept
  BY SurvivorsClosed
<1>4. Value(a) \in Ids => Value(a) \in kept
  BY <1>1, <1>2, <1>3
<1>5. Value(a) \in Ids \/ Value(a) \in Val({})
  BY DEF Val, GoodHeap
<1> QED BY <1>4, <1>5 DEF Val

\* A live object of some kind that is kept is a kept object of that kind.
LEMMA StillOfKind ==
  ASSUME NEW L, L \subseteq Ids, NEW K, NEW kind, NEW y \in OfKind(kind, L), y \in Val(K)
  PROVE  y \in OfKind(kind, K)
BY NoneIsNone DEF OfKind, Val

LEMMA FrameRootsAre ==
  /\ FrameRoots \in Seq({0} \X Temps) /\ Len(FrameRoots) = NTemps
  /\ \A t \in Temps : FrameRoots[t] = <<0, t>>
<1>1. NTemps \in Nat
  BY BoundsAssumption
<1> QED BY <1>1 DEF FrameRoots, Temps

\* The addresses that a call at depth d roots.
Addresses(d) == {<<d, "h">>, <<d, "v">>, <<d, "x">>}
LEMMA RootedType == ASSUME NEW f, NEW d PROVE Rooted(f, d) \in Seq(Addresses(d))
<1> DEFINE A == Addresses(d)
<1>1. <<d, "h">> \in A /\ <<d, "v">> \in A /\ <<d, "x">> \in A
  BY DEF Addresses
<1> HIDE DEF A
<1>2. \A a, b \in A : << >> \in Seq(A) /\ <<a>> \in Seq(A) /\ <<a, b>> \in Seq(A)
  OBVIOUS
<1> QED BY <1>1, <1>2 DEF Rooted, A

LEMMA MemoryKept ==
  ASSUME GoodMemory(heap, temps, intern, pinned), NEW kept \in Survivors,
         Range(FrameRoots) \subseteq Range(roots)
  PROVE  temps \in [Temps -> Val(kept)] /\ intern \in OfKind("map", kept) \cup {Null}
<1>1. GoodHeap(heap) /\ temps \in [Temps -> Val(DOMAIN heap)]
  BY DEF GoodMemory
<1>2. ASSUME NEW t \in Temps PROVE temps[t] \in Val(kept)
  <2>1. <<0, t>> \in Range(roots)
    <3>1. t \in DOMAIN FrameRoots /\ FrameRoots[t] = <<0, t>>
      BY DEF FrameRoots
    <3> QED BY <3>1, RangeIs
  <2>2. Value(<<0, t>>) = temps[t]
    BY DEF Value
  <2> QED BY <1>1, <2>1, <2>2, RootKept
<1>3. ASSUME intern # Null PROVE intern \in OfKind("map", kept)
  <2>1. intern \in OfKind("map", DOMAIN heap) /\ pinned
    BY <1>3 DEF GoodMemory
  <2>2. intern \in RootSet \cap Live
    BY <2>1, <1>1 DEF RootSet, Refs, OfKind, GoodHeap, Live
  <2> QED BY <1>1, <2>1, <2>2, SurvivorsClosed DEF OfKind
<1> QED BY <1>1, <1>2, <1>3

LEMMA RangeConcat ==
  ASSUME NEW S, NEW p \in Seq(S), NEW q \in Seq(S)
  PROVE  Range(p) \subseteq Range(p \o q) /\ Range(q) \subseteq Range(p \o q)
<1> DEFINE r == p \o q
<1>1. /\ Len(p) \in Nat /\ Len(q) \in Nat /\ DOMAIN p = 1 .. Len(p) /\ DOMAIN q = 1 .. Len(q)
      /\ DOMAIN r = 1 .. Len(p) + Len(q)
      /\ \A i \in 1 .. Len(p) : r[i] = p[i]
      /\ \A i \in 1 .. Len(q) : r[Len(p) + i] = q[i]
  OBVIOUS
<1> HIDE DEF r
<1>2. ASSUME NEW i \in DOMAIN p PROVE p[i] \in Range(r)
  <2>1. i \in DOMAIN r /\ r[i] = p[i]
    BY <1>1
  <2> QED BY <2>1, RangeIs
<1>3. ASSUME NEW i \in DOMAIN q PROVE q[i] \in Range(r)
  <2>1. Len(p) + i \in DOMAIN r /\ r[Len(p) + i] = q[i]
    BY <1>1
  <2> QED BY <2>1, RangeIs
<1> QED BY <1>2, <1>3, RangeIs DEF r

\* The shadow stack has what the emitted frame and each call rooted.
LEMMA RootsHave ==
  ASSUME NEW c, NEW f
  PROVE  /\ roots = FrameRoots \o Rooted(c, 1) =>
              Range(FrameRoots) \cup Range(Rooted(c, 1)) \subseteq Range(roots)
         /\ roots = (FrameRoots \o Rooted(c, 1)) \o Rooted(f, 2) =>
              Range(FrameRoots) \cup Range(Rooted(c, 1)) \cup Range(Rooted(f, 2)) \subseteq Range(roots)
<1> DEFINE A == ({0} \X Temps) \cup Addresses(1) \cup Addresses(2)
<1>1. \A X, Y : X \subseteq Y => Seq(X) \subseteq Seq(Y)
  OBVIOUS
<1>2. FrameRoots \in Seq(A) /\ Rooted(c, 1) \in Seq(A) /\ Rooted(f, 2) \in Seq(A)
  <2>1. {0} \X Temps \subseteq A /\ Addresses(1) \subseteq A /\ Addresses(2) \subseteq A
    OBVIOUS
  <2> HIDE DEF A
  <2> QED BY <1>1, <2>1, FrameRootsAre, RootedType
<1> HIDE DEF A
<1>3. FrameRoots \o Rooted(c, 1) \in Seq(A)
  BY <1>2
<1>4. Range(FrameRoots) \cup Range(Rooted(c, 1)) \subseteq Range(FrameRoots \o Rooted(c, 1))
  BY <1>2, RangeConcat
<1>5. /\ Range(FrameRoots \o Rooted(c, 1)) \subseteq Range((FrameRoots \o Rooted(c, 1)) \o Rooted(f, 2))
      /\ Range(Rooted(f, 2)) \subseteq Range((FrameRoots \o Rooted(c, 1)) \o Rooted(f, 2))
  BY <1>2, <1>3, RangeConcat
<1> QED BY <1>4, <1>5

\* A variable of a call that it has on the shadow stack survives.
LEMMA RootedKept ==
  ASSUME GoodHeap(heap), NEW kept \in Survivors,
         NEW d \in {1, 2}, NEW f \in FrameOver(DOMAIN heap), stack[d] = f,
         Range(Rooted(f, d)) \subseteq Range(roots)
  PROVE  /\ AtIn(f, "args", {"loop", "arg", "pushed"}) => f.h \in Val(kept)
         /\ AtIn(f, "map_keys", {"loop"}) => f.x \in Val(kept)
         /\ AtIn(f, "strlit", {"done"}) => f.x \in Val(kept)
         /\ AtIn(f, "read_file_cb", {"done"}) => f.x \in Val(kept)
         /\ AtIn(f, "args", {"pushed"}) => f.x \in Val(kept)
         /\ AtIn(f, "callback", {"body", "exit"}) => {f.h, f.v, f.x} \subseteq Val(kept)
<1>1. Value(<<d, "h">>) = f.h /\ Value(<<d, "v">>) = f.v /\ Value(<<d, "x">>) = f.x
  BY DEF Value
<1>2. f.h \in Val(DOMAIN heap) /\ f.v \in Val(DOMAIN heap) /\ f.x \in Val(DOMAIN heap)
  BY DEF FrameOver
<1>3. \A y : /\ Range(<<y>>) = {y}
             /\ \A z : Range(<<y, z>>) = {y, z}
  <2>1. ASSUME NEW y, NEW z PROVE Range(<<y>>) = {y} /\ Range(<<y, z>>) = {y, z}
    <3>1. DOMAIN <<y>> = {1} /\ DOMAIN <<y, z>> = {1, 2}
      OBVIOUS
    <3> QED BY <3>1 DEF Range
  <2> QED BY <2>1
<1>4. Range(<< <<d, "x">>, <<d, "h">>, <<d, "v">> >>) = {<<d, "x">>, <<d, "h">>, <<d, "v">>}
  <2>1. DOMAIN << <<d, "x">>, <<d, "h">>, <<d, "v">> >> = {1, 2, 3}
    OBVIOUS
  <2> QED BY <2>1 DEF Range
<1>5. /\ AtIn(f, "args", {"loop", "arg", "pushed"}) => <<d, "h">> \in Range(roots)
      /\ AtIn(f, "map_keys", {"loop"}) => <<d, "x">> \in Range(roots)
      /\ AtIn(f, "strlit", {"done"}) => <<d, "x">> \in Range(roots)
      /\ AtIn(f, "read_file_cb", {"done"}) => <<d, "x">> \in Range(roots)
      /\ AtIn(f, "args", {"pushed"}) => <<d, "x">> \in Range(roots)
      /\ AtIn(f, "callback", {"body", "exit"}) =>
           {<<d, "x">>, <<d, "h">>, <<d, "v">>} \subseteq Range(roots)
  BY <1>3, <1>4 DEF AtIn, Rooted
<1> QED BY <1>1, <1>2, <1>5, RootKept

\* What the outermost call holds, and reads again, survives an allocation.
LEMMA OuterKept ==
  ASSUME GoodMemory(heap, temps, intern, pinned), NEW kept \in Survivors,
         NEW f, GoodOuter(f, heap, temps, intern), stack[1] = f,
         Range(FrameRoots) \subseteq Range(roots), Range(Rooted(f, 1)) \subseteq Range(roots)
  PROVE  f.h \in Val(kept) /\ f.k \in Val(kept) /\ f.v \in Val(kept)
<1>1. temps \in [Temps -> Val(kept)] /\ GoodHeap(heap)
  BY MemoryKept DEF GoodMemory
<1>2. Null \in Val(kept) /\ Lits \subseteq Val(kept)
  BY DEF Val
<1>3. CASE f.fn \in FromTemps
  <2>1. {f.h, f.k, f.v} \subseteq Range(temps) \cup {Null}
    BY <1>3 DEF GoodOuter, Outermost
  <2>2. Range(temps) \subseteq Val(kept)
    BY <1>1, RangeIs
  <2> QED BY <1>2, <2>1, <2>2
<1>4. CASE f.fn = "strlit"
  BY <1>2, <1>4 DEF GoodOuter, Outermost
<1>5. CASE f.fn = "args"
  <2>1. f.h = Null \/ AtIn(f, "args", {"loop", "arg", "pushed"})
    BY <1>5 DEF GoodOuter, Outermost, AtIn
  <2>2. AtIn(f, "args", {"loop", "arg", "pushed"}) => f.h \in Val(kept)
    BY <1>1, RootedKept DEF GoodOuter
  <2>3. f.k = Null /\ f.v = Null
    BY <1>5 DEF GoodOuter, Outermost
  <2> QED BY <1>2, <2>1, <2>2, <2>3
<1> QED BY <1>3, <1>4, <1>5 DEF GoodOuter, Outermost

\* Once it has called another function, its own object does too.
CallsOn(c) ==
  \/ AtIn(c, "map_keys", {"loop"}) \/ AtIn(c, "strlit", {"done"})
  \/ AtIn(c, "args", {"pushed"}) \/ AtIn(c, "read_file_cb", {"done"})
  \/ AtIn(c, "write_file_cb", {"done"})
LEMMA CallerKept ==
  ASSUME GoodMemory(heap, temps, intern, pinned), NEW kept \in Survivors,
         NEW f, GoodOuter(f, heap, temps, intern), stack[1] = f, CallsOn(f),
         Range(FrameRoots) \subseteq Range(roots), Range(Rooted(f, 1)) \subseteq Range(roots)
  PROVE  f.x \in Val(kept)
<1>1. f \in FrameOver(DOMAIN heap) /\ GoodHeap(heap)
  BY DEF GoodOuter, GoodMemory
<1>2. CASE AtIn(f, "write_file_cb", {"done"})
  BY <1>2 DEF GoodOuter, Outermost, AtIn, Val
<1> QED BY <1>1, <1>2, RootedKept DEF CallsOn

\* And so does what it passed on.
LEMMA InnerKept ==
  ASSUME GoodMemory(heap, temps, intern, pinned), NEW kept \in Survivors,
         NEW c, NEW f, GoodOuter(c, heap, temps, intern), GoodInner(c, f, heap, intern),
         {c.h, c.k, c.x} \subseteq Val(kept), intern \in Val(kept)
  PROVE  /\ f.h \in Val(kept) /\ f.k \in Val(kept) /\ f.v \in Val(kept)
         /\ AtIn(c, "map_keys", {"loop"}) => c.h \in kept /\ heap[c.h].entries \in kept
<1>1. Null \in Val(kept) /\ Lits \subseteq Val(kept)
  BY DEF Val
<1>2. CASE AtIn(c, "map_keys", {"loop"})
  <2> DEFINE es == heap[c.h].entries
  <2>1. f.h = c.x /\ f.k = Null /\ es # Null /\ f.v \in KeysOf(heap, c.h)
    BY <1>2 DEF GoodInner, Nested, AtIn
  <2>2. c.h \in OfKind("map", DOMAIN heap)
    BY <1>2 DEF GoodOuter, HoldsWhat, AtIn
  <2>3. DOMAIN heap \subseteq Ids /\ GoodHeap(heap)
    BY DEF GoodMemory, GoodHeap
  <2>4. c.h \in kept
    BY <2>2, <2>3, StillOfKind DEF OfKind
  <2>5. /\ \A o \in kept : Fields(o) \subseteq kept
        /\ kept \subseteq DOMAIN heap
    BY <2>3, SurvivorsClosed DEF Live
  <2>6. es \in OfKind("entries", DOMAIN heap)
    <3>1. heap[c.h] \in ObjectOver(c.h, DOMAIN heap)
      BY <2>2, <2>3 DEF GoodHeap, OfKind
    <3> QED BY <2>1, <3>1 DEF ObjectOver
  <2>7. es \in kept /\ Kind(es) = "entries"
    <3>1. es \in Ids /\ Kind(es) = "entries"
      BY <2>3, <2>6 DEF OfKind
    <3> HIDE DEF es
    <3>2. es \in Fields(c.h)
      BY <3>1, FieldsAre DEF es
    <3> QED BY <2>4, <2>5, <3>1, <3>2
  <2>8. f.v \in Ids => f.v \in Fields(es)
    <3>1. PICK e \in Range(heap[es].words) : f.v = e.key
      BY <2>1 DEF KeysOf
    <3> HIDE DEF es
    <3> QED BY <2>7, <3>1, FieldsAre
  <2>9. f.v \in Val(DOMAIN heap)
    BY DEF GoodInner, FrameOver
  <2>10. f.v \in Val(kept)
    <3>1. f.v \in Ids => f.v \in kept
      BY <2>5, <2>7, <2>8
    <3> QED BY <2>3, <2>9, <3>1 DEF Val
  <2> QED BY <1>1, <2>1, <2>4, <2>7, <2>10
<1>3. CASE ~ AtIn(c, "map_keys", {"loop"})
  BY <1>1, <1>3 DEF GoodInner, Nested
<1> QED BY <1>2, <1>3

-----------------------------------------------------------------------------
\* Where the functions allocate, what, and where they go on.
AllocPoints ==
  {<<"vec_push", "entry", "buf", "grown">>,
   <<"map_set", "entry", "entries", "compact">>, <<"map_set", "reindex", "index", "indexed">>,
   <<"map_set", "room", "entries", "regrown">>, <<"map_keys", "entry", "vec", "root">>,
   <<"strlit", "entry", "map", "pin">>, <<"strlit", "entry", "str", "set">>,
   <<"args", "entry", "vec", "root">>, <<"args", "loop", "str", "arg">>,
   <<"concat", "entry", "str", "copy">>, <<"read_file_cb", "entry", "str", "call">>,
   <<"callback", "body", "str", "exit">>}

LEMMA AllocKinds ==
  ASSUME NEW fn, NEW from, NEW kind, NEW to, <<fn, from, kind, to>> \in AllocPoints
  PROVE  kind \in DOMAIN MaxObjs /\ to \in Points
<1>1. DOMAIN MaxObjs = {"str", "vec", "map", "buf", "entries", "index"}
  BY MaxObjsAssumption
<1>2. kind \in {"str", "vec", "map", "buf", "entries", "index"}
  BY DEF AllocPoints
<1>3. to \in Points
  BY DEF AllocPoints, Points
<1> QED BY <1>1, <1>2, <1>3

\* The call that allocated.
LEMMA AllocFrame ==
  ASSUME GoodHeap(heap), NEW kept \in Survivors, NEW o, NEW f \in FrameOver(DOMAIN heap),
         NEW from, NEW kind, NEW to, <<f.fn, from, kind, to>> \in AllocPoints, f.at = from,
         o \in Fresh(kind, kept), HoldsWhat(f, heap),
         f.h \in Val(kept) /\ f.k \in Val(kept) /\ f.v \in Val(kept)
  PROVE  /\ Moved(f, to, f.h, o, f.i) \in FrameOver(DOMAIN AllocIn(o, kept))
         /\ HoldsWhat(Moved(f, to, f.h, o, f.i), AllocIn(o, kept))
         /\ \A d : Rooted(Moved(f, to, f.h, o, f.i), d) = Rooted(f, d)
<1> DEFINE hp == AllocIn(o, kept)
           L == DOMAIN hp
           g == Moved(f, to, f.h, o, f.i)
<1>1. kind \in DOMAIN MaxObjs /\ to \in Points
  BY AllocKinds
<1>2. /\ L = kept \cup {o}
      /\ \A p \in kept : hp[p] = heap[p] /\ heap[p].buf # o /\ heap[p].entries # o
      /\ hp[o].buf = Null /\ hp[o].entries = Null
  <2>1. kind \in DOMAIN MaxObjs
    BY <1>1
  <2>2. Allocated(hp, o, kept)
    BY <2>1, AllocGood
  <2> HIDE DEF hp
  <2> QED BY <2>2 DEF Allocated
<1>3. o \in Ids /\ Kind(o) = kind
  BY <1>1, FreshIs
<1>4. kept \subseteq L /\ o \in L /\ Val(kept) \subseteq Val(L)
  BY <1>2 DEF Val
<1>5. o \in OfKind(kind, L) /\ \A p \in L : hp[p].buf # o /\ hp[p].entries # o
  BY <1>2, <1>3, <1>4, NoneIsNone DEF OfKind
<1>6. /\ f.h \in OfKind("vec", DOMAIN heap) => f.h \in OfKind("vec", L)
      /\ f.h \in OfKind("map", DOMAIN heap) => f.h \in OfKind("map", L)
  <2>1. DOMAIN heap \subseteq Ids
    BY DEF GoodHeap
  <2>2. /\ f.h \in OfKind("vec", DOMAIN heap) => f.h \in OfKind("vec", kept)
        /\ f.h \in OfKind("map", DOMAIN heap) => f.h \in OfKind("map", kept)
    BY <2>1, StillOfKind
  <2> QED BY <1>4, <2>2 DEF OfKind
<1>7. /\ g.fn = f.fn /\ g.at = to /\ g.h = f.h /\ g.k = f.k /\ g.v = f.v /\ g.x = o
      /\ g.i = f.i /\ g.dst = f.dst
  BY DEF Moved
<1>8. g \in FrameOver(L)
  <2>1. o \in Val(L)
    BY <1>4 DEF Val
  <2> QED BY <1>1, <1>4, <2>1 DEF FrameOver, Moved
<1> HIDE DEF g, L, hp
<1>9. HoldsWhat(g, hp)
  BY <1>5, <1>6, <1>7 DEF HoldsWhat, AtIn, AllocPoints, L
<1>10. \A d : Rooted(g, d) = Rooted(f, d)
  BY <1>7 DEF Rooted, AtIn, AllocPoints
<1> QED BY <1>8, <1>9, <1>10 DEF g, L, hp

\* The memory after it.
LEMMA AllocMemory ==
  ASSUME GoodMemory(heap, temps, intern, pinned), NEW kept \in Survivors,
         Range(FrameRoots) \subseteq Range(roots), NEW kind \in DOMAIN MaxObjs,
         NEW o \in Fresh(kind, kept)
  PROVE  GoodMemory(AllocIn(o, kept), temps, intern, pinned)
<1> DEFINE hp == AllocIn(o, kept)
<1>1. GoodHeap(heap) /\ pinned \in BOOLEAN /\ (intern # Null => pinned)
  BY DEF GoodMemory
<1>2. GoodHeap(hp) /\ DOMAIN hp = kept \cup {o}
  <2>1. GoodHeap(hp) /\ Allocated(hp, o, kept)
    BY <1>1, AllocGood
  <2> HIDE DEF hp
  <2> QED BY <2>1 DEF Allocated
<1>3. temps \in [Temps -> Val(kept)] /\ intern \in OfKind("map", kept) \cup {Null}
  BY MemoryKept
<1> HIDE DEF hp
<1>4. Val(kept) \subseteq Val(DOMAIN hp) /\ OfKind("map", kept) \subseteq OfKind("map", DOMAIN hp)
  BY <1>2 DEF Val, OfKind
<1>5. temps \in [Temps -> Val(DOMAIN hp)]
  BY <1>3, <1>4
<1> QED BY <1>1, <1>2, <1>3, <1>4, <1>5 DEF GoodMemory, hp

\* An allocation of the outermost call.
LEMMA AllocOne ==
  ASSUME GoodMemory(heap, temps, intern, pinned), NEW kept \in Survivors, NEW f, NEW o,
         OneCall(f, heap, temps, intern, stack, roots),
         NEW from, NEW kind, NEW to, <<f.fn, from, kind, to>> \in AllocPoints, f.at = from,
         o \in Fresh(kind, kept), f.fn = "strlit" /\ to = "set" => intern # Null
  PROVE  Good(AllocIn(o, kept), temps, intern, pinned, roots, <<Moved(f, to, f.h, o, f.i)>>)
<1> DEFINE hp == AllocIn(o, kept)
           g == Moved(f, to, f.h, o, f.i)
<1>1. /\ stack[1] = f /\ roots = FrameRoots \o Rooted(f, 1) /\ GoodOuter(f, heap, temps, intern)
      /\ Range(FrameRoots) \subseteq Range(roots) /\ Range(Rooted(f, 1)) \subseteq Range(roots)
  BY RootsHave, TopIs DEF OneCall
<1>2. GoodMemory(hp, temps, intern, pinned)
  BY <1>1, AllocKinds, AllocMemory
<1>3. f.h \in Val(kept) /\ f.k \in Val(kept) /\ f.v \in Val(kept)
  BY <1>1, OuterKept
<1>4. g \in FrameOver(DOMAIN hp) /\ HoldsWhat(g, hp) /\ Rooted(g, 1) = Rooted(f, 1)
  BY <1>1, <1>3, AllocFrame DEF GoodOuter, GoodMemory
<1>5. /\ g.fn = f.fn /\ g.at = to /\ g.h = f.h /\ g.k = f.k /\ g.v = f.v
  BY DEF Moved
<1> HIDE DEF g, hp
<1>6. Outermost(g, temps, intern)
  BY <1>1, <1>5 DEF GoodOuter, Outermost, AtIn, AllocPoints, FromTemps
<1>7. OneCall(g, hp, temps, intern, <<g>>, roots)
  BY <1>1, <1>4, <1>6 DEF OneCall, GoodOuter
<1> QED BY <1>2, <1>7 DEF Good, GoodStack, g, hp

\* An allocation of a function that another one called.
LEMMA AllocTwo ==
  ASSUME GoodMemory(heap, temps, intern, pinned), NEW kept \in Survivors, NEW c, NEW f, NEW o,
         TwoCalls(c, f, heap, temps, intern, stack, roots),
         NEW from, NEW kind, NEW to, <<f.fn, from, kind, to>> \in AllocPoints, f.at = from,
         o \in Fresh(kind, kept)
  PROVE  Good(AllocIn(o, kept), temps, intern, pinned, roots, <<c, Moved(f, to, f.h, o, f.i)>>)
<1> DEFINE hp == AllocIn(o, kept)
           g == Moved(f, to, f.h, o, f.i)
<1>1. /\ stack[1] = c /\ stack[2] = f /\ roots = (FrameRoots \o Rooted(c, 1)) \o Rooted(f, 2)
      /\ GoodOuter(c, heap, temps, intern) /\ GoodInner(c, f, heap, intern)
      /\ Range(FrameRoots) \subseteq Range(roots) /\ Range(Rooted(c, 1)) \subseteq Range(roots)
  BY RootsHave, TopIs DEF TwoCalls
<1>2. GoodMemory(hp, temps, intern, pinned) /\ GoodHeap(heap)
  BY <1>1, AllocKinds, AllocMemory DEF GoodMemory
<1>3. CallsOn(c)
  BY <1>1 DEF GoodInner, Nested, CallsOn
<1>4. c.h \in Val(kept) /\ c.k \in Val(kept) /\ c.v \in Val(kept) /\ c.x \in Val(kept)
  BY <1>1, <1>3, OuterKept, CallerKept
<1>5. intern \in Val(kept)
  BY <1>1, MemoryKept DEF Val, OfKind
<1>6. /\ f.h \in Val(kept) /\ f.k \in Val(kept) /\ f.v \in Val(kept)
      /\ AtIn(c, "map_keys", {"loop"}) => c.h \in kept /\ heap[c.h].entries \in kept
  BY <1>1, <1>4, <1>5, InnerKept
<1>7. g \in FrameOver(DOMAIN hp) /\ HoldsWhat(g, hp) /\ Rooted(g, 2) = Rooted(f, 2)
  BY <1>1, <1>2, <1>6, AllocFrame DEF GoodInner
<1>8. /\ g.fn = f.fn /\ g.h = f.h /\ g.k = f.k /\ g.v = f.v /\ g.dst = f.dst
  BY DEF Moved
<1>9. DOMAIN hp = kept \cup {o} /\ \A p \in kept : hp[p] = heap[p]
  <2>1. kind \in DOMAIN MaxObjs
    BY AllocKinds
  <2>2. Allocated(hp, o, kept)
    BY <1>2, <2>1, AllocGood
  <2> HIDE DEF hp
  <2> QED BY <2>2 DEF Allocated
<1> HIDE DEF g, hp
<1>10. GoodOuter(c, hp, temps, intern)
  <2>1. c \in FrameOver(DOMAIN hp)
    <3>1. Val(kept) \subseteq Val(DOMAIN hp)
      BY <1>9 DEF Val
    <3> QED BY <1>1, <1>4, <3>1 DEF GoodOuter, FrameOver
  <2>2. HoldsWhat(c, hp)
    <3>1. \A kind1, y : y \in OfKind(kind1, DOMAIN heap) /\ y \in Val(kept) => y \in OfKind(kind1, DOMAIN hp)
      <4>1. DOMAIN heap \subseteq Ids
        BY <1>2 DEF GoodHeap
      <4>2. \A kind1, y : y \in OfKind(kind1, DOMAIN heap) /\ y \in Val(kept) => y \in OfKind(kind1, kept)
        BY <4>1, StillOfKind
      <4> QED BY <1>9, <4>2 DEF OfKind
    <3> QED BY <1>1, <1>3, <1>4, <3>1 DEF GoodOuter, HoldsWhat, CallsOn, AtIn
  <2> QED BY <1>1, <2>1, <2>2 DEF GoodOuter
<1>11. Nested(c, g, hp, intern)
  <2>1. AtIn(c, "map_keys", {"loop"}) => hp[c.h].entries = heap[c.h].entries /\ KeysOf(hp, c.h) = KeysOf(heap, c.h)
    BY <1>6, <1>9 DEF KeysOf
  <2> QED BY <1>1, <1>8, <2>1 DEF GoodInner, Nested
<1>12. TwoCalls(c, g, hp, temps, intern, <<c, g>>, roots)
  BY <1>1, <1>7, <1>10, <1>11 DEF TwoCalls, GoodInner
<1> QED BY <1>2, <1>12 DEF Good, GoodStack, g, hp

-----------------------------------------------------------------------------
\* An object with other fields.
Obj(buf, entries, index, len, words) ==
  [buf |-> buf, entries |-> entries, index |-> index, len |-> len, words |-> words]

LEMMA SetWords ==
  ASSUME NEW L, NEW o, NEW b \in ObjectOver(o, L), NEW y
  PROVE  [b EXCEPT !.words = y] = Obj(b.buf, b.entries, b.index, b.len, y)
BY DEF ObjectOver, Obj

LEMMA SetLen ==
  ASSUME NEW L, NEW o, NEW b \in ObjectOver(o, L), NEW y
  PROVE  [b EXCEPT !.len = y] = Obj(b.buf, b.entries, b.index, y, b.words)
BY DEF ObjectOver, Obj

LEMMA SetBuf ==
  ASSUME NEW L, NEW o, NEW b \in ObjectOver(o, L), NEW y, NEW n
  PROVE  [[b EXCEPT !.buf = y] EXCEPT !.len = n] = Obj(y, b.entries, b.index, n, b.words)
<1> DEFINE g == Obj(y, b.entries, b.index, b.len, b.words)
<1>1. [b EXCEPT !.buf = y] = g
  BY DEF ObjectOver, Obj
<1>2. [g EXCEPT !.len = n] = Obj(y, b.entries, b.index, n, b.words)
  BY DEF Obj
<1> HIDE DEF g
<1> QED BY <1>1, <1>2

LEMMA SetEntries ==
  ASSUME NEW L, NEW o, NEW b \in ObjectOver(o, L), NEW y
  PROVE  [b EXCEPT !.entries = y] = Obj(b.buf, y, b.index, b.len, b.words)
BY DEF ObjectOver, Obj

LEMMA SetIndex ==
  ASSUME NEW L, NEW o, NEW b \in ObjectOver(o, L), NEW y
  PROVE  [b EXCEPT !.index = y] = Obj(b.buf, b.entries, y, b.len, b.words)
BY DEF ObjectOver, Obj

\* The heap with another object at o.
Put(hp, o, b) == [hp EXCEPT ![o] = b]
LEMMA PutIs ==
  ASSUME NEW hp, hp = [p \in DOMAIN hp |-> hp[p]], NEW o \in DOMAIN hp, NEW b
  PROVE  /\ Put(hp, o, b) = [p \in DOMAIN hp |-> Put(hp, o, b)[p]]
         /\ DOMAIN Put(hp, o, b) = DOMAIN hp /\ Put(hp, o, b)[o] = b
         /\ \A p \in DOMAIN hp : p # o => Put(hp, o, b)[p] = hp[p]
BY DEF Put

\* Other words in an object: no fewer, if a vector has it for its buffer.
WithWords(hp, o, ws) == Put(hp, o, Obj(hp[o].buf, hp[o].entries, hp[o].index, hp[o].len, ws))
Wrote(q, hp, o, ws) ==
  /\ GoodHeap(q) /\ DOMAIN q = DOMAIN hp /\ q[o].words = ws
  /\ \A p \in DOMAIN hp : p # o => q[p] = hp[p]
LEMMA WroteWords ==
  ASSUME NEW hp, GoodHeap(hp), NEW o \in DOMAIN hp, NEW ws \in WordsOver(o, DOMAIN hp),
         (\A p \in DOMAIN hp : hp[p].buf # o) \/ Len(hp[o].words) <= Len(ws)
  PROVE  Wrote(WithWords(hp, o, ws), hp, o, ws)
<1> DEFINE b == Obj(hp[o].buf, hp[o].entries, hp[o].index, hp[o].len, ws)
           q == Put(hp, o, b)
<1>1. hp[o] \in ObjectOver(o, DOMAIN hp) /\ hp = [p \in DOMAIN hp |-> hp[p]]
  BY DEF GoodHeap
<1>2. /\ q = [p \in DOMAIN hp |-> q[p]] /\ DOMAIN q = DOMAIN hp /\ q[o] = b
      /\ \A p \in DOMAIN hp : p # o => q[p] = hp[p]
  BY <1>1, PutIs
<1>4. /\ b.buf = hp[o].buf /\ b.len = hp[o].len /\ b.words = ws
      /\ b \in ObjectOver(o, DOMAIN hp)
  BY <1>1 DEF Obj, ObjectOver
<1> HIDE DEF q, b
<1>5. ASSUME NEW p \in DOMAIN hp PROVE q[p] \in ObjectOver(p, DOMAIN hp)
  BY <1>2, <1>4 DEF GoodHeap
<1>6. ASSUME NEW p \in DOMAIN hp PROVE Fits(q, p)
  <2>1. q[p].len = hp[p].len /\ q[p].buf = hp[p].buf
    BY <1>2, <1>4
  <2>2. Fits(hp, p) /\ hp[p] \in ObjectOver(p, DOMAIN hp) /\ hp[o] \in ObjectOver(o, DOMAIN hp)
    BY DEF GoodHeap
  <2>3. CASE hp[p].buf = Null
    BY <2>1, <2>2, <2>3 DEF Fits
  <2>4. CASE hp[p].buf # Null /\ hp[p].buf # o
    <3>1. hp[p].buf \in DOMAIN hp
      BY <2>2, <2>4 DEF ObjectOver, OfKind
    <3>2. q[hp[p].buf] = hp[hp[p].buf]
      BY <1>2, <2>4, <3>1
    <3> QED BY <2>1, <2>2, <3>2 DEF Fits
  <2>5. CASE hp[p].buf # Null /\ hp[p].buf = o
    <3>1. hp[p].len <= Len(hp[o].words) /\ Len(hp[o].words) <= Len(ws)
      BY <2>2, <2>5 DEF Fits
    <3>2. hp[p].len \in Nat /\ hp[o].words \in WordsOver(o, DOMAIN hp)
      BY <2>2 DEF ObjectOver
    <3>3. Len(hp[o].words) \in Nat /\ Len(ws) \in Nat
      BY <3>2 DEF WordsOver
    <3> QED BY <1>2, <1>4, <2>1, <2>5, <3>1, <3>2, <3>3 DEF Fits
  <2> QED BY <2>3, <2>4, <2>5
<1>7. GoodHeap(q)
  BY <1>2, <1>5, <1>6 DEF GoodHeap
<1> QED BY <1>2, <1>4, <1>7 DEF Wrote, WithWords, q, b

LEMMA WordsWritten ==
  ASSUME NEW hp, GoodHeap(hp), NEW o \in DOMAIN hp, NEW ws
  PROVE  [hp EXCEPT ![o].words = ws] = WithWords(hp, o, ws)
<1>1. hp[o] \in ObjectOver(o, DOMAIN hp)
  BY DEF GoodHeap
<1>2. [hp EXCEPT ![o].words = ws] = [hp EXCEPT ![o] = [hp[o] EXCEPT !.words = ws]]
  BY Zenon
<1>3. [hp[o] EXCEPT !.words = ws] = Obj(hp[o].buf, hp[o].entries, hp[o].index, hp[o].len, ws)
  BY Zenon, <1>1, SetWords
<1> QED BY Zenon, <1>2, <1>3 DEF WithWords, Put

\* Another header of a vector or a map.
LEMMA WroteHeader ==
  ASSUME NEW hp, GoodHeap(hp), NEW h \in DOMAIN hp, Kind(h) \in {"vec", "map"},
         NEW b \in ObjectOver(h, DOMAIN hp),
         b.len <= Len(IF b.buf = Null THEN << >> ELSE hp[b.buf].words)
  PROVE  GoodHeap(Put(hp, h, b)) /\ DOMAIN Put(hp, h, b) = DOMAIN hp
<1> DEFINE q == Put(hp, h, b)
<1>1. hp = [p \in DOMAIN hp |-> hp[p]]
  BY DEF GoodHeap
<1>2. /\ q = [p \in DOMAIN hp |-> q[p]] /\ DOMAIN q = DOMAIN hp /\ q[h] = b
      /\ \A p \in DOMAIN hp : p # h => q[p] = hp[p]
  BY <1>1, PutIs
<1> HIDE DEF q
<1>3. ASSUME NEW p \in DOMAIN hp PROVE q[p] \in ObjectOver(p, DOMAIN hp)
  BY <1>2 DEF GoodHeap
<1>4. ASSUME NEW p \in DOMAIN hp PROVE Fits(q, p)
  <2>1. q[p].buf # Null => q[q[p].buf] = hp[q[p].buf]
    <3>1. q[p].buf # Null => q[p].buf \in DOMAIN hp /\ Kind(q[p].buf) = "buf"
      BY <1>3 DEF ObjectOver, OfKind
    <3> QED BY <1>2, <3>1
  <2>2. CASE p = h
    BY <1>2, <2>1, <2>2 DEF Fits
  <2>3. CASE p # h
    BY <1>2, <2>1, <2>3 DEF Fits, GoodHeap
  <2> QED BY <2>2, <2>3
<1>5. GoodHeap(q)
  BY <1>2, <1>3, <1>4 DEF GoodHeap
<1> QED BY <1>2, <1>5 DEF q

-----------------------------------------------------------------------------
\* The writes of the C functions keep the heap good.
SameObjects(q, hp) == GoodHeap(q) /\ DOMAIN q = DOMAIN hp
BufWords(hp, h) == IF hp[h].buf = Null THEN << >> ELSE hp[hp[h].buf].words

\* An object's words are sequences of values, or of entries.
LEMMA WordsAre ==
  ASSUME NEW hp, GoodHeap(hp), NEW o \in DOMAIN hp
  PROVE  /\ hp[o].words \in WordsOver(o, DOMAIN hp) /\ hp[o] \in ObjectOver(o, DOMAIN hp)
         /\ hp[o].buf # Null => hp[o].buf \in DOMAIN hp /\ Kind(hp[o].buf) = "buf"
         /\ hp[o].entries # Null => hp[o].entries \in DOMAIN hp /\ Kind(hp[o].entries) = "entries"
         /\ hp[o].len \in Nat /\ hp[o].len <= Len(BufWords(hp, o))
         /\ BufWords(hp, o) \in Seq(Val(DOMAIN hp))
<1>1. hp[o] \in ObjectOver(o, DOMAIN hp) /\ Fits(hp, o)
  BY DEF GoodHeap
<1>2. /\ hp[o].words \in WordsOver(o, DOMAIN hp) /\ hp[o].len \in Nat
      /\ hp[o].buf # Null => hp[o].buf \in DOMAIN hp /\ Kind(hp[o].buf) = "buf"
      /\ hp[o].entries # Null => hp[o].entries \in DOMAIN hp /\ Kind(hp[o].entries) = "entries"
  BY <1>1 DEF ObjectOver, OfKind
<1>3. hp[o].buf # Null => hp[hp[o].buf].words \in Seq(Val(DOMAIN hp))
  <2> SUFFICES ASSUME hp[o].buf # Null PROVE hp[hp[o].buf].words \in Seq(Val(DOMAIN hp))
    OBVIOUS
  <2> DEFINE b == hp[o].buf
  <2>1. b \in DOMAIN hp /\ Kind(b) = "buf"
    BY <1>2
  <2> HIDE DEF b
  <2>2. hp[b].words \in WordsOver(b, DOMAIN hp)
    BY <2>1 DEF GoodHeap, ObjectOver
  <2> QED BY <2>1, <2>2 DEF WordsOver, b
<1>4. BufWords(hp, o) \in Seq(Val(DOMAIN hp))
  <2>1. << >> \in Seq(Val(DOMAIN hp))
    OBVIOUS
  <2> QED BY Zenon, <1>3, <2>1 DEF BufWords
<1>5. hp[o].len <= Len(BufWords(hp, o))
  BY <1>1 DEF Fits, BufWords
<1> QED BY <1>1, <1>2, <1>4, <1>5

LEMMA GrownHeap ==
  ASSUME NEW hp, GoodHeap(hp), NEW h \in OfKind("vec", DOMAIN hp), NEW x \in OfKind("buf", DOMAIN hp),
         \A p \in DOMAIN hp : hp[p].buf # x, NEW v \in Val(DOMAIN hp), NEW ws,
         ws = Append(SubSeq(BufWords(hp, h), 1, hp[h].len), v)
  PROVE  SameObjects([hp EXCEPT ![x].words = ws, ![h].buf = x, ![h].len = hp[h].len + 1], hp)
<1> DEFINE q == WithWords(hp, x, ws)
           b == hp[h]
           n == b.len + 1
           c == Obj(x, b.entries, b.index, n, b.words)
<1>1. h \in DOMAIN hp /\ x \in DOMAIN hp /\ Kind(h) = "vec" /\ Kind(x) = "buf" /\ h # x
  BY DEF OfKind
<1>2. b \in ObjectOver(h, DOMAIN hp) /\ b.len \in Nat
  BY <1>1, WordsAre
<1>3. ws \in Seq(Val(DOMAIN hp)) /\ Len(ws) = n
  <2>1. b.len <= Len(BufWords(hp, h)) /\ BufWords(hp, h) \in Seq(Val(DOMAIN hp))
    BY <1>1, WordsAre
  <2>2. \A S : \A u \in Seq(S) : \A m \in Nat : \A y \in S :
          m <= Len(u) => Append(SubSeq(u, 1, m), y) \in Seq(S) /\ Len(Append(SubSeq(u, 1, m), y)) = m + 1
    OBVIOUS
  <2> QED BY <1>2, <2>1, <2>2
<1>4. ws \in WordsOver(x, DOMAIN hp)
  BY <1>1, <1>3 DEF WordsOver
<1>5. GoodHeap(q) /\ DOMAIN q = DOMAIN hp /\ q[x].words = ws /\ q[h] = b
  <2>1. Wrote(q, hp, x, ws)
    BY <1>1, <1>4, WroteWords
  <2> HIDE DEF q
  <2> QED BY <1>1, <2>1 DEF Wrote
<1>6. [hp EXCEPT ![x].words = ws] = q
  BY <1>1, WordsWritten
<1>7. [hp EXCEPT ![x].words = ws, ![h].buf = x, ![h].len = n] = [[q EXCEPT ![h].buf = x] EXCEPT ![h].len = n]
  BY Zenon, <1>6
<1> HIDE DEF q, b
<1>8. [[q EXCEPT ![h].buf = x] EXCEPT ![h].len = n] = Put(q, h, c)
  <2>1. [q EXCEPT ![h].buf = x] = [q EXCEPT ![h] = [b EXCEPT !.buf = x]]
    BY Zenon, <1>5
  <2> DEFINE d == [b EXCEPT !.buf = x]
             r == [q EXCEPT ![h] = d]
  <2> HIDE DEF d, n
  <2>2. r[h] = d /\ \A y : [r EXCEPT ![h] = y] = [q EXCEPT ![h] = y]
    BY <1>1, <1>5
  <2> HIDE DEF r
  <2>3. [r EXCEPT ![h].len = n] = [r EXCEPT ![h] = [d EXCEPT !.len = n]]
    BY Zenon, <2>2
  <2>4. [d EXCEPT !.len = n] = c
    BY Zenon, <1>2, SetBuf DEF d
  <2> HIDE DEF c
  <2>5. [[q EXCEPT ![h].buf = x] EXCEPT ![h].len = n] = [q EXCEPT ![h] = c]
    BY Zenon, <2>1, <2>2, <2>3, <2>4 DEF r, d
  <2> QED BY Zenon, <2>5 DEF Put
<1>9. c \in ObjectOver(h, DOMAIN q) /\ c.len = Len(ws) /\ c.buf = x
  BY <1>2, <1>3, <1>5 DEF ObjectOver, Obj
<1>10. c.len <= Len(IF c.buf = Null THEN << >> ELSE q[c.buf].words)
  <2>1. x # Null /\ Len(ws) \in Nat
    BY <1>1, <1>3, NoneIsNone DEF GoodHeap
  <2> HIDE DEF c
  <2>2. (IF c.buf = Null THEN << >> ELSE q[c.buf].words) = ws
    BY <1>5, <1>9, <2>1
  <2>3. c.len <= Len(ws)
    BY <1>9, <2>1
  <2> QED BY Zenon, <2>2, <2>3
<1> HIDE DEF c
<1>11. SameObjects(Put(q, h, c), hp)
  <2>1. h \in DOMAIN q /\ Kind(h) \in {"vec", "map"} /\ GoodHeap(q)
    BY <1>1, <1>5
  <2>2. GoodHeap(Put(q, h, c)) /\ DOMAIN Put(q, h, c) = DOMAIN q
    BY <1>9, <1>10, <2>1, WroteHeader
  <2> QED BY <1>5, <2>2 DEF SameObjects
<1> QED BY Zenon, <1>7, <1>8, <1>11 DEF b

LEMMA PutCommutes ==
  ASSUME NEW hp, NEW a \in DOMAIN hp, NEW b \in DOMAIN hp, a # b, NEW y, NEW z
  PROVE  Put(Put(hp, a, y), b, z) = Put(Put(hp, b, z), a, y)
BY DEF Put

\* The words of a buffer with one more element after the first m.
LEMMA OneMore ==
  ASSUME NEW V, NEW u \in Seq(V), NEW m \in Nat, m <= Len(u), NEW v \in V, NEW ws,
         ws = IF m + 1 \in DOMAIN u THEN [u EXCEPT ![m + 1] = v] ELSE Append(u, v)
  PROVE  ws \in Seq(V) /\ m + 1 <= Len(ws) /\ Len(u) <= Len(ws)
<1>1. CASE m + 1 \in DOMAIN u
  <2>1. ws = [u EXCEPT ![m + 1] = v]
    BY <1>1
  <2>2. \A k \in DOMAIN u : [u EXCEPT ![k] = v] \in Seq(V) /\ Len([u EXCEPT ![k] = v]) = Len(u)
    OBVIOUS
  <2> QED BY <1>1, <2>1, <2>2
<1>2. CASE m + 1 \notin DOMAIN u
  <2>1. ws = Append(u, v)
    BY <1>2
  <2>2. Append(u, v) \in Seq(V) /\ Len(Append(u, v)) = Len(u) + 1
    OBVIOUS
  <2> QED BY <2>1, <2>2
<1> QED BY <1>1, <1>2

LEMMA AppendedHeap ==
  ASSUME NEW hp, GoodHeap(hp), NEW h \in OfKind("vec", DOMAIN hp), NEW e, e = hp[h].buf, e # Null,
         NEW n, n = hp[h].len + 1, NEW ws \in Seq(Val(DOMAIN hp)), n <= Len(ws),
         Len(hp[e].words) <= Len(ws)
  PROVE  SameObjects([hp EXCEPT ![h].len = n, ![e].words = ws], hp)
<1> DEFINE b == hp[h]
           c == Obj(b.buf, b.entries, b.index, n, b.words)
           y == Obj(hp[e].buf, hp[e].entries, hp[e].index, hp[e].len, ws)
           q == WithWords(hp, e, ws)
<1>1. h \in DOMAIN hp /\ e \in DOMAIN hp /\ Kind(h) = "vec" /\ Kind(e) = "buf" /\ h # e
  BY WordsAre DEF OfKind
<1>2. b \in ObjectOver(h, DOMAIN hp) /\ b.len \in Nat /\ hp[e] \in ObjectOver(e, DOMAIN hp)
  BY <1>1, WordsAre
<1>5. ws \in WordsOver(e, DOMAIN hp)
  BY <1>1 DEF WordsOver
<1>6. GoodHeap(q) /\ DOMAIN q = DOMAIN hp /\ q[e].words = ws /\ q[h] = b
  <2>1. Wrote(q, hp, e, ws)
    BY <1>1, <1>5, WroteWords
  <2> HIDE DEF q
  <2> QED BY <1>1, <2>1 DEF Wrote
<1>7. [hp EXCEPT ![h].len = n, ![e].words = ws] = Put(q, h, c)
  <2> DEFINE r == [hp EXCEPT ![h].len = n]
  <2>1. r = Put(hp, h, c)
    <3>1. r = [hp EXCEPT ![h] = [b EXCEPT !.len = n]]
      BY Zenon
    <3>2. [b EXCEPT !.len = n] = c
      BY Zenon, <1>2, SetLen
    <3> QED BY Zenon, <3>1, <3>2 DEF Put
  <2>2. r[e] = hp[e]
    <3> HIDE DEF c
    <3> QED BY <1>1, <2>1 DEF Put
  <2>3. [hp EXCEPT ![h].len = n, ![e].words = ws] = [r EXCEPT ![e].words = ws]
    BY Zenon
  <2> HIDE DEF r
  <2>4. [r EXCEPT ![e].words = ws] = [r EXCEPT ![e] = [hp[e] EXCEPT !.words = ws]]
    BY Zenon, <2>2
  <2>5. [hp[e] EXCEPT !.words = ws] = y
    <3> DEFINE z == hp[e]
    <3>1. z \in ObjectOver(e, DOMAIN hp)
      BY <1>2
    <3> HIDE DEF z, b, c, q, r
    <3>2. [z EXCEPT !.words = ws] = Obj(z.buf, z.entries, z.index, z.len, ws)
      BY Zenon, <3>1, SetWords
    <3> QED BY Zenon, <3>2 DEF z
  <2>6. [r EXCEPT ![e].words = ws] = Put(Put(hp, h, c), e, y)
    BY Zenon, <2>1, <2>4, <2>5 DEF Put
  <2> HIDE DEF c, y
  <2>7. Put(Put(hp, h, c), e, y) = Put(Put(hp, e, y), h, c)
    BY <1>1, PutCommutes
  <2> QED BY Zenon, <2>3, <2>6, <2>7 DEF WithWords, y
<1> HIDE DEF q
<1>8. c \in ObjectOver(h, DOMAIN q) /\ c.len = n /\ c.buf = e
  BY <1>2, <1>6 DEF ObjectOver, Obj
<1> HIDE DEF c
<1>9. c.len <= Len(IF c.buf = Null THEN << >> ELSE q[c.buf].words)
  <2>1. (IF c.buf = Null THEN << >> ELSE q[c.buf].words) = ws
    BY <1>6, <1>8
  <2>2. c.len <= Len(ws)
    BY <1>8
  <2> QED BY Zenon, <2>1, <2>2
<1>10. SameObjects(Put(q, h, c), hp)
  <2>1. h \in DOMAIN q /\ Kind(h) \in {"vec", "map"} /\ GoodHeap(q)
    BY <1>1, <1>6
  <2>2. GoodHeap(Put(q, h, c)) /\ DOMAIN Put(q, h, c) = DOMAIN q
    BY <1>8, <1>9, <2>1, WroteHeader
  <2> QED BY <1>6, <2>2 DEF SameObjects
<1> QED BY Zenon, <1>7, <1>10

LEMMA PoppedHeap ==
  ASSUME NEW hp, GoodHeap(hp), NEW h \in OfKind("vec", DOMAIN hp), NEW n \in Nat, n <= hp[h].len
  PROVE  SameObjects([hp EXCEPT ![h].len = n], hp)
<1> DEFINE b == hp[h]
           c == Obj(b.buf, b.entries, b.index, n, b.words)
<1>1. h \in DOMAIN hp /\ Kind(h) = "vec"
  BY DEF OfKind
<1>2. /\ b \in ObjectOver(h, DOMAIN hp) /\ b.len \in Nat /\ b.len <= Len(BufWords(hp, h))
      /\ BufWords(hp, h) \in Seq(Val(DOMAIN hp))
  BY <1>1, WordsAre
<1>3. [hp EXCEPT ![h].len = n] = Put(hp, h, c)
  <2>1. [hp EXCEPT ![h].len = n] = [hp EXCEPT ![h] = [b EXCEPT !.len = n]]
    BY Zenon
  <2>2. [b EXCEPT !.len = n] = c
    BY Zenon, <1>2, SetLen
  <2> QED BY Zenon, <2>1, <2>2 DEF Put
<1>4. c \in ObjectOver(h, DOMAIN hp) /\ c.len = n /\ c.buf = b.buf
  BY <1>2 DEF ObjectOver, Obj
<1>5. c.len <= Len(IF c.buf = Null THEN << >> ELSE hp[c.buf].words)
  <2> HIDE DEF c
  <2>1. (IF c.buf = Null THEN << >> ELSE hp[c.buf].words) = BufWords(hp, h)
    BY Zenon, <1>4 DEF BufWords
  <2>2. Len(BufWords(hp, h)) \in Nat
    BY <1>2
  <2>3. c.len <= Len(BufWords(hp, h))
    BY <1>2, <1>4, <2>2
  <2> QED BY Zenon, <2>1, <2>3
<1> HIDE DEF c
<1>6. SameObjects(Put(hp, h, c), hp)
  BY <1>1, <1>4, <1>5, WroteHeader DEF SameObjects
<1> QED BY Zenon, <1>3, <1>6

\* Other entries in a map's buffer of entries.
LEMMA EntriesHeap ==
  ASSUME NEW hp, GoodHeap(hp), NEW o, o \in DOMAIN hp => Kind(o) = "entries",
         NEW ws, o \in DOMAIN hp => ws \in Seq(EntriesOver(DOMAIN hp))
  PROVE  SameObjects([hp EXCEPT ![o].words = ws], hp)
<1>1. CASE o \in DOMAIN hp
  <2>1. ws \in WordsOver(o, DOMAIN hp)
    BY <1>1 DEF WordsOver
  <2>2. \A p \in DOMAIN hp : hp[p].buf # o
    <3>1. ASSUME NEW p \in DOMAIN hp PROVE hp[p].buf # o
      <4>1. hp[p].buf # Null => Kind(hp[p].buf) = "buf"
        BY WordsAre
      <4>2. o # Null
        BY <1>1, NoneIsNone DEF GoodHeap
      <4> QED BY <1>1, <4>1, <4>2
    <3> QED BY <3>1
  <2>3. Wrote(WithWords(hp, o, ws), hp, o, ws)
    BY <1>1, <2>1, <2>2, WroteWords
  <2>4. [hp EXCEPT ![o].words = ws] = WithWords(hp, o, ws)
    BY <1>1, WordsWritten
  <2>5. SameObjects(WithWords(hp, o, ws), hp)
    BY <2>3 DEF Wrote, SameObjects
  <2> QED BY Zenon, <2>4, <2>5
<1>2. CASE o \notin DOMAIN hp
  <2>1. [hp EXCEPT ![o].words = ws] = [hp EXCEPT ![o] = [hp[o] EXCEPT !.words = ws]]
    BY Zenon
  <2> DEFINE b == [hp[o] EXCEPT !.words = ws]
  <2> HIDE DEF b
  <2>2. hp = [p \in DOMAIN hp |-> hp[p]]
    BY DEF GoodHeap
  <2>3. [hp EXCEPT ![o] = b] = hp
    BY <1>2, <2>2
  <2> QED BY Zenon, <2>1, <2>3 DEF SameObjects, b
<1> QED BY <1>1, <1>2

\* A new buffer of entries, published in the header.
LEMMA RehashedHeap ==
  ASSUME NEW hp, GoodHeap(hp), NEW h \in OfKind("map", DOMAIN hp),
         NEW x \in OfKind("entries", DOMAIN hp), NEW ws \in Seq(EntriesOver(DOMAIN hp))
  PROVE  SameObjects([hp EXCEPT ![x].words = ws, ![h].entries = x], hp)
<1> DEFINE q == [hp EXCEPT ![x].words = ws]
<1>1. /\ h \in DOMAIN hp /\ x \in DOMAIN hp /\ Kind(h) = "map" /\ Kind(x) = "entries"
  BY DEF OfKind
<1>2. SameObjects(q, hp)
  BY <1>1, EntriesHeap
<1>3. [hp EXCEPT ![x].words = ws, ![h].entries = x] = [q EXCEPT ![h].entries = x]
  BY Zenon
<1> HIDE DEF q
<1> DEFINE b == q[h]
           c == Obj(b.buf, x, b.index, b.len, b.words)
<1>4. /\ GoodHeap(q) /\ h \in DOMAIN q /\ b \in ObjectOver(h, DOMAIN q) /\ b.len <= Len(BufWords(q, h))
      /\ x \in OfKind("entries", DOMAIN q)
  BY <1>1, <1>2, WordsAre DEF SameObjects
<1>5. [q EXCEPT ![h].entries = x] = Put(q, h, c)
  <2>1. [q EXCEPT ![h].entries = x] = [q EXCEPT ![h] = [b EXCEPT !.entries = x]]
    BY Zenon
  <2>2. [b EXCEPT !.entries = x] = c
    BY Zenon, <1>4, SetEntries
  <2> QED BY Zenon, <2>1, <2>2 DEF Put
<1>6. c \in ObjectOver(h, DOMAIN q) /\ c.len = b.len /\ c.buf = b.buf
  BY <1>4 DEF ObjectOver, Obj
<1> HIDE DEF c
<1>7. c.len <= Len(IF c.buf = Null THEN << >> ELSE q[c.buf].words)
  BY Zenon, <1>4, <1>6 DEF BufWords
<1>8. SameObjects(Put(q, h, c), hp)
  BY <1>1, <1>2, <1>4, <1>6, <1>7, WroteHeader DEF SameObjects
<1> QED BY Zenon, <1>3, <1>5, <1>8

LEMMA IndexedHeap ==
  ASSUME NEW hp, GoodHeap(hp), NEW h \in OfKind("map", DOMAIN hp),
         NEW x \in OfKind("index", DOMAIN hp)
  PROVE  SameObjects([hp EXCEPT ![h].index = x], hp)
<1> DEFINE b == hp[h]
           c == Obj(b.buf, b.entries, x, b.len, b.words)
<1>1. h \in DOMAIN hp /\ Kind(h) = "map"
  BY DEF OfKind
<1>2. b \in ObjectOver(h, DOMAIN hp) /\ b.len <= Len(BufWords(hp, h))
  BY <1>1, WordsAre
<1>3. [hp EXCEPT ![h].index = x] = Put(hp, h, c)
  <2>1. [hp EXCEPT ![h].index = x] = [hp EXCEPT ![h] = [b EXCEPT !.index = x]]
    BY Zenon
  <2>2. [b EXCEPT !.index = x] = c
    BY Zenon, <1>2, SetIndex
  <2> QED BY Zenon, <2>1, <2>2 DEF Put
<1>4. c \in ObjectOver(h, DOMAIN hp) /\ c.len = b.len /\ c.buf = b.buf
  BY <1>2 DEF ObjectOver, Obj
<1> HIDE DEF c
<1>5. c.len <= Len(IF c.buf = Null THEN << >> ELSE hp[c.buf].words)
  BY Zenon, <1>2, <1>4 DEF BufWords
<1>6. SameObjects(Put(hp, h, c), hp)
  BY <1>1, <1>4, <1>5, WroteHeader DEF SameObjects
<1> QED BY Zenon, <1>3, <1>6

-----------------------------------------------------------------------------
\* The active call is the outermost one or one that it made.
OneNow(f) == OneCall(f, heap, temps, intern, stack, roots)
TwoNow(c, f) == TwoCalls(c, f, heap, temps, intern, stack, roots)
MemoryNow == GoodMemory(heap, temps, intern, pinned)

LEMMA NowOne ==
  ASSUME NEW f, OneNow(f)
  PROVE  /\ depth = 1 /\ top = f /\ stack = <<f>> /\ roots = FrameRoots \o Rooted(f, 1)
         /\ GoodOuter(f, heap, temps, intern) /\ f \in FrameOver(DOMAIN heap)
         /\ Outer = << >>
<1>1. stack = <<f>> /\ roots = FrameRoots \o Rooted(f, 1) /\ GoodOuter(f, heap, temps, intern)
  BY DEF OneNow, OneCall
<1>2. depth = 1 /\ top = f
  BY <1>1, TopIs DEF depth, top
<1>3. SubSeq(<<f>>, 1, 0) = << >>
  OBVIOUS
<1>4. Outer = << >>
  BY <1>1, <1>2, <1>3 DEF Outer
<1> QED BY <1>1, <1>2, <1>4 DEF GoodOuter

LEMMA NowTwo ==
  ASSUME NEW c, NEW f, TwoNow(c, f)
  PROVE  /\ depth = 2 /\ top = f /\ stack = <<c, f>> /\ roots = (FrameRoots \o Rooted(c, 1)) \o Rooted(f, 2)
         /\ GoodOuter(c, heap, temps, intern) /\ GoodInner(c, f, heap, intern)
         /\ f \in FrameOver(DOMAIN heap) /\ c \in FrameOver(DOMAIN heap)
         /\ Outer = <<c>>
<1>1. /\ stack = <<c, f>> /\ roots = (FrameRoots \o Rooted(c, 1)) \o Rooted(f, 2)
      /\ GoodOuter(c, heap, temps, intern) /\ GoodInner(c, f, heap, intern)
  BY DEF TwoNow, TwoCalls
<1>2. depth = 2 /\ top = f
  BY <1>1, TopIs DEF depth, top
<1>3. SubSeq(<<c, f>>, 1, 1) = <<c>>
  <2> DEFINE r == SubSeq(<<c, f>>, 1, 1)
  <2>1. r \in Seq({c, f}) /\ Len(r) = 1 /\ r[1] = c
    <3>1. \A S : \A u \in Seq(S) : Len(u) = 2 =>
            /\ SubSeq(u, 1, 1) \in Seq(S) /\ Len(SubSeq(u, 1, 1)) = 1
            /\ SubSeq(u, 1, 1)[1] = u[1]
      OBVIOUS
    <3>2. <<c, f>> \in Seq({c, f}) /\ Len(<<c, f>>) = 2 /\ <<c, f>>[1] = c
      OBVIOUS
    <3> QED BY <3>1, <3>2
  <2> HIDE DEF r
  <2>2. r = <<c>>
    BY <2>1
  <2> QED BY <2>2 DEF r
<1>4. Outer = <<c>>
  BY <1>1, <1>2, <1>3 DEF Outer
<1> QED BY <1>1, <1>2, <1>4 DEF GoodOuter, GoodInner

LEMMA TopCases ==
  ASSUME RtInv, depth > 0
  PROVE  MemoryNow /\ (OneNow(top) \/ \E c : TwoNow(c, top))
<1>1. MemoryNow /\ GoodStack(heap, temps, intern, stack, roots)
  BY DEF RtInv, Good, MemoryNow
<1>2. stack # << >>
  BY DEF depth
<1>3. \/ \E f : OneNow(f)
      \/ \E c, f : TwoNow(c, f)
  BY <1>1, <1>2 DEF GoodStack, NoCall, OneNow, TwoNow
<1> QED BY <1>1, <1>3, NowOne, NowTwo

\* Functions that no other calls, and those that only others call.
LEMMA OnlyOutermost ==
  ASSUME RtInv, depth > 0, top.fn \notin {"vec_push", "map_set", "callback"}
  PROVE  MemoryNow /\ OneNow(top)
<1>1. ASSUME NEW c, TwoNow(c, top) PROVE FALSE
  <2>1. Nested(c, top, heap, intern)
    BY <1>1, NowTwo DEF GoodInner
  <2> QED BY <2>1 DEF Nested
<1> QED BY <1>1, TopCases

LEMMA OnlyInner ==
  ASSUME RtInv, depth > 0, top.fn = "callback"
  PROVE  MemoryNow /\ \E c : TwoNow(c, top)
<1>1. ~ OneNow(top)
  <2>1. OneNow(top) => Outermost(top, temps, intern)
    BY NowOne DEF GoodOuter
  <2> QED BY <2>1 DEF Outermost, FromTemps
<1> QED BY <1>1, TopCases

-----------------------------------------------------------------------------
\* An allocation of any runtime function.
LEMMA AllocStepGood ==
  ASSUME RtInv, NEW fn, NEW from, NEW kind, NEW to, <<fn, from, kind, to>> \in AllocPoints,
         AllocStep(fn, from, kind, to), fn = "strlit" /\ to = "set" => intern # Null
  PROVE  RtInv'
<1>1. PICK kept \in Survivors : \E o \in Fresh(kind, kept) : Alloc(o, kept) /\ Got(o, to)
  BY DEF AllocStep
<1>2. PICK o \in Fresh(kind, kept) : Alloc(o, kept) /\ Got(o, to)
  BY <1>1
<1>3. /\ top.fn = fn /\ top.at = from /\ depth > 0
      /\ temps' = temps /\ intern' = intern /\ pinned' = pinned /\ roots' = roots
  BY DEF AllocStep, At
<1>4. heap' = AllocIn(o, kept)
  BY <1>2 DEF Alloc, AllocIn
<1>5. stack' = [stack EXCEPT ![depth].at = to, ![depth].x = o]
  BY <1>2 DEF Got
<1> DEFINE g == Moved(top, to, top.h, o, top.i)
<1>6. MemoryNow /\ (OneNow(top) \/ \E c : TwoNow(c, top))
  BY <1>3, TopCases
<1>7. CASE OneNow(top)
  <2>1. OnTop(stack, stack', 1, top, g)
    <3>1. top \in FrameOver(DOMAIN heap) /\ stack = <<top>> /\ depth = 1
      BY <1>7, NowOne
    <3>2. OnTop(stack, [stack EXCEPT ![depth].at = to, ![depth].x = o], depth, top, g)
      BY ZenonT(30), <3>1, TopMoves
    <3> QED BY Zenon, <1>5, <3>1, <3>2
  <2>2. stack' = <<g>>
    <3>1. Len(stack) = 1
      BY <1>7, NowOne DEF depth
    <3> HIDE DEF g
    <3> QED BY <2>1, <3>1, TopIs DEF OnTop
  <2> HIDE DEF g
  <2>3. Good(AllocIn(o, kept), temps, intern, pinned, roots, <<g>>)
    BY <1>3, <1>6, <1>7, AllocOne DEF OneNow, MemoryNow, g
  <2> QED BY <1>3, <1>4, <2>2, <2>3 DEF RtInv
<1>8. ASSUME NEW c, TwoNow(c, top) PROVE RtInv'
  <2>1. OnTop(stack, stack', 2, top, g)
    <3>1. top \in FrameOver(DOMAIN heap) /\ depth = 2 /\ \E e : stack = <<e, top>> /\ depth = 2
      BY <1>8, NowTwo
    <3>2. OnTop(stack, [stack EXCEPT ![depth].at = to, ![depth].x = o], depth, top, g)
      BY ZenonT(30), <3>1, TopMoves
    <3> QED BY Zenon, <1>5, <3>1, <3>2
  <2>2. stack' = <<c, g>>
    <3>1. Len(stack) = 2 /\ stack = <<c, top>>
      BY <1>8, NowTwo DEF depth
    <3> HIDE DEF g
    <3>2. PICK d : stack = <<d, top>> /\ stack' = <<d, g>>
      BY <2>1, <3>1, TopIs DEF OnTop
    <3> QED BY <3>1, <3>2
  <2> HIDE DEF g
  <2>3. Good(AllocIn(o, kept), temps, intern, pinned, roots, <<c, g>>)
    BY <1>3, <1>6, <1>8, AllocTwo DEF TwoNow, MemoryNow, g
  <2> QED BY <1>3, <1>4, <2>2, <2>3 DEF RtInv
<1> QED BY <1>6, <1>7, <1>8

-----------------------------------------------------------------------------
\* What pushes and pops make of the shadow stack.
LEMMA ShadowOps ==
  ASSUME NEW S, NEW B \in Seq(S), NEW a \in S, NEW b \in S
  PROVE  /\ B \o << >> = B
         /\ Append(B, a) = B \o <<a>>
         /\ Append(B \o <<a>>, b) = B \o <<a, b>>
         /\ SubSeq(B \o <<a>>, 1, Len(B \o <<a>>) - 1) = B
         /\ SubSeq(B \o <<a, b>>, 1, Len(B \o <<a, b>>) - 1) = B \o <<a>>
         /\ SubSeq(B \o <<a, b>>, 1, Len(B \o <<a, b>>) - 2) = B
<1> DEFINE n == Len(B)
           p == B \o <<a>>
           q == B \o <<a, b>>
<1>1. B \o << >> = B /\ Append(B, a) = p
  OBVIOUS
<1>2. /\ n \in Nat /\ p \in Seq(S) /\ q \in Seq(S) /\ Len(p) = n + 1 /\ Len(q) = n + 2
      /\ \A i \in 1 .. n : p[i] = B[i] /\ q[i] = B[i]
      /\ p[n + 1] = a /\ q[n + 1] = a /\ q[n + 2] = b
  OBVIOUS
<1> HIDE DEF n, p, q
<1>3. SubSeq(p, 1, Len(p) - 1) = B
  <2> DEFINE r == SubSeq(p, 1, n)
  <2>1. r \in Seq(S) /\ Len(r) = n /\ \A i \in 1 .. n : r[i] = B[i]
    BY <1>2
  <2> HIDE DEF r
  <2>2. r = B
    BY <1>2, <2>1 DEF n
  <2> QED BY <1>2, <2>2 DEF r
<1>4. SubSeq(q, 1, Len(q) - 2) = B
  <2> DEFINE r == SubSeq(q, 1, n)
  <2>1. r \in Seq(S) /\ Len(r) = n /\ \A i \in 1 .. n : r[i] = B[i]
    BY <1>2
  <2> HIDE DEF r
  <2>2. r = B
    BY <1>2, <2>1 DEF n
  <2> QED BY <1>2, <2>2 DEF r
<1>5. SubSeq(q, 1, Len(q) - 1) = p
  <2> DEFINE r == SubSeq(q, 1, n + 1)
  <2>1. r \in Seq(S) /\ Len(r) = n + 1 /\ \A i \in 1 .. n + 1 : r[i] = q[i]
    BY <1>2
  <2> HIDE DEF r
  <2>2. \A i \in 1 .. n + 1 : r[i] = p[i]
    BY <1>2, <2>1
  <2>3. r = p
    BY <1>2, <2>1, <2>2
  <2> QED BY <1>2, <2>3 DEF r
<1>6. Append(p, b) = q
  <2> DEFINE r == Append(p, b)
  <2>1. r \in Seq(S) /\ Len(r) = n + 2 /\ \A i \in 1 .. n + 2 : r[i] = q[i]
    BY <1>2
  <2> HIDE DEF r
  <2>2. r = q
    BY <1>2, <2>1
  <2> QED BY <2>2 DEF r
<1> QED BY <1>1, <1>3, <1>4, <1>5, <1>6 DEF p, q

LEMMA ThreePopped ==
  ASSUME NEW S, NEW B \in Seq(S), NEW a \in S, NEW b \in S, NEW c \in S
  PROVE  SubSeq(B \o <<a, b, c>>, 1, Len(B \o <<a, b, c>>) - 3) = B
<1> DEFINE n == Len(B)
           q == B \o <<a, b, c>>
           r == SubSeq(q, 1, n)
<1>1. /\ n \in Nat /\ q \in Seq(S) /\ Len(q) = n + 3
      /\ \A i \in 1 .. n : q[i] = B[i]
  OBVIOUS
<1> HIDE DEF q, n
<1>2. r \in Seq(S) /\ Len(r) = n /\ \A i \in 1 .. n : r[i] = B[i]
  BY <1>1
<1> HIDE DEF r
<1>3. r = B
  BY <1>1, <1>2 DEF n
<1> QED BY <1>1, <1>3 DEF r, q

\* The shadow stack of the emitted frame and the outermost call.
Shadows == Seq(({0} \X Temps) \cup Addresses(1) \cup Addresses(2))
LEMMA ShadowTypes ==
  ASSUME NEW c, NEW f
  PROVE  /\ FrameRoots \in Shadows /\ FrameRoots \o Rooted(c, 1) \in Shadows
         /\ (FrameRoots \o Rooted(c, 1)) \o Rooted(f, 2) \in Shadows
<1> DEFINE A == ({0} \X Temps) \cup Addresses(1) \cup Addresses(2)
<1>1. \A X, Y : X \subseteq Y => Seq(X) \subseteq Seq(Y)
  OBVIOUS
<1>2. {0} \X Temps \subseteq A /\ Addresses(1) \subseteq A /\ Addresses(2) \subseteq A
  OBVIOUS
<1> HIDE DEF A
<1>3. FrameRoots \in Seq(A) /\ Rooted(c, 1) \in Seq(A) /\ Rooted(f, 2) \in Seq(A)
  BY <1>1, <1>2, FrameRootsAre, RootedType
<1>4. FrameRoots \o Rooted(c, 1) \in Seq(A)
  BY <1>3
<1>5. (FrameRoots \o Rooted(c, 1)) \o Rooted(f, 2) \in Seq(A)
  BY <1>3, <1>4
<1> QED BY <1>3, <1>4, <1>5 DEF Shadows, A

ShadowFacts(B, d, u, w) ==
  /\ B \o << >> = B
  /\ Append(B, <<d, u>>) = B \o << <<d, u>> >>
  /\ Append(B \o << <<d, u>> >>, <<d, w>>) = B \o << <<d, u>>, <<d, w>> >>
  /\ SubSeq(B \o << <<d, u>> >>, 1, Len(B \o << <<d, u>> >>) - 1) = B
  /\ SubSeq(B \o << <<d, u>>, <<d, w>> >>, 1, Len(B \o << <<d, u>>, <<d, w>> >>) - 1)
       = B \o << <<d, u>> >>
  /\ SubSeq(B \o << <<d, u>>, <<d, w>> >>, 1, Len(B \o << <<d, u>>, <<d, w>> >>) - 2) = B
LEMMA ShadowsAre ==
  ASSUME NEW B \in Shadows, NEW d \in {1, 2}, NEW u \in {"h", "v", "x"}, NEW w \in {"h", "v", "x"}
  PROVE  ShadowFacts(B, d, u, w)
<1> DEFINE S == ({0} \X Temps) \cup Addresses(1) \cup Addresses(2)
           a == <<d, u>>
           b == <<d, w>>
<1>1. a \in S /\ b \in S
  BY DEF Addresses
<1>2. B \in Seq(S)
  BY DEF Shadows
<1> HIDE DEF S, a, b
<1>3. /\ B \o << >> = B
      /\ Append(B, a) = B \o <<a>>
      /\ Append(B \o <<a>>, b) = B \o <<a, b>>
      /\ SubSeq(B \o <<a>>, 1, Len(B \o <<a>>) - 1) = B
      /\ SubSeq(B \o <<a, b>>, 1, Len(B \o <<a, b>>) - 1) = B \o <<a>>
      /\ SubSeq(B \o <<a, b>>, 1, Len(B \o <<a, b>>) - 2) = B
  BY <1>1, <1>2, ShadowOps
<1> QED BY Zenon, <1>3 DEF ShadowFacts, a, b

-----------------------------------------------------------------------------
LEMMA ShadowNone == ASSUME NEW B \in Shadows PROVE B \o << >> = B
BY ShadowsAre DEF ShadowFacts

\* The topmost call goes on at another point.
LEMMA GotoOne ==
  ASSUME OneNow(top), NEW at
  PROVE  [stack EXCEPT ![depth].at = at] = <<Moved(top, at, top.h, top.x, top.i)>>
<1> DEFINE g == Moved(top, at, top.h, top.x, top.i)
<1>1. top \in FrameOver(DOMAIN heap) /\ stack = <<top>> /\ depth = 1
  BY NowOne
<1>2. OnTop(stack, [stack EXCEPT ![depth].at = at], depth, top, g)
  BY Zenon, <1>1, TopMoves
<1> HIDE DEF g
<1>3. depth # 2
  BY <1>1
<1>4. [stack EXCEPT ![depth].at = at] = <<g>>
  BY Zenon, <1>2, <1>3 DEF OnTop
<1> QED BY <1>4 DEF g

LEMMA GotoHOne ==
  ASSUME OneNow(top), NEW at, NEW y
  PROVE  [stack EXCEPT ![depth].at = at, ![depth].h = y] = <<Moved(top, at, y, top.x, top.i)>>
<1> DEFINE g == Moved(top, at, y, top.x, top.i)
<1>1. top \in FrameOver(DOMAIN heap) /\ stack = <<top>> /\ depth = 1
  BY NowOne
<1>2. OnTop(stack, [stack EXCEPT ![depth].at = at, ![depth].h = y], depth, top, g)
  BY ZenonT(30), <1>1, TopMoves
<1> HIDE DEF g
<1>3. depth # 2
  BY <1>1
<1>4. [stack EXCEPT ![depth].at = at, ![depth].h = y] = <<g>>
  BY Zenon, <1>2, <1>3 DEF OnTop
<1> QED BY <1>4 DEF g

LEMMA NextOne ==
  ASSUME OneNow(top), NEW y
  PROVE  [stack EXCEPT ![depth].i = y] = <<Moved(top, top.at, top.h, top.x, y)>>
<1> DEFINE g == Moved(top, top.at, top.h, top.x, y)
<1>1. top \in FrameOver(DOMAIN heap) /\ stack = <<top>> /\ depth = 1
  BY NowOne
<1>2. OnTop(stack, [stack EXCEPT ![depth].i = y], depth, top, g)
  BY Zenon, <1>1, TopMoves
<1> HIDE DEF g
<1>3. depth # 2
  BY <1>1
<1>4. [stack EXCEPT ![depth].i = y] = <<g>>
  BY Zenon, <1>2, <1>3 DEF OnTop
<1> QED BY <1>4 DEF g

LEMMA GotoTwo ==
  ASSUME NEW c, TwoNow(c, top), NEW at
  PROVE  [stack EXCEPT ![depth].at = at] = <<c, Moved(top, at, top.h, top.x, top.i)>>
<1> DEFINE g == Moved(top, at, top.h, top.x, top.i)
<1>1. /\ top \in FrameOver(DOMAIN heap) /\ depth = 2 /\ stack = <<c, top>>
      /\ \E e : stack = <<e, top>> /\ depth = 2
  BY NowTwo
<1>2. OnTop(stack, [stack EXCEPT ![depth].at = at], depth, top, g)
  BY Zenon, <1>1, TopMoves
<1> HIDE DEF g
<1>3. depth # 1
  BY <1>1
<1>4. PICK e : stack = <<e, top>> /\ [stack EXCEPT ![depth].at = at] = <<e, g>>
  BY Zenon, <1>2, <1>3 DEF OnTop
<1>5. e = c
  BY <1>1, <1>4, TopIs
<1> QED BY <1>4, <1>5 DEF g

-----------------------------------------------------------------------------
\* What does not change when objects are only written to.
LEMMA SameMemory ==
  ASSUME MemoryNow, NEW q, SameObjects(q, heap)
  PROVE  GoodMemory(q, temps, intern, pinned)
BY DEF MemoryNow, GoodMemory, SameObjects

LEMMA OuterSame ==
  ASSUME NEW c, GoodOuter(c, heap, temps, intern), NEW q, SameObjects(q, heap), c.at \notin {"grown", "compact", "regrown"}
  PROVE  GoodOuter(c, q, temps, intern)
<1>1. DOMAIN q = DOMAIN heap
  BY DEF SameObjects
<1> QED BY <1>1 DEF GoodOuter, HoldsWhat, AtIn

\* A call ends: its caller goes on, the emitted frame with the result.
LEMMA ReturnGood ==
  ASSUME RtInv, depth > 0, NEW val, Return(val), intern' = intern, pinned' = pinned,
         SameObjects(heap', heap),
         OneNow(top) => roots' = FrameRoots /\ val \in Val(DOMAIN heap),
         \A c : TwoNow(c, top) => roots' = FrameRoots \o Rooted(c, 1)
  PROVE  RtInv'
<1>1. MemoryNow /\ (OneNow(top) \/ \E c : TwoNow(c, top))
  BY TopCases
<1>2. GoodMemory(heap', temps, intern, pinned) /\ DOMAIN heap' = DOMAIN heap
  BY <1>1, SameMemory DEF SameObjects
<1>3. /\ stack' = Outer
      /\ temps' = IF top.dst = Null THEN temps ELSE [temps EXCEPT ![top.dst] = val]
  BY DEF Return
<1>4. CASE OneNow(top)
  <2>1. stack' = << >> /\ roots' = FrameRoots
    BY <1>3, <1>4, NowOne
  <2>2. top.dst \in Temps \cup {Null}
    BY <1>4, NowOne DEF FrameOver
  <2>3. temps \in [Temps -> Val(DOMAIN heap')] /\ val \in Val(DOMAIN heap')
    BY <1>2, <1>4 DEF GoodMemory
  <2>4. temps' \in [Temps -> Val(DOMAIN heap')]
    BY <1>3, <2>2, <2>3
  <2>5. GoodMemory(heap', temps', intern', pinned')
    BY <1>2, <2>4 DEF GoodMemory
  <2>6. GoodStack(heap', temps', intern', stack', roots')
    BY <2>1 DEF GoodStack, NoCall
  <2> QED BY <2>5, <2>6 DEF RtInv, Good
<1>5. ASSUME NEW c, TwoNow(c, top) PROVE RtInv'
  <2>1. stack' = <<c>> /\ roots' = FrameRoots \o Rooted(c, 1)
    BY <1>3, <1>5, NowTwo
  <2>2. GoodOuter(c, heap, temps, intern) /\ Nested(c, top, heap, intern)
    BY <1>5, NowTwo DEF GoodInner
  <2>3. temps' = temps
    BY <1>3, <2>2 DEF Nested
  <2>4. c.at \notin {"grown", "compact", "regrown"}
    BY <2>2 DEF Nested, AtIn
  <2>5. GoodOuter(c, heap', temps, intern)
    BY <2>2, <2>4, OuterSame
  <2>6. OneCall(c, heap', temps', intern', stack', roots')
    BY <2>1, <2>3, <2>5 DEF OneCall
  <2>7. GoodStack(heap', temps', intern', stack', roots')
    BY <2>6 DEF GoodStack
  <2> QED BY <1>2, <2>3, <2>7 DEF RtInv, Good
<1> QED BY <1>1, <1>4, <1>5

\* The same, of a call that has nothing on the shadow stack and no result.
LEMMA ReturnNull ==
  ASSUME RtInv, depth > 0, Return(Null), UNCHANGED <<intern, pinned, roots>>,
         SameObjects(heap', heap), \A d : Rooted(top, d) = << >>
  PROVE  RtInv'
<1>1. OneNow(top) => roots' = FrameRoots /\ Null \in Val(DOMAIN heap)
  <2> SUFFICES ASSUME OneNow(top) PROVE roots = FrameRoots
    BY DEF Val
  <2>1. roots = FrameRoots \o Rooted(top, 1) /\ FrameRoots \in Shadows
    BY NowOne, ShadowTypes
  <2> QED BY <2>1, ShadowNone
<1>2. ASSUME NEW c, TwoNow(c, top) PROVE roots' = FrameRoots \o Rooted(c, 1)
  <2> DEFINE B == FrameRoots \o Rooted(c, 1)
  <2>1. roots = B \o Rooted(top, 2) /\ B \in Shadows
    BY <1>2, NowTwo, ShadowTypes
  <2> HIDE DEF B
  <2>2. B \o << >> = B
    BY <2>1, ShadowNone
  <2>3. roots' = B
    BY <2>1, <2>2
  <2> QED BY <2>3 DEF B
<1>3. intern' = intern /\ pinned' = pinned
  OBVIOUS
<1> QED BY <1>1, <1>2, <1>3, ReturnGood

\* The running call and its memory.
LEMMA TopHolds ==
  ASSUME RtInv, depth > 0
  PROVE  /\ MemoryNow /\ GoodHeap(heap) /\ DOMAIN heap \subseteq Ids
         /\ top \in FrameOver(DOMAIN heap) /\ HoldsWhat(top, heap)
         /\ top.h \in Val(DOMAIN heap) /\ top.k \in Val(DOMAIN heap)
         /\ top.v \in Val(DOMAIN heap) /\ top.x \in Val(DOMAIN heap)
<1>1. MemoryNow /\ (OneNow(top) \/ \E c : TwoNow(c, top))
  BY TopCases
<1>2. GoodHeap(heap) /\ DOMAIN heap \subseteq Ids
  BY <1>1 DEF MemoryNow, GoodMemory, GoodHeap
<1>3. top \in FrameOver(DOMAIN heap) /\ HoldsWhat(top, heap)
  BY <1>1, NowOne, NowTwo DEF GoodOuter, GoodInner
<1>4. /\ top.h \in Val(DOMAIN heap) /\ top.k \in Val(DOMAIN heap)
      /\ top.v \in Val(DOMAIN heap) /\ top.x \in Val(DOMAIN heap)
  BY <1>3 DEF FrameOver
<1> QED BY <1>1, <1>2, <1>3, <1>4

-----------------------------------------------------------------------------
LEMMA VectorSteps == ASSUME RtInv, Vectors PROVE RtInv'
<1>1. CASE VecGrow
  BY <1>1, AllocStepGood DEF VecGrow, AllocPoints
<1>2. CASE VecGrown
  <2>1. /\ top.fn = "vec_push" /\ top.at = "grown" /\ depth > 0
        /\ Return(Null) /\ UNCHANGED <<intern, pinned, roots>>
    BY <1>2 DEF VecGrown, At
  <2> DEFINE ws == Append(Elems(top.h), top.v)
  <2>2. heap' = [heap EXCEPT ![top.x].words = ws, ![top.h].buf = top.x, ![top.h].len = heap[top.h].len + 1]
    BY <1>2 DEF VecGrown
  <2>3. /\ top.h \in OfKind("vec", DOMAIN heap) /\ top.x \in OfKind("buf", DOMAIN heap)
        /\ \A p \in DOMAIN heap : heap[p].buf # top.x
    BY <2>1, TopHolds DEF HoldsWhat, AtIn
  <2>4. ws = Append(SubSeq(BufWords(heap, top.h), 1, heap[top.h].len), top.v)
    BY Zenon DEF Elems, WordsOf, BufWords
  <2> HIDE DEF ws
  <2>5. SameObjects([heap EXCEPT ![top.x].words = ws, ![top.h].buf = top.x, ![top.h].len = heap[top.h].len + 1], heap)
    BY Zenon, <2>1, <2>3, <2>4, TopHolds, GrownHeap
  <2>6. SameObjects(heap', heap)
    BY Zenon, <2>2, <2>5
  <2>7. \A d : Rooted(top, d) = << >>
    BY <2>1 DEF Rooted, AtIn
  <2> QED BY <2>1, <2>6, <2>7, ReturnNull
<1>3. CASE VecAppend
  <2>1. /\ top.fn = "vec_push" /\ top.at = "entry" /\ depth > 0 /\ heap[top.h].buf # Null
        /\ Return(Null) /\ UNCHANGED <<intern, pinned, roots>>
    BY <1>3 DEF VecAppend, At
  <2> DEFINE h == top.h
             e == heap[h].buf
             n == heap[h].len + 1
             u == heap[e].words
             ws == IF n \in DOMAIN u THEN [u EXCEPT ![n] = top.v] ELSE Append(u, top.v)
  <2>2. heap' = [heap EXCEPT ![h].len = n, ![e].words = ws]
    BY <1>3 DEF VecAppend
  <2>3. h \in OfKind("vec", DOMAIN heap) /\ h \in DOMAIN heap /\ GoodHeap(heap) /\ top.v \in Val(DOMAIN heap)
    BY <2>1, TopHolds DEF HoldsWhat, OfKind
  <2>4. /\ u \in Seq(Val(DOMAIN heap)) /\ heap[h].len \in Nat /\ heap[h].len <= Len(u)
    <3>1. /\ heap[h].len \in Nat /\ heap[h].len <= Len(BufWords(heap, h))
          /\ BufWords(heap, h) \in Seq(Val(DOMAIN heap))
      BY <2>3, WordsAre
    <3>2. BufWords(heap, h) = u
      BY <2>1 DEF BufWords
    <3> QED BY <3>1, <3>2
  <2> HIDE DEF u, h
  <2>5. ws \in Seq(Val(DOMAIN heap)) /\ n <= Len(ws) /\ Len(u) <= Len(ws)
    BY ZenonT(30), <2>3, <2>4, OneMore
  <2> HIDE DEF ws, n
  <2>6. SameObjects([heap EXCEPT ![h].len = n, ![e].words = ws], heap)
    BY Zenon, <2>1, <2>3, <2>5, AppendedHeap DEF u, n, h
  <2>7. SameObjects(heap', heap)
    BY Zenon, <2>2, <2>6
  <2>8. \A d : Rooted(top, d) = << >>
    BY <2>1 DEF Rooted, AtIn
  <2> QED BY <2>1, <2>7, <2>8, ReturnNull
<1> QED BY <1>1, <1>2, <1>3 DEF Vectors

\* cl_map_set goes on, having written to the map's objects only.
LEMMA MapGoto ==
  ASSUME RtInv, depth > 0, top.fn = "map_set", NEW to \in {"reindex", "room", "append"}, Goto(to),
         UNCHANGED <<temps, intern, pinned, roots>>, SameObjects(heap', heap)
  PROVE  RtInv'
<1> DEFINE g == Moved(top, to, top.h, top.x, top.i)
<1>1. MemoryNow /\ (OneNow(top) \/ \E c : TwoNow(c, top))
  BY TopCases
<1>2. GoodMemory(heap', temps, intern, pinned) /\ DOMAIN heap' = DOMAIN heap
  BY <1>1, SameMemory DEF SameObjects
<1>3. /\ stack' = [stack EXCEPT ![depth].at = to]
      /\ temps' = temps /\ intern' = intern /\ pinned' = pinned /\ roots' = roots
  BY DEF Goto
<1>4. /\ g.fn = top.fn /\ g.at = to /\ g.h = top.h /\ g.k = top.k /\ g.v = top.v /\ g.x = top.x
      /\ g.dst = top.dst
  BY DEF Moved
<1>5. g \in FrameOver(DOMAIN heap')
  BY <1>2, TopHolds DEF FrameOver, Moved, Points
<1>6. stack' = <<g>> \/ \E c : stack' = <<c, g>>
  BY <1>1, <1>3, GotoOne, GotoTwo
<1>7. OneNow(top) => stack' = <<g>>
  BY <1>3, GotoOne
<1>8. \A c : TwoNow(c, top) => stack' = <<c, g>>
  BY <1>3, GotoTwo
<1> HIDE DEF g
<1>9. HoldsWhat(g, heap')
  <2>1. top.h \in OfKind("map", DOMAIN heap')
    BY <1>2, TopHolds DEF HoldsWhat
  <2> QED BY <1>4, <2>1 DEF HoldsWhat, AtIn
<1>10. \A d : Rooted(g, d) = Rooted(top, d)
  BY <1>4 DEF Rooted, AtIn
<1>11. CASE OneNow(top)
  <2>1. GoodOuter(top, heap, temps, intern) /\ roots = FrameRoots \o Rooted(top, 1)
    BY <1>11, NowOne
  <2>2. Outermost(g, temps, intern)
    BY <1>4, <2>1 DEF GoodOuter, Outermost, AtIn, FromTemps
  <2>3. OneCall(g, heap', temps, intern, stack', roots)
    BY <1>5, <1>7, <1>9, <1>10, <1>11, <2>1, <2>2 DEF OneCall, GoodOuter
  <2> QED BY <1>2, <1>3, <2>3 DEF RtInv, Good, GoodStack
<1>12. ASSUME NEW c, TwoNow(c, top) PROVE RtInv'
  <2>1. /\ GoodOuter(c, heap, temps, intern) /\ Nested(c, top, heap, intern)
        /\ roots = (FrameRoots \o Rooted(c, 1)) \o Rooted(top, 2)
    BY <1>12, NowTwo DEF GoodInner
  <2>2. Nested(c, g, heap', intern) /\ c.at \notin {"grown", "compact", "regrown"}
    BY <1>4, <2>1 DEF Nested, AtIn
  <2>3. GoodOuter(c, heap', temps, intern)
    BY <2>1, <2>2, OuterSame
  <2>4. TwoCalls(c, g, heap', temps, intern, stack', roots)
    BY <1>5, <1>8, <1>9, <1>10, <1>12, <2>1, <2>2, <2>3 DEF TwoCalls, GoodInner
  <2> QED BY <1>2, <1>3, <2>4 DEF RtInv, Good, GoodStack
<1> QED BY <1>1, <1>11, <1>12

\* The entries of a map, if it has any.
LEMMA EntriesAre ==
  ASSUME GoodHeap(heap), NEW h \in OfKind("map", DOMAIN heap)
  PROVE  /\ Entries(h) \in Seq(EntriesOver(DOMAIN heap))
         /\ heap[h].entries # Null =>
              /\ heap[h].entries \in DOMAIN heap /\ Kind(heap[h].entries) = "entries"
              /\ Entries(h) = heap[heap[h].entries].words
         /\ heap[h].entries \notin DOMAIN heap => heap[h].entries = Null /\ Entries(h) = << >>
<1> DEFINE e == heap[h].entries
<1>1. e # Null => e \in DOMAIN heap /\ Kind(e) = "entries"
  BY WordsAre DEF OfKind
<1> HIDE DEF e
<1>2. e # Null => heap[e].words \in Seq(EntriesOver(DOMAIN heap))
  BY <1>1, WordsAre DEF WordsOver
<1>3. Entries(h) = IF e = Null THEN << >> ELSE heap[e].words
  BY Zenon DEF Entries, WordsOf, e
<1>4. << >> \in Seq(EntriesOver(DOMAIN heap))
  OBVIOUS
<1>5. Null \notin DOMAIN heap
  BY NoneIsNone DEF GoodHeap
<1>6. Entries(h) \in Seq(EntriesOver(DOMAIN heap))
  BY Zenon, <1>2, <1>3, <1>4
<1> QED BY Zenon, <1>1, <1>3, <1>5, <1>6 DEF e

\* An overwritten value, a deleted entry and a new one are entries.
LEMMA EntrySet ==
  ASSUME NEW L, NEW ws \in Seq(EntriesOver(L)), NEW i \in DOMAIN ws, NEW v \in Val(L)
  PROVE  /\ [ws EXCEPT ![i].val = v] \in Seq(EntriesOver(L))
         /\ [ws EXCEPT ![i].live = FALSE] \in Seq(EntriesOver(L))
<1> DEFINE y == [ws[i] EXCEPT !.val = v]
           z == [ws[i] EXCEPT !.live = FALSE]
<1>1. [ws EXCEPT ![i].val = v] = [ws EXCEPT ![i] = y] /\ [ws EXCEPT ![i].live = FALSE] = [ws EXCEPT ![i] = z]
  BY Zenon
<1>2. ws[i] \in EntriesOver(L)
  OBVIOUS
<1>3. y \in EntriesOver(L)
  BY <1>2 DEF EntriesOver
<1>4. z \in EntriesOver(L)
  BY <1>2 DEF EntriesOver
<1> HIDE DEF y, z
<1>5. [ws EXCEPT ![i] = y] \in Seq(EntriesOver(L)) /\ [ws EXCEPT ![i] = z] \in Seq(EntriesOver(L))
  BY <1>3, <1>4
<1> QED BY Zenon, <1>1, <1>5

\* The live entries are some of the entries.
LEMMA KeptAre ==
  ASSUME NEW L, NEW ws \in Seq(EntriesOver(L))
  PROVE  Kept(ws) \in Seq(EntriesOver(L))
<1> DEFINE E == EntriesOver(L)
<1> HIDE DEF E
<1>1. ws \in Seq(E)
  BY DEF E
<1>2. PICK K : Keeps(K, ws, E) /\ Kept(ws) = K[Len(ws)]
  BY <1>1, KeptIs
<1>3. Len(ws) \in 0 .. Len(ws)
  BY <1>1
<1>4. Kept(ws) \in Seq(E)
  BY <1>2, <1>3 DEF Keeps
<1> QED BY <1>4 DEF E

LEMMA MapUpdateGood == ASSUME RtInv, NEW i, MapUpdate(i) PROVE RtInv'
<1> DEFINE h == top.h
           e == heap[h].entries
           ws == heap[e].words
<1>1. /\ top.fn = "map_set" /\ depth > 0 /\ i \in DOMAIN Entries(h)
      /\ Return(Null) /\ UNCHANGED <<intern, pinned, roots>>
      /\ heap' = [heap EXCEPT ![e].words[i].val = top.v]
  BY DEF MapUpdate, At
<1>2. h \in OfKind("map", DOMAIN heap) /\ GoodHeap(heap) /\ top.v \in Val(DOMAIN heap)
  BY <1>1, TopHolds DEF HoldsWhat
<1>3. e \in DOMAIN heap /\ Kind(e) = "entries" /\ ws = Entries(h) /\ ws \in Seq(EntriesOver(DOMAIN heap))
  <2>1. e # Null
    <3>1. ~ \E y : y \in DOMAIN << >>
      OBVIOUS
    <3>2. e = Null => Entries(h) = << >>
      BY Zenon DEF Entries, WordsOf
    <3> QED BY Zenon, <1>1, <3>1, <3>2
  <2> QED BY Zenon, <1>2, <2>1, EntriesAre
<1>4. heap' = [heap EXCEPT ![e].words = [ws EXCEPT ![i].val = top.v]]
  BY Zenon, <1>1
<1> HIDE DEF ws, e, h
<1> DEFINE u == [ws EXCEPT ![i].val = top.v]
<1>5. u \in Seq(EntriesOver(DOMAIN heap))
  BY Zenon, <1>1, <1>2, <1>3, EntrySet
<1> HIDE DEF u
<1>6. SameObjects([heap EXCEPT ![e].words = u], heap)
  BY Zenon, <1>2, <1>3, <1>5, EntriesHeap
<1>7. SameObjects(heap', heap)
  BY Zenon, <1>4, <1>6 DEF u
<1>8. \A d : Rooted(top, d) = << >>
  BY <1>1 DEF Rooted, AtIn
<1> QED BY <1>1, <1>7, <1>8, ReturnNull

LEMMA MapAppendGood == ASSUME RtInv, MapAppend PROVE RtInv'
<1> DEFINE h == top.h
           e == heap[h].entries
           u == Append(heap[e].words, Entry(top.k, top.v))
<1>1. /\ top.fn = "map_set" /\ depth > 0
      /\ Return(Null) /\ UNCHANGED <<intern, pinned, roots>>
      /\ heap' = [heap EXCEPT ![e].words = u]
  BY DEF MapAppend, At
<1>2. /\ h \in OfKind("map", DOMAIN heap) /\ GoodHeap(heap)
      /\ top.k \in Val(DOMAIN heap) /\ top.v \in Val(DOMAIN heap)
  BY <1>1, TopHolds DEF HoldsWhat
<1>3. ASSUME e \in DOMAIN heap
      PROVE  Kind(e) = "entries" /\ u \in Seq(EntriesOver(DOMAIN heap))
  <2>1. e # Null
    BY <1>2, <1>3, NoneIsNone DEF GoodHeap
  <2>2. Kind(e) = "entries" /\ heap[e].words \in Seq(EntriesOver(DOMAIN heap))
    <3>1. Entries(h) \in Seq(EntriesOver(DOMAIN heap)) /\ Kind(e) = "entries" /\ Entries(h) = heap[e].words
      BY Zenon, <1>2, <2>1, EntriesAre
    <3> QED BY Zenon, <3>1
  <2>3. Entry(top.k, top.v) \in EntriesOver(DOMAIN heap)
    BY <1>2 DEF Entry, EntriesOver
  <2> QED BY <2>2, <2>3
<1> HIDE DEF u, e, h
<1>4. SameObjects([heap EXCEPT ![e].words = u], heap)
  BY Zenon, <1>2, <1>3, EntriesHeap
<1>5. SameObjects(heap', heap)
  BY Zenon, <1>1, <1>4
<1>6. \A d : Rooted(top, d) = << >>
  BY <1>1 DEF Rooted, AtIn
<1> QED BY <1>1, <1>5, <1>6, ReturnNull

\* Publishing a new buffer, of the live entries or of all of them.
LEMMA MapRehashed ==
  ASSUME RtInv, At("map_set", "compact") \/ At("map_set", "regrown"),
         NEW u, u = Kept(Entries(top.h)) \/ u = Entries(top.h), NEW to \in {"reindex", "append"},
         heap' = [heap EXCEPT ![top.x].words = u, ![top.h].entries = top.x],
         Goto(to), UNCHANGED <<temps, intern, pinned, roots>>
  PROVE  RtInv'
<1>1. top.fn = "map_set" /\ depth > 0 /\ AtIn(top, "map_set", {"compact", "regrown"})
  BY DEF At, AtIn
<1>2. /\ top.h \in OfKind("map", DOMAIN heap) /\ GoodHeap(heap)
      /\ top.x \in OfKind("entries", DOMAIN heap)
  BY <1>1, TopHolds DEF HoldsWhat
<1>3. u \in Seq(EntriesOver(DOMAIN heap))
  <2>1. Entries(top.h) \in Seq(EntriesOver(DOMAIN heap))
    BY <1>2, EntriesAre
  <2> QED BY <2>1, KeptAre
<1>4. SameObjects([heap EXCEPT ![top.x].words = u, ![top.h].entries = top.x], heap)
  BY Zenon, <1>2, <1>3, RehashedHeap
<1>5. SameObjects(heap', heap)
  BY Zenon, <1>4
<1> QED BY <1>1, <1>5, MapGoto

LEMMA MapSteps == ASSUME RtInv, Maps PROVE RtInv'
<1>1. CASE \E i \in 1 .. MaxElems : MapUpdate(i)
  BY <1>1, MapUpdateGood
<1>2. CASE MapRehash
  BY <1>2, AllocStepGood DEF MapRehash, AllocPoints
<1>3. CASE MapCompact
  <2> DEFINE u == Kept(Entries(top.h))
  <2>1. /\ At("map_set", "compact") /\ Goto("reindex") /\ UNCHANGED <<temps, intern, pinned, roots>>
        /\ heap' = [heap EXCEPT ![top.x].words = u, ![top.h].entries = top.x]
    BY <1>3 DEF MapCompact
  <2>2. u = Kept(Entries(top.h))
    OBVIOUS
  <2> HIDE DEF u
  <2> QED BY Zenon, <2>1, <2>2, MapRehashed
<1>4. CASE MapReindex
  BY <1>4, AllocStepGood DEF MapReindex, AllocPoints
<1>5. CASE MapIndexed
  <2>1. /\ top.fn = "map_set" /\ depth > 0 /\ AtIn(top, "map_set", {"indexed"})
        /\ heap' = [heap EXCEPT ![top.h].index = top.x] /\ Goto("room")
        /\ UNCHANGED <<temps, intern, pinned, roots>>
    BY <1>5 DEF MapIndexed, At, AtIn
  <2>2. /\ top.h \in OfKind("map", DOMAIN heap) /\ GoodHeap(heap)
        /\ top.x \in OfKind("index", DOMAIN heap)
    BY <2>1, TopHolds DEF HoldsWhat
  <2>3. SameObjects([heap EXCEPT ![top.h].index = top.x], heap)
    BY Zenon, <2>2, IndexedHeap
  <2>4. SameObjects(heap', heap)
    BY Zenon, <2>1, <2>3
  <2> QED BY <2>1, <2>4, MapGoto
<1>6. CASE MapNoRehash
  <2>1. /\ top.fn = "map_set" /\ depth > 0 /\ heap' = heap /\ Goto("room")
        /\ UNCHANGED <<temps, intern, pinned, roots>>
    BY <1>6 DEF MapNoRehash, At
  <2>2. SameObjects(heap', heap)
    BY <2>1, TopHolds DEF SameObjects
  <2> QED BY <2>1, <2>2, MapGoto
<1>7. CASE MapRegrow
  BY <1>7, AllocStepGood DEF MapRegrow, AllocPoints
<1>8. CASE MapRegrown
  <2> DEFINE u == Entries(top.h)
  <2>1. /\ At("map_set", "regrown") /\ Goto("append") /\ UNCHANGED <<temps, intern, pinned, roots>>
        /\ heap' = [heap EXCEPT ![top.x].words = u, ![top.h].entries = top.x]
    BY <1>8 DEF MapRegrown
  <2>2. u = Entries(top.h)
    OBVIOUS
  <2> HIDE DEF u
  <2> QED BY Zenon, <2>1, <2>2, MapRehashed
<1>9. CASE MapAppend
  BY <1>9, MapAppendGood
<1> QED BY <1>1, <1>2, <1>3, <1>4, <1>5, <1>6, <1>7, <1>8, <1>9 DEF Maps

-----------------------------------------------------------------------------
\* The outermost call goes on alone.
LEMMA OneAgain ==
  ASSUME GoodMemory(heap', temps', intern', pinned'), NEW g, stack' = <<g>>,
         roots' = FrameRoots \o Rooted(g, 1), GoodOuter(g, heap', temps', intern')
  PROVE  RtInv'
<1>1. OneCall(g, heap', temps', intern', stack', roots')
  BY DEF OneCall
<1> QED BY <1>1 DEF RtInv, Good, GoodStack

\* It calls another function.
LEMMA CallsOne ==
  ASSUME MemoryNow, UNCHANGED <<heap, temps, intern, pinned>>, NEW g, NEW f, stack' = <<g, f>>,
         GoodOuter(g, heap, temps, intern), GoodInner(g, f, heap, intern),
         roots' = FrameRoots \o Rooted(g, 1), Rooted(f, 2) = << >>
  PROVE  RtInv'
<1> DEFINE B == FrameRoots \o Rooted(g, 1)
<1>1. B \in Shadows
  BY ShadowTypes
<1> HIDE DEF B
<1>2. B \o << >> = B
  BY <1>1, ShadowNone
<1>3. roots' = B \o Rooted(f, 2)
  BY <1>2 DEF B
<1>4. TwoCalls(g, f, heap', temps', intern', stack', roots')
  BY <1>3 DEF TwoCalls, B
<1>5. GoodMemory(heap', temps', intern', pinned')
  BY DEF MemoryNow
<1> QED BY <1>4, <1>5 DEF RtInv, Good, GoodStack

\* It returns.
LEMMA ReturnOne ==
  ASSUME RtInv, OneNow(top), NEW val \in Val(DOMAIN heap), Return(val),
         UNCHANGED <<heap, intern, pinned>>, roots' = FrameRoots
  PROVE  RtInv'
<1>1. depth > 0 /\ \A c : ~ TwoNow(c, top)
  BY NowOne, NowTwo
<1>2. SameObjects(heap', heap)
  BY <1>1, TopHolds DEF SameObjects
<1>3. intern' = intern /\ pinned' = pinned
  OBVIOUS
<1> QED BY <1>1, <1>2, <1>3, ReturnGood

\* What it has on the shadow stack, pushed and popped.
LEMMA ShadowOne ==
  ASSUME OneNow(top), NEW u \in {"h", "v", "x"}, NEW w \in {"h", "v", "x"}
  PROVE  /\ Rooted(top, 1) = << >> => roots = FrameRoots
         /\ Rooted(top, 1) = << >> /\ Push(u) => roots' = FrameRoots \o << <<1, u>> >>
         /\ Rooted(top, 1) = << <<1, u>> >> /\ Push(w) => roots' = FrameRoots \o << <<1, u>>, <<1, w>> >>
         /\ Rooted(top, 1) = << <<1, u>> >> /\ Pop(1) => roots' = FrameRoots
         /\ Rooted(top, 1) = << <<1, u>>, <<1, w>> >> /\ Pop(1) => roots' = FrameRoots \o << <<1, u>> >>
<1>1. roots = FrameRoots \o Rooted(top, 1) /\ depth = 1 /\ FrameRoots \in Shadows
  BY NowOne, ShadowTypes
<1>2. /\ FrameRoots \o << >> = FrameRoots
      /\ Append(FrameRoots, <<1, u>>) = FrameRoots \o << <<1, u>> >>
      /\ Append(FrameRoots \o << <<1, u>> >>, <<1, w>>) = FrameRoots \o << <<1, u>>, <<1, w>> >>
      /\ SubSeq(FrameRoots \o << <<1, u>> >>, 1, Len(FrameRoots \o << <<1, u>> >>) - 1) = FrameRoots
      /\ SubSeq(FrameRoots \o << <<1, u>>, <<1, w>> >>, 1, Len(FrameRoots \o << <<1, u>>, <<1, w>> >>) - 1)
           = FrameRoots \o << <<1, u>> >>
  <2>1. ShadowFacts(FrameRoots, 1, u, w)
    BY <1>1, ShadowsAre
  <2> QED BY Zenon, <2>1 DEF ShadowFacts
<1>3. Address(u) = <<1, u>> /\ Address(w) = <<1, w>>
  BY <1>1 DEF Address
<1>4. /\ \A var : Push(var) => roots' = Append(roots, Address(var))
      /\ Pop(1) => roots' = SubSeq(roots, 1, Len(roots) - 1)
  BY DEF Push, Pop
<1> QED BY Zenon, <1>1, <1>2, <1>3, <1>4

\* A call that is about to start.
LEMMA CallIs ==
  ASSUME NEW fn, NEW h, NEW k, NEW v, NEW dst
  PROVE  LET f == Call(fn, h, k, v, dst)
         IN  /\ f.fn = fn /\ f.at = "entry" /\ f.h = h /\ f.k = k /\ f.v = v /\ f.x = Null
             /\ f.i = 1 /\ f.dst = dst
             /\ \A L : fn \in FromTemps \cup {"strlit", "args", "callback"} /\ {h, k, v} \subseteq Val(L)
                         /\ dst \in Temps \cup {Null} => f \in FrameOver(L)
             /\ \A d : Rooted(f, d) = << >>
BY DEF Call, FrameOver, Points, Rooted, AtIn, Val

\* One that goes on at another point.
MovedTo(g, f, at, h, n, L) ==
  /\ g \in FrameOver(L)
  /\ g.fn = f.fn /\ g.at = at /\ g.h = h /\ g.k = f.k /\ g.v = f.v /\ g.x = f.x
  /\ g.i = n /\ g.dst = f.dst
LEMMA MovedIs ==
  ASSUME NEW L, NEW f \in FrameOver(L), NEW at \in Points, NEW h \in Val(L), NEW n \in Nat
  PROVE  MovedTo(Moved(f, at, h, f.x, n), f, at, h, n, L)
BY DEF Moved, FrameOver, MovedTo

LEMMA TwoIs == ASSUME NEW g, NEW f PROVE Append(<<g>>, f) = <<g, f>>
<1> DEFINE r == Append(<<g>>, f)
<1>1. r \in Seq({g, f}) /\ Len(r) = 2 /\ r[1] = g /\ r[2] = f
  <2>1. <<g>> \in Seq({g, f}) /\ Len(<<g>>) = 1 /\ <<g>>[1] = g
    OBVIOUS
  <2>2. \A S : \A u \in Seq(S) : \A y \in S :
          /\ Append(u, y) \in Seq(S) /\ Len(Append(u, y)) = Len(u) + 1
          /\ \A i \in 1 .. Len(u) : Append(u, y)[i] = u[i]
          /\ Append(u, y)[Len(u) + 1] = y
    OBVIOUS
  <2> QED BY <2>1, <2>2
<1> HIDE DEF r
<1>2. r = <<g, f>>
  BY <1>1
<1> QED BY <1>2 DEF r

-----------------------------------------------------------------------------
LEMMA KeysRootGood == ASSUME RtInv, KeysRoot PROVE RtInv'
<1> DEFINE g == Moved(top, "loop", top.h, top.x, top.i)
<1>1. /\ top.fn = "map_keys" /\ top.at = "root" /\ depth > 0 /\ Push("x") /\ Goto("loop")
      /\ UNCHANGED <<heap, temps, intern, pinned>>
  BY DEF KeysRoot, At
<1>2. MemoryNow /\ OneNow(top)
  BY <1>1, OnlyOutermost
<1>3. stack' = <<g>>
  BY <1>1, <1>2, GotoOne DEF Goto
<1>4. top \in FrameOver(DOMAIN heap) /\ HoldsWhat(top, heap) /\ Outermost(top, temps, intern)
  BY <1>2, NowOne DEF GoodOuter
<1>5. /\ g \in FrameOver(DOMAIN heap)
      /\ g.fn = top.fn /\ g.at = "loop" /\ g.h = top.h /\ g.k = top.k /\ g.v = top.v /\ g.x = top.x
  <2>1. top.h \in Val(DOMAIN heap) /\ top.i \in Nat /\ "loop" \in Points
    BY <1>4 DEF FrameOver, Points
  <2>2. MovedTo(g, top, "loop", top.h, top.i, DOMAIN heap)
    BY Zenon, <1>4, <2>1, MovedIs
  <2> HIDE DEF g
  <2> QED BY <2>2 DEF MovedTo
<1> HIDE DEF g
<1>6. HoldsWhat(g, heap)
  BY <1>1, <1>4, <1>5 DEF HoldsWhat, AtIn
<1>7. Outermost(g, temps, intern)
  BY <1>1, <1>4, <1>5 DEF Outermost, AtIn, FromTemps
<1>8. Rooted(top, 1) = << >> /\ Rooted(g, 1) = << <<1, "x">> >>
  BY <1>1, <1>5 DEF Rooted, AtIn
<1>9. roots' = FrameRoots \o Rooted(g, 1)
  BY <1>1, <1>2, <1>8, ShadowOne
<1>10. GoodOuter(g, heap', temps', intern') /\ GoodMemory(heap', temps', intern', pinned')
  BY <1>1, <1>2, <1>5, <1>6, <1>7 DEF GoodOuter, MemoryNow
<1> QED BY <1>3, <1>9, <1>10, OneAgain

\* cl_map_keys keeps its vector on the shadow stack while it goes through the
\* entries, whose keys the map keeps alive.
LEMMA KeysPushGood == ASSUME RtInv, KeysPush PROVE RtInv'
<1> DEFINE n == top.i + 1
           g == Moved(top, top.at, top.h, top.x, n)
           e == Entries(top.h)[top.i]
           f == Call("vec_push", top.x, Null, e.key, Null)
           next == [stack EXCEPT ![depth].i = n]
<1>1. /\ top.fn = "map_keys" /\ top.at = "loop" /\ depth > 0 /\ top.i \in DOMAIN Entries(top.h)
      /\ stack' = IF e.live THEN Append(next, f) ELSE next
      /\ UNCHANGED <<heap, temps, intern, pinned, roots>>
  <2>1. At("map_keys", "loop")
    BY DEF KeysPush
  <2>2. stack[depth].i = top.i
    BY DEF top
  <2> QED BY Zenon, <2>1, <2>2 DEF KeysPush, At
<1>2. MemoryNow /\ OneNow(top) /\ GoodHeap(heap)
  BY <1>1, OnlyOutermost, TopHolds
<1>3. next = <<g>>
  BY <1>2, NextOne
<1>4. /\ top \in FrameOver(DOMAIN heap) /\ HoldsWhat(top, heap) /\ Outermost(top, temps, intern)
      /\ roots = FrameRoots \o Rooted(top, 1)
  BY <1>2, NowOne DEF GoodOuter
<1>5. /\ g \in FrameOver(DOMAIN heap)
      /\ g.fn = top.fn /\ g.at = top.at /\ g.h = top.h /\ g.k = top.k /\ g.v = top.v /\ g.x = top.x
  <2>1. top.h \in Val(DOMAIN heap) /\ top.i \in Nat /\ n \in Nat /\ top.at \in Points
    BY <1>4 DEF FrameOver, Points
  <2>2. MovedTo(g, top, top.at, top.h, n, DOMAIN heap)
    BY Zenon, <1>4, <2>1, MovedIs
  <2> HIDE DEF g
  <2> QED BY <2>2 DEF MovedTo
<1>6. top.h \in OfKind("map", DOMAIN heap) /\ top.x \in OfKind("vec", DOMAIN heap)
  BY <1>1, <1>4 DEF HoldsWhat, AtIn
<1> HIDE DEF next, g
<1>7. GoodOuter(g, heap, temps, intern)
  <2>1. HoldsWhat(g, heap)
    BY <1>4, <1>5 DEF HoldsWhat, AtIn
  <2>2. Outermost(g, temps, intern)
    BY <1>4, <1>5 DEF Outermost, AtIn
  <2> QED BY <1>5, <2>1, <2>2 DEF GoodOuter
<1>8. Rooted(g, 1) = Rooted(top, 1)
  BY <1>5 DEF Rooted, AtIn
<1>9. CASE e.live
  <2>1. stack' = <<g, f>>
    <3>1. stack' = Append(next, f)
      BY Zenon, <1>1, <1>9
    <3> QED BY Zenon, <1>3, <3>1, TwoIs
  <2>2. /\ heap[top.h].entries # Null /\ e \in EntriesOver(DOMAIN heap)
        /\ e.key \in KeysOf(heap, top.h)
    <3>1. heap[top.h].entries # Null
      <4>1. ~ \E y : y \in DOMAIN << >>
        OBVIOUS
      <4>2. heap[top.h].entries = Null => Entries(top.h) = << >>
        BY Zenon DEF Entries, WordsOf
      <4> QED BY Zenon, <1>1, <4>1, <4>2
    <3>2. Entries(top.h) = heap[heap[top.h].entries].words /\ Entries(top.h) \in Seq(EntriesOver(DOMAIN heap))
      BY Zenon, <1>2, <1>6, <3>1, EntriesAre
    <3>3. e \in Range(heap[heap[top.h].entries].words)
      BY Zenon, <1>1, <3>2, RangeIs
    <3>4. e \in EntriesOver(DOMAIN heap)
      BY <1>1, <3>2
    <3>5. e.key \in KeysOf(heap, top.h)
      BY Zenon, <3>3 DEF KeysOf
    <3> QED BY <3>1, <3>4, <3>5
  <2> HIDE DEF e
  <2>3. e.key \in Val(DOMAIN heap) /\ top.x \in Val(DOMAIN heap)
    BY <1>6, <2>2 DEF EntriesOver, OfKind, Val
  <2>4. /\ f.fn = "vec_push" /\ f.at = "entry" /\ f.h = top.x /\ f.k = Null /\ f.v = e.key /\ f.dst = Null
        /\ f \in FrameOver(DOMAIN heap) /\ \A d : Rooted(f, d) = << >>
    <3>1. {top.x, Null, e.key} \subseteq Val(DOMAIN heap) /\ "vec_push" \in FromTemps
      BY <2>3 DEF Val, FromTemps
    <3> QED BY <3>1, CallIs
  <2> HIDE DEF f
  <2>5. HoldsWhat(f, heap)
    BY <1>6, <2>4 DEF HoldsWhat, AtIn
  <2>6. Nested(g, f, heap, intern)
    BY <1>1, <1>5, <2>2, <2>4 DEF Nested, AtIn
  <2>7. GoodInner(g, f, heap, intern)
    BY <2>4, <2>5, <2>6 DEF GoodInner
  <2>8. roots' = FrameRoots \o Rooted(g, 1) /\ Rooted(f, 2) = << >>
    BY <1>1, <1>4, <1>8, <2>4
  <2> QED BY <1>1, <1>2, <1>7, <2>1, <2>7, <2>8, CallsOne
<1>10. CASE ~ e.live
  <2>1. stack' = <<g>>
    BY Zenon, <1>1, <1>3, <1>10
  <2>2. roots' = FrameRoots \o Rooted(g, 1)
    BY <1>1, <1>4, <1>8
  <2>3. GoodOuter(g, heap', temps', intern') /\ GoodMemory(heap', temps', intern', pinned')
    BY <1>1, <1>2, <1>7 DEF MemoryNow
  <2> QED BY <2>1, <2>2, <2>3, OneAgain
<1> QED BY <1>9, <1>10

LEMMA KeysDoneGood == ASSUME RtInv, KeysDone PROVE RtInv'
<1>1. /\ top.fn = "map_keys" /\ top.at = "loop" /\ depth > 0 /\ Pop(1) /\ Return(top.x)
      /\ UNCHANGED <<heap, intern, pinned>>
  BY DEF KeysDone, At
<1>2. OneNow(top) /\ top.x \in Val(DOMAIN heap)
  BY <1>1, OnlyOutermost, TopHolds
<1>3. Rooted(top, 1) = << <<1, "x">> >>
  BY <1>1 DEF Rooted, AtIn
<1>4. roots' = FrameRoots
  BY <1>1, <1>2, <1>3, ShadowOne
<1> QED BY <1>1, <1>2, <1>4, ReturnOne

LEMMA MapKeysSteps == ASSUME RtInv, MapKeys PROVE RtInv'
<1>1. CASE KeysNew
  BY <1>1, AllocStepGood DEF KeysNew, AllocPoints
<1> QED BY <1>1, KeysRootGood, KeysPushGood, KeysDoneGood DEF MapKeys

-----------------------------------------------------------------------------
LEMMA InternPinGood == ASSUME RtInv, InternPin PROVE RtInv'
<1> DEFINE g == Moved(top, "entry", top.h, top.x, top.i)
<1>1. /\ top.fn = "strlit" /\ top.at = "pin" /\ depth > 0 /\ Goto("entry")
      /\ UNCHANGED <<heap, temps, roots>> /\ intern' = top.x /\ pinned' = TRUE
  BY DEF InternPin, At
<1>2. MemoryNow /\ OneNow(top)
  BY <1>1, OnlyOutermost
<1>3. stack' = <<g>>
  BY <1>1, <1>2, GotoOne DEF Goto
<1>4. /\ top \in FrameOver(DOMAIN heap) /\ HoldsWhat(top, heap) /\ Outermost(top, temps, intern)
      /\ roots = FrameRoots \o Rooted(top, 1)
  BY <1>2, NowOne DEF GoodOuter
<1>5. /\ g \in FrameOver(DOMAIN heap)
      /\ g.fn = top.fn /\ g.at = "entry" /\ g.h = top.h /\ g.k = top.k /\ g.v = top.v /\ g.x = top.x
  <2>1. top.h \in Val(DOMAIN heap) /\ top.i \in Nat /\ "entry" \in Points
    BY <1>4 DEF FrameOver, Points
  <2>2. MovedTo(g, top, "entry", top.h, top.i, DOMAIN heap)
    BY Zenon, <1>4, <2>1, MovedIs
  <2> HIDE DEF g
  <2> QED BY <2>2 DEF MovedTo
<1> HIDE DEF g
<1>6. HoldsWhat(g, heap)
  BY <1>1, <1>4, <1>5 DEF HoldsWhat, AtIn
<1>7. Outermost(g, temps, intern')
  BY <1>1, <1>4, <1>5 DEF Outermost, AtIn, FromTemps
<1>8. roots' = FrameRoots \o Rooted(g, 1)
  <2>1. Rooted(g, 1) = Rooted(top, 1)
    BY <1>1, <1>5 DEF Rooted, AtIn
  <2> QED BY <1>1, <1>4, <2>1
<1>9. top.x \in OfKind("map", DOMAIN heap)
  BY <1>1, <1>4 DEF HoldsWhat, AtIn
<1>10. GoodOuter(g, heap', temps', intern') /\ GoodMemory(heap', temps', intern', pinned')
  BY <1>1, <1>2, <1>5, <1>6, <1>7, <1>9 DEF GoodOuter, MemoryNow, GoodMemory
<1> QED BY <1>3, <1>8, <1>10, OneAgain

LEMMA LiteralHitGood == ASSUME RtInv, NEW i, LiteralHit(i) PROVE RtInv'
<1>1. /\ top.fn = "strlit" /\ top.at = "entry" /\ depth > 0 /\ intern # Null /\ i \in DOMAIN Entries(intern)
      /\ Return(Entries(intern)[i].val) /\ UNCHANGED <<heap, intern, pinned, roots>>
  BY DEF LiteralHit, At
<1>2. MemoryNow /\ OneNow(top) /\ GoodHeap(heap)
  BY <1>1, OnlyOutermost, TopHolds
<1>3. intern \in OfKind("map", DOMAIN heap)
  BY <1>1, <1>2 DEF MemoryNow, GoodMemory
<1>4. Entries(intern) \in Seq(EntriesOver(DOMAIN heap))
  BY <1>2, <1>3, EntriesAre
<1>5. Entries(intern)[i] \in EntriesOver(DOMAIN heap)
  BY <1>1, <1>4
<1>6. Entries(intern)[i].val \in Val(DOMAIN heap)
  BY <1>5 DEF EntriesOver
<1>7. Rooted(top, 1) = << >>
  BY <1>1 DEF Rooted, AtIn
<1>8. roots' = FrameRoots
  BY <1>1, <1>2, <1>7, ShadowOne
<1> QED BY <1>1, <1>2, <1>6, <1>8, ReturnOne

\* The new string is rooted while it is entered in the intern table.
LEMMA LiteralSetGood == ASSUME RtInv, LiteralSet PROVE RtInv'
<1> DEFINE g == Moved(top, "done", top.h, top.x, top.i)
           f == Call("map_set", intern, top.k, top.x, Null)
<1>1. /\ top.fn = "strlit" /\ top.at = "set" /\ depth > 0 /\ Push("x") /\ Enter("done", f)
      /\ UNCHANGED <<heap, temps, intern, pinned>>
  BY DEF LiteralSet, At
<1>2. MemoryNow /\ OneNow(top)
  BY <1>1, OnlyOutermost
<1>3. stack' = <<g, f>>
  <2>1. [stack EXCEPT ![depth].at = "done"] = <<g>>
    BY <1>2, GotoOne
  <2> QED BY Zenon, <1>1, <2>1, TwoIs DEF Enter
<1>4. top \in FrameOver(DOMAIN heap) /\ HoldsWhat(top, heap) /\ Outermost(top, temps, intern)
  BY <1>2, NowOne DEF GoodOuter
<1>5. /\ g \in FrameOver(DOMAIN heap)
      /\ g.fn = top.fn /\ g.at = "done" /\ g.h = top.h /\ g.k = top.k /\ g.v = top.v /\ g.x = top.x
  <2>1. top.h \in Val(DOMAIN heap) /\ top.i \in Nat /\ "done" \in Points
    BY <1>4 DEF FrameOver, Points
  <2>2. MovedTo(g, top, "done", top.h, top.i, DOMAIN heap)
    BY Zenon, <1>4, <2>1, MovedIs
  <2> HIDE DEF g
  <2> QED BY <2>2 DEF MovedTo
<1>6. intern \in OfKind("map", DOMAIN heap)
  BY <1>1, <1>2, <1>4 DEF Outermost, AtIn, MemoryNow, GoodMemory
<1>7. /\ f.fn = "map_set" /\ f.at = "entry" /\ f.h = intern /\ f.k = top.k /\ f.v = top.x /\ f.dst = Null
      /\ f \in FrameOver(DOMAIN heap) /\ \A d : Rooted(f, d) = << >>
  <2>1. {intern, top.k, top.x} \subseteq Val(DOMAIN heap) /\ "map_set" \in FromTemps
    BY <1>4, <1>6 DEF FrameOver, OfKind, Val, FromTemps
  <2> QED BY <2>1, CallIs
<1> HIDE DEF g, f
<1>8. GoodOuter(g, heap, temps, intern)
  <2>1. HoldsWhat(g, heap)
    BY <1>1, <1>4, <1>5 DEF HoldsWhat, AtIn
  <2>2. Outermost(g, temps, intern)
    BY <1>1, <1>4, <1>5 DEF Outermost, AtIn, FromTemps
  <2> QED BY <1>5, <2>1, <2>2 DEF GoodOuter
<1>9. GoodInner(g, f, heap, intern)
  <2>1. HoldsWhat(f, heap)
    BY <1>6, <1>7 DEF HoldsWhat, AtIn
  <2>2. top.k \in Lits
    BY <1>1, <1>4 DEF Outermost
  <2>3. Nested(g, f, heap, intern)
    BY <1>1, <1>5, <1>7, <2>2 DEF Nested, AtIn
  <2> QED BY <1>7, <2>1, <2>3 DEF GoodInner
<1>10. Rooted(top, 1) = << >> /\ Rooted(g, 1) = << <<1, "x">> >>
  BY <1>1, <1>5 DEF Rooted, AtIn
<1>11. roots' = FrameRoots \o Rooted(g, 1) /\ Rooted(f, 2) = << >>
  BY <1>1, <1>2, <1>7, <1>10, ShadowOne
<1> QED BY <1>1, <1>2, <1>3, <1>8, <1>9, <1>11, CallsOne

LEMMA LiteralDoneGood == ASSUME RtInv, LiteralDone PROVE RtInv'
<1>1. /\ top.fn = "strlit" /\ top.at = "done" /\ depth > 0 /\ Pop(1) /\ Return(top.x)
      /\ UNCHANGED <<heap, intern, pinned>>
  BY DEF LiteralDone, At
<1>2. OneNow(top) /\ top.x \in Val(DOMAIN heap)
  BY <1>1, OnlyOutermost, TopHolds
<1>3. Rooted(top, 1) = << <<1, "x">> >>
  BY <1>1 DEF Rooted, AtIn
<1>4. roots' = FrameRoots
  BY <1>1, <1>2, <1>3, ShadowOne
<1> QED BY <1>1, <1>2, <1>4, ReturnOne

LEMMA LiteralSteps == ASSUME RtInv, Literals PROVE RtInv'
<1>1. CASE InternNew
  BY <1>1, AllocStepGood DEF InternNew, AllocPoints
<1>2. CASE LiteralMiss
  <2>1. AllocStep("strlit", "entry", "str", "set") /\ intern # Null
    BY <1>2 DEF LiteralMiss
  <2>2. <<"strlit", "entry", "str", "set">> \in AllocPoints
    BY DEF AllocPoints
  <2> QED BY <2>1, <2>2, AllocStepGood
<1>3. CASE \E i \in 1 .. Cardinality(Lits) : LiteralHit(i)
  BY <1>3, LiteralHitGood
<1> QED BY <1>1, <1>2, <1>3, InternPinGood, LiteralSetGood, LiteralDoneGood DEF Literals

-----------------------------------------------------------------------------
\* The new vector of arguments is rooted in the variable h.
LEMMA ArgsRootGood == ASSUME RtInv, ArgsRoot PROVE RtInv'
<1> DEFINE g == Moved(top, "loop", top.x, top.x, top.i)
<1>1. /\ top.fn = "args" /\ top.at = "root" /\ depth > 0 /\ Push("h")
      /\ stack' = [stack EXCEPT ![depth].at = "loop", ![depth].h = top.x]
      /\ UNCHANGED <<heap, temps, intern, pinned>>
  BY DEF ArgsRoot, At
<1>2. MemoryNow /\ OneNow(top)
  BY <1>1, OnlyOutermost
<1>3. stack' = <<g>>
  <2>1. [stack EXCEPT ![depth].at = "loop", ![depth].h = top.x] = <<g>>
    BY <1>2, GotoHOne
  <2> QED BY Zenon, <1>1, <2>1
<1>4. top \in FrameOver(DOMAIN heap) /\ HoldsWhat(top, heap) /\ Outermost(top, temps, intern)
  BY <1>2, NowOne DEF GoodOuter
<1>5. /\ g \in FrameOver(DOMAIN heap)
      /\ g.fn = top.fn /\ g.at = "loop" /\ g.h = top.x /\ g.k = top.k /\ g.v = top.v /\ g.x = top.x
  <2>1. top.x \in Val(DOMAIN heap) /\ top.i \in Nat /\ "loop" \in Points
    BY <1>4 DEF FrameOver, Points
  <2>2. MovedTo(g, top, "loop", top.x, top.i, DOMAIN heap)
    BY Zenon, <1>4, <2>1, MovedIs
  <2> HIDE DEF g
  <2> QED BY <2>2 DEF MovedTo
<1> HIDE DEF g
<1>6. HoldsWhat(g, heap)
  BY <1>1, <1>4, <1>5 DEF HoldsWhat, AtIn
<1>7. Outermost(g, temps, intern)
  BY <1>1, <1>4, <1>5 DEF Outermost, AtIn, FromTemps
<1>8. Rooted(top, 1) = << >> /\ Rooted(g, 1) = << <<1, "h">> >>
  BY <1>1, <1>5 DEF Rooted, AtIn
<1>9. roots' = FrameRoots \o Rooted(g, 1)
  BY <1>1, <1>2, <1>8, ShadowOne
<1>10. GoodOuter(g, heap', temps', intern') /\ GoodMemory(heap', temps', intern', pinned')
  BY <1>1, <1>2, <1>5, <1>6, <1>7 DEF GoodOuter, MemoryNow
<1> QED BY <1>3, <1>9, <1>10, OneAgain

\* Each string is rooted too while it is appended.
LEMMA ArgsPushGood == ASSUME RtInv, ArgsPush PROVE RtInv'
<1> DEFINE g == Moved(top, "pushed", top.h, top.x, top.i)
           f == Call("vec_push", top.h, Null, top.x, Null)
<1>1. /\ top.fn = "args" /\ top.at = "arg" /\ depth > 0 /\ Push("x") /\ Enter("pushed", f)
      /\ UNCHANGED <<heap, temps, intern, pinned>>
  BY DEF ArgsPush, At
<1>2. MemoryNow /\ OneNow(top)
  BY <1>1, OnlyOutermost
<1>3. stack' = <<g, f>>
  <2>1. [stack EXCEPT ![depth].at = "pushed"] = <<g>>
    BY <1>2, GotoOne
  <2> QED BY Zenon, <1>1, <2>1, TwoIs DEF Enter
<1>4. top \in FrameOver(DOMAIN heap) /\ HoldsWhat(top, heap) /\ Outermost(top, temps, intern)
  BY <1>2, NowOne DEF GoodOuter
<1>5. /\ g \in FrameOver(DOMAIN heap)
      /\ g.fn = top.fn /\ g.at = "pushed" /\ g.h = top.h /\ g.k = top.k /\ g.v = top.v /\ g.x = top.x
  <2>1. top.h \in Val(DOMAIN heap) /\ top.i \in Nat /\ "pushed" \in Points
    BY <1>4 DEF FrameOver, Points
  <2>2. MovedTo(g, top, "pushed", top.h, top.i, DOMAIN heap)
    BY Zenon, <1>4, <2>1, MovedIs
  <2> HIDE DEF g
  <2> QED BY <2>2 DEF MovedTo
<1>6. top.h \in OfKind("vec", DOMAIN heap)
  BY <1>1, <1>4 DEF HoldsWhat, AtIn
<1>7. /\ f.fn = "vec_push" /\ f.at = "entry" /\ f.h = top.h /\ f.k = Null /\ f.v = top.x /\ f.dst = Null
      /\ f \in FrameOver(DOMAIN heap) /\ \A d : Rooted(f, d) = << >>
  <2>1. {top.h, Null, top.x} \subseteq Val(DOMAIN heap) /\ "vec_push" \in FromTemps
    BY <1>4 DEF FrameOver, Val, FromTemps
  <2> QED BY <2>1, CallIs
<1> HIDE DEF g, f
<1>8. GoodOuter(g, heap, temps, intern)
  <2>1. HoldsWhat(g, heap)
    BY <1>1, <1>4, <1>5 DEF HoldsWhat, AtIn
  <2>2. Outermost(g, temps, intern)
    BY <1>1, <1>4, <1>5 DEF Outermost, AtIn, FromTemps
  <2> QED BY <1>5, <2>1, <2>2 DEF GoodOuter
<1>9. GoodInner(g, f, heap, intern)
  <2>1. HoldsWhat(f, heap)
    BY <1>6, <1>7 DEF HoldsWhat, AtIn
  <2>2. Nested(g, f, heap, intern)
    BY <1>1, <1>5, <1>7 DEF Nested, AtIn
  <2> QED BY <1>7, <2>1, <2>2 DEF GoodInner
<1>10. Rooted(top, 1) = << <<1, "h">> >> /\ Rooted(g, 1) = << <<1, "h">>, <<1, "x">> >>
  BY <1>1, <1>5 DEF Rooted, AtIn
<1>11. roots' = FrameRoots \o Rooted(g, 1) /\ Rooted(f, 2) = << >>
  BY <1>1, <1>2, <1>7, <1>10, ShadowOne
<1> QED BY <1>1, <1>2, <1>3, <1>8, <1>9, <1>11, CallsOne

LEMMA ArgsPushedGood == ASSUME RtInv, ArgsPushed PROVE RtInv'
<1> DEFINE g == Moved(top, "loop", top.h, top.x, top.i)
<1>1. /\ top.fn = "args" /\ top.at = "pushed" /\ depth > 0 /\ Pop(1) /\ Goto("loop")
      /\ UNCHANGED <<heap, temps, intern, pinned>>
  BY DEF ArgsPushed, At
<1>2. MemoryNow /\ OneNow(top)
  BY <1>1, OnlyOutermost
<1>3. stack' = <<g>>
  BY <1>1, <1>2, GotoOne DEF Goto
<1>4. top \in FrameOver(DOMAIN heap) /\ HoldsWhat(top, heap) /\ Outermost(top, temps, intern)
  BY <1>2, NowOne DEF GoodOuter
<1>5. /\ g \in FrameOver(DOMAIN heap)
      /\ g.fn = top.fn /\ g.at = "loop" /\ g.h = top.h /\ g.k = top.k /\ g.v = top.v /\ g.x = top.x
  <2>1. top.h \in Val(DOMAIN heap) /\ top.i \in Nat /\ "loop" \in Points
    BY <1>4 DEF FrameOver, Points
  <2>2. MovedTo(g, top, "loop", top.h, top.i, DOMAIN heap)
    BY Zenon, <1>4, <2>1, MovedIs
  <2> HIDE DEF g
  <2> QED BY <2>2 DEF MovedTo
<1> HIDE DEF g
<1>6. HoldsWhat(g, heap)
  BY <1>1, <1>4, <1>5 DEF HoldsWhat, AtIn
<1>7. Outermost(g, temps, intern)
  BY <1>1, <1>4, <1>5 DEF Outermost, AtIn, FromTemps
<1>8. Rooted(top, 1) = << <<1, "h">>, <<1, "x">> >> /\ Rooted(g, 1) = << <<1, "h">> >>
  BY <1>1, <1>5 DEF Rooted, AtIn
<1>9. roots' = FrameRoots \o Rooted(g, 1)
  BY <1>1, <1>2, <1>8, ShadowOne
<1>10. GoodOuter(g, heap', temps', intern') /\ GoodMemory(heap', temps', intern', pinned')
  BY <1>1, <1>2, <1>5, <1>6, <1>7 DEF GoodOuter, MemoryNow
<1> QED BY <1>3, <1>9, <1>10, OneAgain

LEMMA ArgsDoneGood == ASSUME RtInv, ArgsDone PROVE RtInv'
<1>1. /\ top.fn = "args" /\ top.at = "loop" /\ depth > 0 /\ Pop(1) /\ Return(top.h)
      /\ UNCHANGED <<heap, intern, pinned>>
  BY DEF ArgsDone, At
<1>2. OneNow(top) /\ top.h \in Val(DOMAIN heap)
  BY <1>1, OnlyOutermost, TopHolds
<1>3. Rooted(top, 1) = << <<1, "h">> >>
  BY <1>1 DEF Rooted, AtIn
<1>4. roots' = FrameRoots
  BY <1>1, <1>2, <1>3, ShadowOne
<1> QED BY <1>1, <1>2, <1>4, ReturnOne

LEMMA ArgumentSteps == ASSUME RtInv, Arguments PROVE RtInv'
<1>1. CASE ArgsNew
  BY <1>1, AllocStepGood DEF ArgsNew, AllocPoints
<1>2. CASE ArgsNext
  BY <1>2, AllocStepGood DEF ArgsNext, AllocPoints
<1> QED BY <1>1, <1>2, ArgsRootGood, ArgsPushGood, ArgsPushedGood, ArgsDoneGood DEF Arguments

LEMMA StringSteps == ASSUME RtInv, Strings PROVE RtInv'
<1>1. CASE StrNew
  BY <1>1, AllocStepGood DEF StrNew, AllocPoints
<1>2. CASE StrCopy
  <2>1. /\ top.fn = "concat" /\ top.at = "copy" /\ depth > 0 /\ Return(top.x)
        /\ UNCHANGED <<heap, intern, pinned, roots>>
    BY <1>2 DEF StrCopy, At
  <2>2. OneNow(top) /\ top.x \in Val(DOMAIN heap)
    BY <2>1, OnlyOutermost, TopHolds
  <2>3. Rooted(top, 1) = << >>
    BY <2>1 DEF Rooted, AtIn
  <2>4. roots' = FrameRoots
    BY <2>1, <2>2, <2>3, ShadowOne
  <2> QED BY <2>1, <2>2, <2>4, ReturnOne
<1> QED BY <1>1, <1>2 DEF Strings

-----------------------------------------------------------------------------
\* What was read is rooted while the callback runs.
LEMMA ReadFileCallGood == ASSUME RtInv, ReadFileCall PROVE RtInv'
<1> DEFINE g == Moved(top, "done", top.h, top.x, top.i)
           f == Call("callback", top.k, Null, top.x, Null)
<1>1. /\ top.fn = "read_file_cb" /\ top.at = "call" /\ depth > 0 /\ Push("x") /\ Enter("done", f)
      /\ UNCHANGED <<heap, temps, intern, pinned>>
  BY DEF ReadFileCall, At
<1>2. MemoryNow /\ OneNow(top)
  BY <1>1, OnlyOutermost
<1>3. stack' = <<g, f>>
  <2>1. [stack EXCEPT ![depth].at = "done"] = <<g>>
    BY <1>2, GotoOne
  <2> QED BY Zenon, <1>1, <2>1, TwoIs DEF Enter
<1>4. top \in FrameOver(DOMAIN heap) /\ HoldsWhat(top, heap) /\ Outermost(top, temps, intern)
  BY <1>2, NowOne DEF GoodOuter
<1>5. /\ g \in FrameOver(DOMAIN heap)
      /\ g.fn = top.fn /\ g.at = "done" /\ g.h = top.h /\ g.k = top.k /\ g.v = top.v /\ g.x = top.x
  <2>1. top.h \in Val(DOMAIN heap) /\ top.i \in Nat /\ "done" \in Points
    BY <1>4 DEF FrameOver, Points
  <2>2. MovedTo(g, top, "done", top.h, top.i, DOMAIN heap)
    BY Zenon, <1>4, <2>1, MovedIs
  <2> HIDE DEF g
  <2> QED BY <2>2 DEF MovedTo
<1>6. /\ f.fn = "callback" /\ f.at = "entry" /\ f.h = top.k /\ f.k = Null /\ f.v = top.x /\ f.dst = Null
      /\ f \in FrameOver(DOMAIN heap) /\ \A d : Rooted(f, d) = << >>
  <2>1. {top.k, Null, top.x} \subseteq Val(DOMAIN heap)
    BY <1>4 DEF FrameOver, Val
  <2> QED BY <2>1, CallIs
<1> HIDE DEF g, f
<1>7. GoodOuter(g, heap, temps, intern)
  <2>1. HoldsWhat(g, heap)
    BY <1>1, <1>5 DEF HoldsWhat, AtIn
  <2>2. Outermost(g, temps, intern)
    BY <1>1, <1>4, <1>5 DEF Outermost, AtIn, FromTemps
  <2> QED BY <1>5, <2>1, <2>2 DEF GoodOuter
<1>8. GoodInner(g, f, heap, intern)
  <2>1. HoldsWhat(f, heap)
    BY <1>6 DEF HoldsWhat, AtIn
  <2>2. Nested(g, f, heap, intern)
    BY <1>1, <1>5, <1>6 DEF Nested, AtIn
  <2> QED BY <1>6, <2>1, <2>2 DEF GoodInner
<1>9. Rooted(top, 1) = << >> /\ Rooted(g, 1) = << <<1, "x">> >>
  BY <1>1, <1>5 DEF Rooted, AtIn
<1>10. roots' = FrameRoots \o Rooted(g, 1) /\ Rooted(f, 2) = << >>
  BY <1>1, <1>2, <1>6, <1>9, ShadowOne
<1> QED BY <1>1, <1>2, <1>3, <1>7, <1>8, <1>10, CallsOne

\* What is written has been read, so that nothing need be rooted.
LEMMA WriteFileGood == ASSUME RtInv, WriteFile PROVE RtInv'
<1> DEFINE g == Moved(top, "done", top.h, top.x, top.i)
           f == Call("callback", top.k, Null, Null, Null)
<1>1. /\ top.fn = "write_file_cb" /\ top.at = "entry" /\ depth > 0 /\ Enter("done", f)
      /\ UNCHANGED <<heap, temps, intern, pinned, roots>>
  BY DEF WriteFile, At
<1>2. MemoryNow /\ OneNow(top)
  BY <1>1, OnlyOutermost
<1>3. stack' = <<g, f>>
  <2>1. [stack EXCEPT ![depth].at = "done"] = <<g>>
    BY <1>2, GotoOne
  <2> QED BY Zenon, <1>1, <2>1, TwoIs DEF Enter
<1>4. /\ top \in FrameOver(DOMAIN heap) /\ HoldsWhat(top, heap) /\ Outermost(top, temps, intern)
      /\ roots = FrameRoots \o Rooted(top, 1)
  BY <1>2, NowOne DEF GoodOuter
<1>5. /\ g \in FrameOver(DOMAIN heap)
      /\ g.fn = top.fn /\ g.at = "done" /\ g.h = top.h /\ g.k = top.k /\ g.v = top.v /\ g.x = top.x
  <2>1. top.h \in Val(DOMAIN heap) /\ top.i \in Nat /\ "done" \in Points
    BY <1>4 DEF FrameOver, Points
  <2>2. MovedTo(g, top, "done", top.h, top.i, DOMAIN heap)
    BY Zenon, <1>4, <2>1, MovedIs
  <2> HIDE DEF g
  <2> QED BY <2>2 DEF MovedTo
<1>6. /\ f.fn = "callback" /\ f.at = "entry" /\ f.h = top.k /\ f.k = Null /\ f.v = Null /\ f.dst = Null
      /\ f \in FrameOver(DOMAIN heap) /\ \A d : Rooted(f, d) = << >>
  <2>1. {top.k, Null} \subseteq Val(DOMAIN heap)
    BY <1>4 DEF FrameOver, Val
  <2> QED BY <2>1, CallIs
<1> HIDE DEF g, f
<1>7. GoodOuter(g, heap, temps, intern)
  <2>1. HoldsWhat(g, heap)
    BY <1>1, <1>5 DEF HoldsWhat, AtIn
  <2>2. Outermost(g, temps, intern)
    BY <1>1, <1>4, <1>5 DEF Outermost, AtIn, FromTemps
  <2> QED BY <1>5, <2>1, <2>2 DEF GoodOuter
<1>8. GoodInner(g, f, heap, intern)
  <2>1. HoldsWhat(f, heap)
    BY <1>6 DEF HoldsWhat, AtIn
  <2>2. Nested(g, f, heap, intern)
    BY <1>1, <1>5, <1>6 DEF Nested, AtIn
  <2> QED BY <1>6, <2>1, <2>2 DEF GoodInner
<1>9. Rooted(top, 1) = << >> /\ Rooted(g, 1) = << >>
  BY <1>1, <1>5 DEF Rooted, AtIn
<1>10. roots' = FrameRoots \o Rooted(g, 1) /\ Rooted(f, 2) = << >>
  BY <1>1, <1>4, <1>6, <1>9
<1> QED BY <1>1, <1>2, <1>3, <1>7, <1>8, <1>10, CallsOne

\* A callback roots its temporary, its environment and its parameter.
LEMMA CallbackEnterGood == ASSUME RtInv, CallbackEnter PROVE RtInv'
<1> DEFINE g == Moved(top, "body", top.h, top.x, top.i)
<1>1. /\ top.fn = "callback" /\ top.at = "entry" /\ depth > 0 /\ Goto("body")
      /\ roots' = roots \o <<Address("x"), Address("h"), Address("v")>>
      /\ UNCHANGED <<heap, temps, intern, pinned>>
  BY DEF CallbackEnter, At
<1>2. MemoryNow /\ \E c : TwoNow(c, top)
  BY <1>1, OnlyInner
<1>3. PICK c : TwoNow(c, top)
  BY <1>2
<1>4. stack' = <<c, g>>
  BY <1>1, <1>3, GotoTwo DEF Goto
<1>5. /\ top \in FrameOver(DOMAIN heap) /\ HoldsWhat(top, heap) /\ Nested(c, top, heap, intern)
      /\ GoodOuter(c, heap, temps, intern) /\ depth = 2
      /\ roots = (FrameRoots \o Rooted(c, 1)) \o Rooted(top, 2)
  BY <1>3, NowTwo DEF GoodInner
<1>6. /\ g \in FrameOver(DOMAIN heap) /\ g.dst = top.dst
      /\ g.fn = top.fn /\ g.at = "body" /\ g.h = top.h /\ g.k = top.k /\ g.v = top.v /\ g.x = top.x
  <2>1. top.h \in Val(DOMAIN heap) /\ top.i \in Nat /\ "body" \in Points
    BY <1>5 DEF FrameOver, Points
  <2>2. MovedTo(g, top, "body", top.h, top.i, DOMAIN heap)
    BY Zenon, <1>5, <2>1, MovedIs
  <2> HIDE DEF g
  <2> QED BY <2>2 DEF MovedTo
<1> HIDE DEF g
<1>7. GoodInner(c, g, heap, intern)
  <2>1. HoldsWhat(g, heap)
    BY <1>1, <1>6 DEF HoldsWhat, AtIn
  <2>2. Nested(c, g, heap, intern)
    BY <1>5, <1>6 DEF Nested, AtIn
  <2> QED BY <1>6, <2>1, <2>2 DEF GoodInner
<1>8. Rooted(top, 2) = << >> /\ Rooted(g, 2) = << <<2, "x">>, <<2, "h">>, <<2, "v">> >>
  BY <1>1, <1>6 DEF Rooted, AtIn
<1>9. roots' = (FrameRoots \o Rooted(c, 1)) \o Rooted(g, 2)
  <2> DEFINE B == FrameRoots \o Rooted(c, 1)
  <2>1. B \in Shadows
    BY ShadowTypes
  <2> HIDE DEF B
  <2>2. roots = B
    BY <1>5, <1>8, <2>1, ShadowNone DEF B
  <2>3. Address("x") = <<2, "x">> /\ Address("h") = <<2, "h">> /\ Address("v") = <<2, "v">>
    BY <1>5 DEF Address
  <2> QED BY Zenon, <1>1, <1>8, <2>2, <2>3 DEF B
<1>10. TwoCalls(c, g, heap', temps', intern', stack', roots')
  BY <1>1, <1>4, <1>5, <1>7, <1>9 DEF TwoCalls
<1>11. GoodMemory(heap', temps', intern', pinned')
  BY <1>1, <1>2 DEF MemoryNow
<1> QED BY <1>10, <1>11 DEF RtInv, Good, GoodStack

LEMMA CallbackExitGood == ASSUME RtInv, CallbackExit PROVE RtInv'
<1>1. /\ top.fn = "callback" /\ top.at = "exit" /\ depth > 0 /\ Pop(3) /\ Return(Null)
      /\ intern' = intern /\ pinned' = pinned /\ heap' = heap
  BY DEF CallbackExit, At
<1>2. \E c : TwoNow(c, top)
  BY <1>1, OnlyInner
<1>3. ~ OneNow(top)
  BY <1>2, NowOne, NowTwo
<1>4. ASSUME NEW c, TwoNow(c, top) PROVE roots' = FrameRoots \o Rooted(c, 1)
  <2> DEFINE B == FrameRoots \o Rooted(c, 1)
  <2>1. B \in Shadows /\ roots = B \o Rooted(top, 2)
    BY <1>4, NowTwo, ShadowTypes
  <2> HIDE DEF B
  <2>2. Rooted(top, 2) = << <<2, "x">>, <<2, "h">>, <<2, "v">> >>
    BY <1>1 DEF Rooted, AtIn
  <2> DEFINE r == B \o << <<2, "x">>, <<2, "h">>, <<2, "v">> >>
  <2>3. SubSeq(r, 1, Len(r) - 3) = B
    <3> DEFINE S == ({0} \X Temps) \cup Addresses(1) \cup Addresses(2)
    <3>1. B \in Seq(S)
      BY <2>1 DEF Shadows
    <3>2. <<2, "x">> \in S /\ <<2, "h">> \in S /\ <<2, "v">> \in S
      BY DEF Addresses
    <3> HIDE DEF S
    <3> QED BY Zenon, <3>1, <3>2, ThreePopped
  <2>4. roots' = SubSeq(roots, 1, Len(roots) - 3)
    BY <1>1 DEF Pop
  <2>5. roots' = B
    BY Zenon, <2>1, <2>2, <2>3, <2>4
  <2> QED BY <2>5 DEF B
<1>5. SameObjects(heap', heap)
  BY <1>1, TopHolds DEF SameObjects
<1> QED BY <1>1, <1>3, <1>4, <1>5, ReturnGood

LEMMA FileSteps == ASSUME RtInv, Files PROVE RtInv'
<1>1. CASE ReadFile
  BY <1>1, AllocStepGood DEF ReadFile, AllocPoints
<1>2. CASE CallbackBody
  BY <1>2, AllocStepGood DEF CallbackBody, AllocPoints
<1>3. CASE ReadFileDone
  <2>1. /\ top.fn = "read_file_cb" /\ top.at = "done" /\ depth > 0 /\ Pop(1) /\ Return(Null)
        /\ UNCHANGED <<heap, intern, pinned>>
    BY <1>3 DEF ReadFileDone, At
  <2>2. OneNow(top) /\ Null \in Val(DOMAIN heap)
    BY <2>1, OnlyOutermost DEF Val
  <2>3. Rooted(top, 1) = << <<1, "x">> >>
    BY <2>1 DEF Rooted, AtIn
  <2>4. roots' = FrameRoots
    BY <2>1, <2>2, <2>3, ShadowOne
  <2> QED BY <2>1, <2>2, <2>4, ReturnOne
<1>4. CASE WriteFileDone
  <2>1. /\ top.fn = "write_file_cb" /\ depth > 0 /\ Return(Null)
        /\ UNCHANGED <<intern, pinned, roots>> /\ heap' = heap
    BY <1>4 DEF WriteFileDone, At
  <2>2. \A d : Rooted(top, d) = << >>
    BY <2>1 DEF Rooted, AtIn
  <2>3. SameObjects(heap', heap)
    BY <2>1, TopHolds DEF SameObjects
  <2> QED BY <2>1, <2>2, <2>3, ReturnNull
<1> QED BY <1>1, <1>2, <1>3, <1>4, ReadFileCallGood, WriteFileGood, CallbackEnterGood,
           CallbackExitGood DEF Files

-----------------------------------------------------------------------------
\* Between calls the shadow stack holds the emitted frame's roots alone.
LEMMA IdleIs ==
  ASSUME RtInv, Idle
  PROVE  /\ MemoryNow /\ GoodHeap(heap) /\ DOMAIN heap \subseteq Ids
         /\ temps \in [Temps -> Val(DOMAIN heap)] /\ roots = FrameRoots
<1>1. MemoryNow /\ GoodStack(heap, temps, intern, stack, roots)
  BY DEF RtInv, Good, MemoryNow
<1>2. ~ (\E f : OneNow(f)) /\ ~ (\E c, f : TwoNow(c, f))
  <2>1. Len(stack) = 0
    BY DEF Idle
  <2> QED BY <2>1, NowOne, NowTwo DEF depth
<1>3. NoCall(stack, roots)
  BY <1>1, <1>2 DEF GoodStack, OneNow, TwoNow
<1> QED BY <1>1, <1>3 DEF NoCall, MemoryNow, GoodMemory, GoodHeap

LEMMA IdleAgain ==
  ASSUME Idle, UNCHANGED <<stack, roots>>, roots = FrameRoots,
         GoodMemory(heap', temps', intern', pinned')
  PROVE  RtInv'
<1>1. NoCall(stack', roots')
  BY DEF NoCall, Idle
<1> QED BY <1>1 DEF RtInv, Good, GoodStack

\* A temporary is assigned.
LEMMA Assigned ==
  ASSUME NEW hp, GoodMemory(hp, temps, intern, pinned), NEW d \in Temps, NEW y \in Val(DOMAIN hp)
  PROVE  GoodMemory(hp, [temps EXCEPT ![d] = y], intern, pinned)
BY DEF GoodMemory

LEMMA IsLive ==
  ASSUME RtInv, Idle, NEW t \in Temps, NEW kind, IsA(temps[t], kind)
  PROVE  temps[t] \in OfKind(kind, DOMAIN heap)
<1>1. temps[t] \in Val(DOMAIN heap) /\ DOMAIN heap \subseteq Ids
  BY IdleIs
<1>2. temps[t] \in Ids /\ Kind(temps[t]) = kind
  BY DEF IsA
<1> QED BY <1>1, <1>2, ValRefs DEF OfKind

LEMMA NewGood == ASSUME RtInv, NEW t \in Temps, NEW kind \in Kinds, New(t, kind) PROVE RtInv'
<1>1. Idle /\ UNCHANGED <<intern, pinned, roots, stack>>
  BY DEF New
<1>2. PICK kept \in Survivors : \E o \in Fresh(kind, kept) :
        Alloc(o, kept) /\ temps' = [temps EXCEPT ![t] = o]
  BY DEF New
<1>3. PICK o \in Fresh(kind, kept) : Alloc(o, kept) /\ temps' = [temps EXCEPT ![t] = o]
  BY <1>2
<1>4. MemoryNow /\ roots = FrameRoots /\ GoodHeap(heap)
  BY <1>1, IdleIs
<1>5. kind \in DOMAIN MaxObjs
  BY KindsAssumption, MaxObjsAssumption
<1> DEFINE hp == AllocIn(o, kept)
<1>6. GoodMemory(hp, temps, intern, pinned)
  BY <1>4, <1>5, AllocMemory DEF MemoryNow
<1>7. o \in DOMAIN hp /\ heap' = hp
  BY <1>3 DEF Alloc, AllocIn
<1> HIDE DEF hp
<1>8. o \in Val(DOMAIN hp)
  BY <1>7 DEF Val
<1>9. GoodMemory(heap', temps', intern', pinned')
  BY Zenon, <1>1, <1>3, <1>6, <1>7, <1>8, Assigned
<1> QED BY <1>1, <1>4, <1>9, IdleAgain

\* The emitted frame calls a function.
LEMMA StartGood ==
  ASSUME RtInv, NEW fn \in FromTemps \cup {"strlit", "args"}, NEW h, NEW k, NEW v,
         NEW dst \in Temps \cup {Null}, Start(Call(fn, h, k, v, dst)),
         {h, k, v} \subseteq Val(DOMAIN heap),
         fn \in FromTemps => {h, k, v} \subseteq Range(temps) \cup {Null},
         fn = "strlit" => h = Null /\ k \in Lits /\ v = Null,
         fn = "args" => h = Null /\ k = Null /\ v = Null,
         fn = "vec_push" => h \in OfKind("vec", DOMAIN heap),
         fn \in {"map_set", "map_keys"} => h \in OfKind("map", DOMAIN heap)
  PROVE  RtInv'
<1> DEFINE f == Call(fn, h, k, v, dst)
<1>1. Idle /\ stack' = <<f>> /\ UNCHANGED <<heap, temps, intern, pinned, roots>>
  BY DEF Start
<1>2. /\ f.fn = fn /\ f.at = "entry" /\ f.h = h /\ f.k = k /\ f.v = v /\ f.x = Null
      /\ f \in FrameOver(DOMAIN heap) /\ \A d : Rooted(f, d) = << >>
  BY CallIs
<1> HIDE DEF f
<1>3. HoldsWhat(f, heap)
  BY <1>2 DEF HoldsWhat, AtIn
<1>4. Outermost(f, temps, intern)
  BY <1>2 DEF Outermost, AtIn
<1>5. MemoryNow /\ roots = FrameRoots
  BY <1>1, IdleIs
<1>6. roots' = FrameRoots \o Rooted(f, 1)
  <2>1. FrameRoots \in Shadows
    BY ShadowTypes
  <2> QED BY <1>1, <1>2, <1>5, <2>1, ShadowNone
<1>7. GoodOuter(f, heap', temps', intern') /\ GoodMemory(heap', temps', intern', pinned')
  BY <1>1, <1>2, <1>3, <1>4, <1>5 DEF GoodOuter, MemoryNow
<1> QED BY <1>1, <1>6, <1>7, OneAgain

\* What the arguments of a call are.
LEMMA Temporary ==
  ASSUME RtInv, Idle, NEW t \in Temps
  PROVE  temps[t] \in Val(DOMAIN heap) /\ temps[t] \in Range(temps) /\ Null \in Val(DOMAIN heap)
<1>1. temps \in [Temps -> Val(DOMAIN heap)]
  BY IdleIs
<1> QED BY <1>1, RangeIs DEF Val

LEMMA StartSteps ==
  ASSUME RtInv, NEW t \in Temps, NEW u \in Temps, NEW w \in Temps,
         \/ StartVecPush(t, u) \/ StartMapSet(t, u, w) \/ StartMapKeys(t, w)
         \/ StartConcat(t, u, w) \/ StartArgs(w)
         \/ StartReadFile(t) \/ StartWriteFile(t)
  PROVE  RtInv'
<1>1. Idle
  BY DEF StartVecPush, StartMapSet, StartMapKeys, StartConcat, StartArgs,
         StartReadFile, StartWriteFile, Start
<1>2. /\ \A z \in {t, u, w} : temps[z] \in Val(DOMAIN heap) /\ temps[z] \in Range(temps)
      /\ Null \in Val(DOMAIN heap)
  BY <1>1, Temporary DEF Val
<1>3. CASE StartVecPush(t, u)
  <2>1. IsA(temps[t], "vec") /\ Start(Call("vec_push", temps[t], Null, temps[u], Null))
    BY <1>3 DEF StartVecPush
  <2>2. temps[t] \in OfKind("vec", DOMAIN heap)
    BY <1>1, <2>1, IsLive
  <2> QED BY <1>2, <2>1, <2>2, StartGood DEF FromTemps
<1>4. CASE StartMapSet(t, u, w)
  <2>1. IsA(temps[t], "map") /\ Start(Call("map_set", temps[t], temps[u], temps[w], Null))
    BY <1>4 DEF StartMapSet
  <2>2. temps[t] \in OfKind("map", DOMAIN heap)
    BY <1>1, <2>1, IsLive
  <2> QED BY <1>2, <2>1, <2>2, StartGood DEF FromTemps
<1>5. CASE StartMapKeys(t, w)
  <2>1. IsA(temps[t], "map") /\ Start(Call("map_keys", temps[t], Null, Null, w))
    BY <1>5 DEF StartMapKeys
  <2>2. temps[t] \in OfKind("map", DOMAIN heap)
    BY <1>1, <2>1, IsLive
  <2> QED BY <1>2, <2>1, <2>2, StartGood DEF FromTemps
<1>6. CASE StartConcat(t, u, w)
  BY <1>2, <1>6, StartGood DEF StartConcat, FromTemps
<1>7. CASE StartArgs(w)
  BY <1>2, <1>7, StartGood DEF StartArgs, FromTemps
<1>8. CASE StartReadFile(t)
  BY <1>2, <1>8, StartGood DEF StartReadFile, FromTemps
<1>9. CASE StartWriteFile(t)
  BY <1>2, <1>9, StartGood DEF StartWriteFile, FromTemps
<1> QED BY <1>3, <1>4, <1>5, <1>6, <1>7, <1>8, <1>9

LEMMA LiteralStart ==
  ASSUME RtInv, NEW lit \in Lits, NEW d \in Temps, StartStrlit(lit, d)
  PROVE  RtInv'
<1>1. {Null, lit, Null} \subseteq Val(DOMAIN heap)
  BY DEF Val
<1> QED BY <1>1, StartGood DEF StartStrlit, FromTemps

-----------------------------------------------------------------------------
LEMMA PopGood == ASSUME RtInv, NEW t \in Temps, NEW d \in Temps, cl_vec_pop(t, d) PROVE RtInv'
<1> DEFINE h == temps[t]
           n == heap[h].len - 1
           y == Elems(h)[heap[h].len]
<1>1. /\ Idle /\ IsA(h, "vec") /\ heap[h].len > 0 /\ heap' = [heap EXCEPT ![h].len = n]
      /\ temps' = [temps EXCEPT ![d] = y] /\ UNCHANGED <<intern, pinned, roots, stack>>
  BY DEF cl_vec_pop
<1>2. h \in OfKind("vec", DOMAIN heap) /\ MemoryNow /\ GoodHeap(heap) /\ roots = FrameRoots
  BY <1>1, IdleIs, IsLive
<1>3. /\ heap[h].len \in Nat /\ heap[h].len <= Len(BufWords(heap, h))
      /\ BufWords(heap, h) \in Seq(Val(DOMAIN heap))
  BY <1>2, WordsAre DEF OfKind
<1>4. y \in Val(DOMAIN heap)
  <2>1. Elems(h) = SubSeq(BufWords(heap, h), 1, heap[h].len)
    BY Zenon DEF Elems, WordsOf, BufWords
  <2>2. \A S : \A u \in Seq(S) : \A m \in Nat : m > 0 /\ m <= Len(u) => SubSeq(u, 1, m)[m] \in S
    OBVIOUS
  <2> QED BY <1>1, <1>3, <2>1, <2>2
<1>5. n \in Nat /\ n <= heap[h].len
  BY <1>1, <1>3
<1> HIDE DEF n, y, h
<1>6. SameObjects(heap', heap)
  <2>1. SameObjects([heap EXCEPT ![h].len = n], heap)
    BY <1>2, <1>5, PoppedHeap
  <2> QED BY Zenon, <1>1, <2>1
<1>7. GoodMemory(heap', temps, intern, pinned) /\ DOMAIN heap' = DOMAIN heap
  BY <1>2, <1>6, SameMemory DEF SameObjects
<1>8. GoodMemory(heap', temps', intern', pinned')
  <2> DEFINE hp == heap'
  <2>1. GoodMemory(hp, temps, intern, pinned) /\ y \in Val(DOMAIN hp)
    BY <1>4, <1>7
  <2> HIDE DEF hp
  <2>2. GoodMemory(hp, [temps EXCEPT ![d] = y], intern, pinned)
    BY <2>1, Assigned
  <2> QED BY Zenon, <1>1, <2>2 DEF hp
<1> QED BY <1>1, <1>2, <1>8, IdleAgain

LEMMA DelGood == ASSUME RtInv, NEW t \in Temps, NEW i, cl_map_del(t, i) PROVE RtInv'
<1> DEFINE h == temps[t]
           e == heap[h].entries
           ws == heap[e].words
           u == [ws EXCEPT ![i].live = FALSE]
<1>1. /\ Idle /\ IsA(h, "map") /\ i \in DOMAIN Entries(h)
      /\ heap' = [heap EXCEPT ![e].words[i].live = FALSE]
      /\ UNCHANGED <<temps, intern, pinned, roots, stack>>
  BY DEF cl_map_del
<1>2. h \in OfKind("map", DOMAIN heap) /\ MemoryNow /\ GoodHeap(heap) /\ roots = FrameRoots
  BY <1>1, IdleIs, IsLive
<1>3. e # Null
  <2>1. ~ \E y : y \in DOMAIN << >>
    OBVIOUS
  <2>2. e = Null => Entries(h) = << >>
    BY Zenon DEF Entries, WordsOf
  <2> QED BY Zenon, <1>1, <2>1, <2>2
<1>4. /\ e \in DOMAIN heap /\ Kind(e) = "entries" /\ Entries(h) = ws
      /\ ws \in Seq(EntriesOver(DOMAIN heap))
  <2>1. Entries(h) \in Seq(EntriesOver(DOMAIN heap))
    BY Zenon, <1>2, EntriesAre
  <2>2. e \in DOMAIN heap /\ Kind(e) = "entries" /\ Entries(h) = ws
    BY Zenon, <1>2, <1>3, EntriesAre
  <2> QED BY Zenon, <2>1, <2>2
<1>5. heap' = [heap EXCEPT ![e].words = u]
  BY Zenon, <1>1
<1> HIDE DEF ws, e, h
<1>6. u \in Seq(EntriesOver(DOMAIN heap))
  <2>1. Null \in Val(DOMAIN heap)
    BY DEF Val
  <2> QED BY Zenon, <1>1, <1>4, <2>1, EntrySet
<1> HIDE DEF u
<1>7. SameObjects([heap EXCEPT ![e].words = u], heap)
  BY Zenon, <1>2, <1>4, <1>6, EntriesHeap
<1>8. SameObjects(heap', heap)
  BY Zenon, <1>5, <1>7
<1>9. GoodMemory(heap', temps, intern, pinned)
  BY <1>2, <1>8, SameMemory
<1> QED BY <1>1, <1>2, <1>9, IdleAgain

LEMMA GetGood == ASSUME RtInv, NEW t \in Temps, NEW i, NEW d \in Temps, cl_map_get(t, i, d) PROVE RtInv'
<1> DEFINE h == temps[t]
           y == Entries(h)[i].val
<1>1. /\ Idle /\ IsA(h, "map") /\ i \in DOMAIN Entries(h)
      /\ temps' = [temps EXCEPT ![d] = y] /\ UNCHANGED <<heap, intern, pinned, roots, stack>>
  BY DEF cl_map_get
<1>2. h \in OfKind("map", DOMAIN heap) /\ MemoryNow /\ GoodHeap(heap) /\ roots = FrameRoots
  BY <1>1, IdleIs, IsLive
<1>3. Entries(h) \in Seq(EntriesOver(DOMAIN heap))
  BY <1>2, EntriesAre
<1>4. Entries(h)[i] \in EntriesOver(DOMAIN heap)
  BY <1>1, <1>3
<1>5. y \in Val(DOMAIN heap)
  BY <1>4 DEF EntriesOver
<1> HIDE DEF y, h
<1>6. GoodMemory(heap, [temps EXCEPT ![d] = y], intern, pinned)
  BY <1>2, <1>5, Assigned DEF MemoryNow
<1>7. GoodMemory(heap', temps', intern', pinned')
  BY <1>1, <1>6
<1> QED BY <1>1, <1>2, <1>7, IdleAgain

LEMMA ProgramSteps == ASSUME RtInv, Program PROVE RtInv'
<1>1. CASE \E t \in Temps : \E kind \in Kinds : New(t, kind)
  BY <1>1, NewGood
<1>2. CASE \E t, d \in Temps : cl_vec_pop(t, d)
  BY <1>2, PopGood
<1>3. CASE \E t \in Temps : \E i \in 1 .. MaxElems : cl_map_del(t, i)
  BY <1>3, DelGood
<1>4. CASE \E t, d \in Temps : \E i \in 1 .. MaxElems : cl_map_get(t, i, d)
  BY <1>4, GetGood
<1>5. CASE \E t, u \in Temps : StartVecPush(t, u)
  BY <1>5, StartSteps
<1>6. CASE \E t, u, w \in Temps : StartMapSet(t, u, w)
  BY <1>6, StartSteps
<1>7. CASE \E t, d \in Temps : StartMapKeys(t, d)
  BY <1>7, StartSteps
<1>8. CASE \E t, u, d \in Temps : StartConcat(t, u, d)
  BY <1>8, StartSteps
<1>9. CASE \E lit \in Lits : \E d \in Temps : StartStrlit(lit, d)
  BY <1>9, LiteralStart
<1>10. CASE \E d \in Temps : StartArgs(d)
  BY <1>10, StartSteps
<1>11. CASE \E e \in Temps : StartReadFile(e)
  BY <1>11, StartSteps
<1>12. CASE \E e \in Temps : StartWriteFile(e)
  BY <1>12, StartSteps
<1> QED BY <1>1, <1>2, <1>3, <1>4, <1>5, <1>6, <1>7, <1>8, <1>9, <1>10, <1>11, <1>12 DEF Program

-----------------------------------------------------------------------------
LEMMA FrameRootsGood == Init => RtInv
<1> SUFFICES ASSUME Init PROVE RtInv
  OBVIOUS
<1>1. DOMAIN heap = {}
  BY DEF Init
<1>2. GoodHeap(heap)
  <2>1. heap = [o \in DOMAIN heap |-> heap[o]]
    BY <1>1 DEF Init
  <2>2. IsFiniteSet({})
    BY FS_EmptySet
  <2> QED BY <1>1, <2>1, <2>2 DEF GoodHeap
<1>3. temps \in [Temps -> Val(DOMAIN heap)] /\ intern = Null /\ pinned = FALSE
  BY DEF Init, Val
<1>4. NoCall(stack, roots)
  BY DEF Init, NoCall
<1> QED BY <1>2, <1>3, <1>4 DEF RtInv, Good, GoodMemory, GoodStack

LEMMA RtStep == RtInv /\ [Next]_vars => RtInv'
<1> SUFFICES ASSUME RtInv, [Next]_vars PROVE RtInv'
  OBVIOUS
<1>1. CASE UNCHANGED vars
  BY Zenon, <1>1 DEF vars, RtInv
<1>2. CASE Next
  BY <1>2, ProgramSteps, VectorSteps, MapSteps, MapKeysSteps, LiteralSteps, ArgumentSteps,
     StringSteps, FileSteps DEF Next
<1> QED BY <1>1, <1>2

LEMMA Rooting == Spec => []RtInv
BY FrameRootsGood, RtStep, PTL DEF Spec

-----------------------------------------------------------------------------
LEMMA FrameHolds ==
  ASSUME NEW L, L \subseteq Ids, NEW f \in FrameOver(L)
  PROVE  Refs({f.h, f.k, f.v, f.x}) \subseteq L
<1>1. f.h \in Val(L) /\ f.k \in Val(L) /\ f.v \in Val(L) /\ f.x \in Val(L)
  BY DEF FrameOver
<1> QED BY <1>1, ValRefs DEF Refs

LEMMA Undangling == RtInv => NoDangling
<1> SUFFICES ASSUME RtInv PROVE NoDangling
  OBVIOUS
<1>1. /\ GoodHeap(heap) /\ Live \subseteq Ids
      /\ temps \in [Temps -> Val(Live)] /\ intern \in Val(Live)
      /\ GoodStack(heap, temps, intern, stack, roots)
  BY DEF RtInv, Good, GoodMemory, GoodHeap, Live, Val, OfKind
<1>2. ASSUME NEW f \in Range(stack) PROVE f \in FrameOver(Live)
  <2>1. CASE NoCall(stack, roots)
    <3>1. DOMAIN stack = {}
      BY <2>1 DEF NoCall
    <3> QED BY <1>2, <3>1, RangeIs
  <2>2. ASSUME NEW g, OneCall(g, heap, temps, intern, stack, roots) PROVE f \in FrameOver(Live)
    <3>1. stack = <<g>> /\ g \in FrameOver(Live)
      BY <2>2 DEF OneCall, GoodOuter, Live
    <3>2. f = g
      BY <1>2, <3>1, RangeIs
    <3> QED BY <3>1, <3>2
  <2>3. ASSUME NEW c, NEW g, TwoCalls(c, g, heap, temps, intern, stack, roots)
        PROVE  f \in FrameOver(Live)
    <3>1. stack = <<c, g>> /\ g \in FrameOver(Live) /\ c \in FrameOver(Live)
      BY <2>3 DEF TwoCalls, GoodOuter, GoodInner, Live
    <3>2. f = g \/ f = c
      BY <1>2, <3>1, RangeIs
    <3> QED BY <3>1, <3>2
  <2> QED BY <1>1, <2>1, <2>2, <2>3 DEF GoodStack
<1>3. \A f \in Range(stack) : Refs({f.h, f.k, f.v, f.x}) \subseteq Live
  BY <1>1, <1>2, FrameHolds
<1>4. \A o \in Live : Fields(o) \subseteq Live
  BY <1>1, FieldsLive DEF GoodHeap, Live
<1>5. Refs(Range(temps) \cup {intern}) \subseteq Live
  BY <1>1, ValRefs, RangeIs DEF Refs
<1> QED BY <1>3, <1>4, <1>5 DEF NoDangling

\* The addresses of a call's variables lie above those of its callers'.
Layered(s, d) ==
  /\ \A i \in DOMAIN s : s[i][1] \in Nat /\ s[i][1] <= d
  /\ \A i \in DOMAIN s : i > 1 => s[i - 1][1] <= s[i][1]

LEMMA Layers ==
  ASSUME NEW B \in Shadows, NEW c \in Nat, Layered(B, c), NEW f, NEW d \in Nat, c <= d
  PROVE  Layered(B \o Rooted(f, d), d)
<1> DEFINE A == ({0} \X Temps) \cup Addresses(1) \cup Addresses(2) \cup Addresses(d)
           u == Rooted(f, d)
           s == B \o u
<1>1. \A X, Y : X \subseteq Y => Seq(X) \subseteq Seq(Y)
  OBVIOUS
<1>2. B \in Seq(A) /\ u \in Seq(Addresses(d)) /\ u \in Seq(A)
  <2>1. ({0} \X Temps) \cup Addresses(1) \cup Addresses(2) \subseteq A /\ Addresses(d) \subseteq A
    OBVIOUS
  <2> HIDE DEF A
  <2> QED BY <1>1, <2>1, RootedType DEF Shadows
<1>3. \A i \in DOMAIN u : u[i][1] = d
  <2>1. \A i \in DOMAIN u : u[i] \in Addresses(d)
    BY <1>2
  <2> QED BY <2>1 DEF Addresses
<1> HIDE DEF A, u
<1>4. /\ s \in Seq(A) /\ Len(s) = Len(B) + Len(u) /\ Len(B) \in Nat /\ Len(u) \in Nat
      /\ DOMAIN s = 1 .. Len(s) /\ DOMAIN B = 1 .. Len(B) /\ DOMAIN u = 1 .. Len(u)
      /\ \A i \in 1 .. Len(B) : s[i] = B[i]
      /\ \A i \in 1 .. Len(s) : i > Len(B) => s[i] = u[i - Len(B)]
  BY <1>2
<1> HIDE DEF s
<1>5. ASSUME NEW i \in DOMAIN s
      PROVE  /\ s[i][1] \in Nat /\ s[i][1] <= d
             /\ i > Len(B) => s[i][1] = d
             /\ i <= Len(B) => i \in DOMAIN B /\ s[i] = B[i]
  <2>1. CASE i <= Len(B)
    <3>1. i \in DOMAIN B /\ s[i] = B[i]
      BY <1>4, <2>1
    <3>2. B[i][1] \in Nat /\ B[i][1] <= c
      BY <3>1 DEF Layered
    <3> QED BY <2>1, <3>1, <3>2
  <2>2. CASE i > Len(B)
    <3>1. i - Len(B) \in DOMAIN u /\ s[i] = u[i - Len(B)]
      BY <1>4, <2>2
    <3>2. s[i][1] = d
      BY <1>3, <3>1
    <3> QED BY <1>4, <2>2, <3>2
  <2> QED BY <1>4, <2>1, <2>2
<1>6. ASSUME NEW i \in DOMAIN s, i > 1 PROVE s[i - 1][1] <= s[i][1]
  <2>1. i - 1 \in DOMAIN s /\ i \in Nat /\ i <= Len(s)
    BY <1>4, <1>6
  <2>2. CASE i > Len(B)
    BY <1>5, <2>1, <2>2
  <2>3. CASE i <= Len(B)
    <3>1. s[i - 1] = B[i - 1] /\ s[i] = B[i] /\ i \in DOMAIN B
      BY <1>4, <1>5, <1>6, <2>1, <2>3
    <3> QED BY <1>6, <3>1 DEF Layered
  <2> QED BY <1>4, <2>1, <2>2, <2>3
<1>7. Layered(s, d)
  BY <1>5, <1>6 DEF Layered
<1> QED BY <1>7 DEF s, u

LEMMA Balancing == RtInv => ShadowStackBalanced
<1> SUFFICES ASSUME RtInv PROVE ShadowStackBalanced
  OBVIOUS
<1>1. Layered(FrameRoots, 0)
  <2>1. FrameRoots \in Seq({0} \X Temps) /\ DOMAIN FrameRoots = Temps
    BY FrameRootsAre DEF FrameRoots
  <2>2. \A i \in DOMAIN FrameRoots : FrameRoots[i][1] = 0
    BY <2>1, FrameRootsAre
  <2>3. \A i \in DOMAIN FrameRoots : i > 1 => i - 1 \in DOMAIN FrameRoots
    BY <2>1, BoundsAssumption DEF Temps
  <2> QED BY <2>2, <2>3 DEF Layered
<1>2. Layered(roots, depth)
  <2>1. CASE NoCall(stack, roots)
    BY <1>1, <2>1 DEF NoCall, depth
  <2>2. ASSUME NEW f, OneNow(f) PROVE Layered(roots, depth)
    <3>1. roots = FrameRoots \o Rooted(f, 1) /\ depth = 1 /\ FrameRoots \in Shadows
      BY <2>2, NowOne, ShadowTypes
    <3>2. Layered(FrameRoots \o Rooted(f, 1), 1)
      BY <1>1, <3>1, Layers
    <3> QED BY Zenon, <3>1, <3>2
  <2>3. ASSUME NEW c, NEW f, TwoNow(c, f) PROVE Layered(roots, depth)
    <3> DEFINE B == FrameRoots \o Rooted(c, 1)
    <3>1. roots = B \o Rooted(f, 2) /\ depth = 2 /\ FrameRoots \in Shadows /\ B \in Shadows
      BY <2>3, NowTwo, ShadowTypes
    <3>2. Layered(B, 1)
      BY <1>1, <3>1, Layers
    <3> HIDE DEF B
    <3>3. Layered(B \o Rooted(f, 2), 2)
      BY <3>1, <3>2, Layers
    <3> QED BY Zenon, <3>1, <3>3
  <2> QED BY <2>1, <2>2, <2>3 DEF RtInv, Good, GoodStack, OneNow, TwoNow
<1>3. Idle => roots = FrameRoots
  BY IdleIs
<1> QED BY <1>2, <1>3 DEF Layered, ShadowStackBalanced

-----------------------------------------------------------------------------
\* A buffer belongs to one container alone.
Owned(hp) ==
  \A p, q \in DOMAIN hp :
    \/ p = q
    \/ /\ hp[p].buf = hp[q].buf => hp[p].buf = Null
       /\ hp[p].entries = hp[q].entries => hp[p].entries = Null

\* The elements of a vector and the live entries of a map, in the heap hp.
EntriesIn(hp, h) == IF hp[h].entries = Null THEN << >> ELSE hp[hp[h].entries].words
ContentsIn(hp, h) ==
  IF Kind(h) = "vec" THEN SubSeq(BufWords(hp, h), 1, hp[h].len) ELSE Kept(EntriesIn(hp, h))

LEMMA ContentsAre ==
  /\ \A h : Contents(h) = ContentsIn(heap, h)
  /\ \A h : Contents(h)' = ContentsIn(heap', h)
<1>1. \A h : Contents(h) = ContentsIn(heap, h)
  BY Zenon DEF Contents, ContentsIn, Elems, Entries, EntriesIn, WordsOf, BufWords
<1>2. \A h : Contents(h)' = ContentsIn(heap', h)
  BY Zenon DEF Contents, ContentsIn, Elems, Entries, EntriesIn, WordsOf, BufWords
<1> QED BY <1>1, <1>2

\* What a step may make of the contents of a container.
Follows(h, s, t) == SameButOne(s, t) \/ (Kind(h) = "map" /\ OneRevalued(s, t))
Containers(hp) == {o \in DOMAIN hp : Kind(o) \in {"vec", "map"}}

\* q differs from hp in the header of h and in the buffer e, which no other has.
Touched(q, hp, h, e) ==
  /\ DOMAIN q = DOMAIN hp
  /\ \A p \in DOMAIN hp : p \notin {h, e} => q[p] = hp[p]
  /\ \A p \in DOMAIN hp : p # h => hp[p].buf # e /\ hp[p].entries # e
  /\ e = h \/ Kind(e) \in {"buf", "entries"}

\* Two headers alike, with the same words behind them, have the same contents.
LEMMA Alike ==
  ASSUME NEW hp, NEW q, NEW h, q[h] = hp[h],
         hp[h].buf # Null => q[hp[h].buf] = hp[hp[h].buf],
         hp[h].entries # Null => q[hp[h].entries] = hp[hp[h].entries]
  PROVE  ContentsIn(q, h) = ContentsIn(hp, h)
<1>1. BufWords(q, h) = BufWords(hp, h)
  BY Zenon DEF BufWords
<1>2. EntriesIn(q, h) = EntriesIn(hp, h)
  BY Zenon DEF EntriesIn
<1> QED BY Zenon, <1>1, <1>2 DEF ContentsIn

LEMMA OthersKeep ==
  ASSUME NEW hp, GoodHeap(hp), NEW q, NEW h \in Containers(hp), NEW e, Touched(q, hp, h, e),
         NEW p \in Containers(hp), p # h
  PROVE  ContentsIn(q, p) = ContentsIn(hp, p)
<1>1. /\ p \in DOMAIN hp /\ p # e /\ Kind(p) \in {"vec", "map"} /\ q[p] = hp[p]
      /\ hp[p].buf # e /\ hp[p].entries # e
  BY DEF Touched, Containers
<1>2. /\ hp[p].buf # Null => hp[p].buf \in DOMAIN hp /\ Kind(hp[p].buf) = "buf"
      /\ hp[p].entries # Null => hp[p].entries \in DOMAIN hp /\ Kind(hp[p].entries) = "entries"
  BY <1>1, WordsAre
<1>3. hp[p].buf # h /\ hp[p].entries # h
  BY <1>2, NoneIsNone DEF Containers, GoodHeap
<1>4. hp[p].buf # Null => q[hp[p].buf] = hp[hp[p].buf]
  BY <1>1, <1>2, <1>3 DEF Touched
<1>5. hp[p].entries # Null => q[hp[p].entries] = hp[hp[p].entries]
  BY <1>1, <1>2, <1>3 DEF Touched
<1> QED BY <1>1, <1>4, <1>5, Alike

\* What a step does that only touches one container's objects.
StepKeeps == \A p \in Containers(heap) \cap Reached : Follows(p, Contents(p), Contents(p)')
Keeping(q, hp, S) == \A p \in Containers(hp) \cap S : Follows(p, ContentsIn(hp, p), ContentsIn(q, p))

LEMMA SameFollows == \A h, s : Follows(h, s, s)
BY DEF Follows, SameButOne

LEMMA TouchedKeeps ==
  ASSUME NEW hp, GoodHeap(hp), NEW q, NEW h \in Containers(hp), NEW e, Touched(q, hp, h, e),
         Follows(h, ContentsIn(hp, h), ContentsIn(q, h))
  PROVE  Keeping(q, hp, DOMAIN hp)
<1> SUFFICES ASSUME NEW p \in Containers(hp) PROVE Follows(p, ContentsIn(hp, p), ContentsIn(q, p))
  BY DEF Keeping
<1>1. CASE p = h
  BY <1>1
<1>2. CASE p # h
  <2>1. ContentsIn(q, p) = ContentsIn(hp, p)
    BY <1>2, OthersKeep
  <2> QED BY <2>1, SameFollows
<1> QED BY <1>1, <1>2

LEMMA KeepsAll ==
  ASSUME GoodHeap(heap), Keeping(heap', heap, DOMAIN heap) \/ Keeping(heap', heap, Reached)
  PROVE  StepKeeps
<1>1. Reached \subseteq DOMAIN heap
  BY ReachedCloses DEF GoodHeap, Live
<1>2. Keeping(heap', heap, Reached)
  BY <1>1 DEF Keeping
<1> QED BY Zenon, <1>2, ContentsAre DEF Keeping, StepKeeps

-----------------------------------------------------------------------------
\* The objects of a heap as records, and the heap after one is written to.
IsHeap(hp) ==
  /\ hp = [p \in DOMAIN hp |-> hp[p]]
  /\ \A o \in DOMAIN hp : hp[o] = Obj(hp[o].buf, hp[o].entries, hp[o].index, hp[o].len, hp[o].words)
Others(q, hp, S) == DOMAIN q = DOMAIN hp /\ \A p \in DOMAIN hp : p \notin S => q[p] = hp[p]
Has(b, buf, entries, len, words) ==
  b.buf = buf /\ b.entries = entries /\ b.len = len /\ b.words = words
Set(q, hp, o, buf, entries, len, words) ==
  IsHeap(q) /\ Others(q, hp, {o}) /\ Has(q[o], buf, entries, len, words)

LEMMA GoodIsHeap == ASSUME NEW hp, GoodHeap(hp) PROVE IsHeap(hp)
<1>1. \A o \in DOMAIN hp : hp[o] \in ObjectOver(o, DOMAIN hp)
  BY DEF GoodHeap
<1>2. \A o, L : \A b \in ObjectOver(o, L) : b = Obj(b.buf, b.entries, b.index, b.len, b.words)
  BY DEF ObjectOver, Obj
<1>3. \A o \in DOMAIN hp : hp[o] = Obj(hp[o].buf, hp[o].entries, hp[o].index, hp[o].len, hp[o].words)
  BY Zenon, <1>1, <1>2
<1> QED BY Zenon, <1>3 DEF GoodHeap, IsHeap

LEMMA PutSets ==
  ASSUME NEW hp, IsHeap(hp), NEW o \in DOMAIN hp,
         NEW buf, NEW entries, NEW index, NEW len, NEW words
  PROVE  Set([hp EXCEPT ![o] = Obj(buf, entries, index, len, words)], hp, o, buf, entries, len, words)
<1> DEFINE b == Obj(buf, entries, index, len, words)
           q == Put(hp, o, b)
<1>1. /\ q = [p \in DOMAIN hp |-> q[p]] /\ DOMAIN q = DOMAIN hp /\ q[o] = b
      /\ \A p \in DOMAIN hp : p # o => q[p] = hp[p]
  BY PutIs DEF IsHeap
<1>2. Has(b, buf, entries, len, words) /\ b = Obj(b.buf, b.entries, b.index, b.len, b.words)
  BY DEF Obj, Has
<1>3. q = [hp EXCEPT ![o] = b]
  BY DEF Put
<1> HIDE DEF q, b
<1>4. IsHeap(q)
  BY <1>1, <1>2 DEF IsHeap
<1>5. Others(q, hp, {o})
  BY <1>1 DEF Others
<1>6. Has(q[o], buf, entries, len, words)
  BY Zenon, <1>1, <1>2
<1>7. Set(q, hp, o, buf, entries, len, words)
  BY <1>4, <1>5, <1>6 DEF Set
<1> QED BY Zenon, <1>3, <1>7 DEF b

LEMMA FieldPut ==
  ASSUME NEW hp, IsHeap(hp), NEW o \in DOMAIN hp, NEW y
  PROVE  LET b == hp[o]
         IN  /\ Set([hp EXCEPT ![o].words = y], hp, o, b.buf, b.entries, b.len, y)
             /\ Set([hp EXCEPT ![o].buf = y], hp, o, y, b.entries, b.len, b.words)
             /\ Set([hp EXCEPT ![o].entries = y], hp, o, b.buf, y, b.len, b.words)
             /\ Set([hp EXCEPT ![o].index = y], hp, o, b.buf, b.entries, b.len, b.words)
             /\ Set([hp EXCEPT ![o].len = y], hp, o, b.buf, b.entries, y, b.words)
<1> DEFINE b == hp[o]
<1>1. b = Obj(b.buf, b.entries, b.index, b.len, b.words)
  BY DEF IsHeap
<1>2. /\ [hp EXCEPT ![o].words = y] = [hp EXCEPT ![o] = [b EXCEPT !.words = y]]
      /\ [hp EXCEPT ![o].buf = y] = [hp EXCEPT ![o] = [b EXCEPT !.buf = y]]
      /\ [hp EXCEPT ![o].entries = y] = [hp EXCEPT ![o] = [b EXCEPT !.entries = y]]
      /\ [hp EXCEPT ![o].index = y] = [hp EXCEPT ![o] = [b EXCEPT !.index = y]]
      /\ [hp EXCEPT ![o].len = y] = [hp EXCEPT ![o] = [b EXCEPT !.len = y]]
  BY Zenon
<1> HIDE DEF b
<1>3. /\ [b EXCEPT !.words = y] = Obj(b.buf, b.entries, b.index, b.len, y)
      /\ [b EXCEPT !.buf = y] = Obj(y, b.entries, b.index, b.len, b.words)
      /\ [b EXCEPT !.entries = y] = Obj(b.buf, y, b.index, b.len, b.words)
      /\ [b EXCEPT !.index = y] = Obj(b.buf, b.entries, y, b.len, b.words)
      /\ [b EXCEPT !.len = y] = Obj(b.buf, b.entries, b.index, y, b.words)
  <2>1. PICK c1, c2, c3, c4, c5 :
          b.buf = c1 /\ b.entries = c2 /\ b.index = c3 /\ b.len = c4 /\ b.words = c5
    OBVIOUS
  <2>2. b = Obj(c1, c2, c3, c4, c5)
    BY Zenon, <1>1, <2>1
  <2>3. LET c == Obj(c1, c2, c3, c4, c5)
        IN  /\ [c EXCEPT !.words = y] = Obj(c1, c2, c3, c4, y)
            /\ [c EXCEPT !.buf = y] = Obj(y, c2, c3, c4, c5)
            /\ [c EXCEPT !.entries = y] = Obj(c1, y, c3, c4, c5)
            /\ [c EXCEPT !.index = y] = Obj(c1, c2, y, c4, c5)
            /\ [c EXCEPT !.len = y] = Obj(c1, c2, c3, y, c5)
    BY ONLY DEF Obj
  <2> QED BY ONLY <2>1, <2>2, <2>3, Zenon
<1>4. \A c, c1, c2, c3, c4, c5 :
        c = Obj(c1, c2, c3, c4, c5) => Set([hp EXCEPT ![o] = c], hp, o, c1, c2, c4, c5)
  BY Zenon, PutSets
<1>5. Set([hp EXCEPT ![o].words = y], hp, o, b.buf, b.entries, b.len, y)
  <2>1. Set([hp EXCEPT ![o] = [b EXCEPT !.words = y]], hp, o, b.buf, b.entries, b.len, y)
    BY Zenon, <1>3, <1>4
  <2> QED BY Zenon, <1>2, <2>1
<1>6. Set([hp EXCEPT ![o].buf = y], hp, o, y, b.entries, b.len, b.words)
  <2>1. Set([hp EXCEPT ![o] = [b EXCEPT !.buf = y]], hp, o, y, b.entries, b.len, b.words)
    BY Zenon, <1>3, <1>4
  <2> QED BY Zenon, <1>2, <2>1
<1>7. Set([hp EXCEPT ![o].entries = y], hp, o, b.buf, y, b.len, b.words)
  <2>1. Set([hp EXCEPT ![o] = [b EXCEPT !.entries = y]], hp, o, b.buf, y, b.len, b.words)
    BY Zenon, <1>3, <1>4
  <2> QED BY Zenon, <1>2, <2>1
<1>8. Set([hp EXCEPT ![o].index = y], hp, o, b.buf, b.entries, b.len, b.words)
  <2>1. Set([hp EXCEPT ![o] = [b EXCEPT !.index = y]], hp, o, b.buf, b.entries, b.len, b.words)
    BY Zenon, <1>3, <1>4
  <2> QED BY Zenon, <1>2, <2>1
<1>9. Set([hp EXCEPT ![o].len = y], hp, o, b.buf, b.entries, y, b.words)
  <2>1. Set([hp EXCEPT ![o] = [b EXCEPT !.len = y]], hp, o, b.buf, b.entries, y, b.words)
    BY Zenon, <1>3, <1>4
  <2> QED BY Zenon, <1>2, <2>1
<1> QED BY <1>5, <1>6, <1>7, <1>8, <1>9 DEF b

\* Owned survives a step that gives at most one container a buffer nobody has.
SameRefs(b, c) == b.buf = c.buf /\ b.entries = c.entries
LEMMA OwnedStill ==
  ASSUME NEW hp, Owned(hp), NEW q, DOMAIN q = DOMAIN hp, NEW h,
         \A p \in DOMAIN hp : p # h => SameRefs(q[p], hp[p]),
         q[h].buf = hp[h].buf \/ \A p \in DOMAIN hp : hp[p].buf # q[h].buf,
         q[h].entries = hp[h].entries \/ \A p \in DOMAIN hp : hp[p].entries # q[h].entries
  PROVE  Owned(q)
<1> SUFFICES ASSUME NEW p \in DOMAIN hp, NEW r \in DOMAIN hp, p # r
             PROVE  /\ q[p].buf = q[r].buf => q[p].buf = Null
                    /\ q[p].entries = q[r].entries => q[p].entries = Null
  BY DEF Owned
<1>1. /\ hp[p].buf = hp[r].buf => hp[p].buf = Null
      /\ hp[p].entries = hp[r].entries => hp[p].entries = Null
  BY DEF Owned
<1>2. /\ p # h => q[p].buf = hp[p].buf /\ q[p].entries = hp[p].entries
      /\ r # h => q[r].buf = hp[r].buf /\ q[r].entries = hp[r].entries
  BY DEF SameRefs
<1> QED BY <1>1, <1>2

LEMMA OwnedSame ==
  ASSUME NEW hp, Owned(hp), NEW q, DOMAIN q = DOMAIN hp,
         \A p \in DOMAIN hp : SameRefs(q[p], hp[p])
  PROVE  Owned(q)
BY DEF Owned, SameRefs

\* After an allocation.
LEMMA OwnedAllocated ==
  ASSUME Owned(heap), NEW o, NEW kept, kept \subseteq DOMAIN heap, NEW q, Allocated(q, o, kept)
  PROVE  Owned(q)
<1> SUFFICES ASSUME NEW p \in DOMAIN q, NEW r \in DOMAIN q, p # r
             PROVE  /\ q[p].buf = q[r].buf => q[p].buf = Null
                    /\ q[p].entries = q[r].entries => q[p].entries = Null
  BY DEF Owned
<1>1. \A z \in DOMAIN q : z # o => z \in DOMAIN heap /\ q[z] = heap[z]
  BY DEF Allocated
<1>2. q[o].buf = Null /\ q[o].entries = Null
  BY DEF Allocated
<1> QED BY <1>1, <1>2 DEF Owned

LEMMA AllocatedKeeps ==
  ASSUME GoodHeap(heap), NEW kept \in Survivors, NEW o, NEW q, Allocated(q, o, kept)
  PROVE  Keeping(q, heap, Reached)
<1>1. Reached \subseteq kept /\ kept \subseteq DOMAIN heap /\ \A p \in kept : Fields(p) \subseteq kept
  <2>1. kept = Reached \/ kept = Live
    BY DEF Survivors
  <2>2. Reached \subseteq Live
    BY ReachedCloses DEF GoodHeap, Live
  <2> QED BY <2>1, <2>2, SurvivorsClosed DEF Live
<1> SUFFICES ASSUME NEW p \in Containers(heap) \cap Reached
             PROVE  Follows(p, ContentsIn(heap, p), ContentsIn(q, p))
  BY DEF Keeping
<1>2. p \in kept /\ p \in DOMAIN heap /\ q[p] = heap[p]
  BY <1>1 DEF Allocated
<1>3. /\ heap[p].buf # Null => heap[p].buf \in DOMAIN heap
      /\ heap[p].entries # Null => heap[p].entries \in DOMAIN heap
  BY <1>2, WordsAre
<1>4. DOMAIN heap \subseteq Ids
  BY DEF GoodHeap
<1>5. /\ heap[p].buf # Null => heap[p].buf \in kept
      /\ heap[p].entries # Null => heap[p].entries \in kept
  BY <1>1, <1>2, <1>3, <1>4, FieldsAre
<1>6. /\ heap[p].buf # Null => q[heap[p].buf] = heap[heap[p].buf]
      /\ heap[p].entries # Null => q[heap[p].entries] = heap[heap[p].entries]
  BY <1>5 DEF Allocated
<1>7. ContentsIn(q, p) = ContentsIn(heap, p)
  BY <1>2, <1>6, Alike
<1> QED BY <1>7, SameFollows

-----------------------------------------------------------------------------
\* The sequences that pushes, pops, new values and deletions make.
LEMMA Prefixes ==
  ASSUME NEW V, NEW u \in Seq(V), NEW m \in Nat, m <= Len(u)
  PROVE  /\ SubSeq(u, 1, m) \in Seq(V) /\ Len(SubSeq(u, 1, m)) = m
         /\ \A i \in 1 .. m : SubSeq(u, 1, m)[i] = u[i]
OBVIOUS

LEMMA Whole == ASSUME NEW V, NEW u \in Seq(V) PROVE SubSeq(u, 1, Len(u)) = u
<1> DEFINE t == SubSeq(u, 1, Len(u))
<1>1. t \in Seq(V) /\ Len(t) = Len(u) /\ \A i \in 1 .. Len(u) : t[i] = u[i]
  BY Prefixes
<1> HIDE DEF t
<1>2. t = u
  BY <1>1
<1> QED BY <1>2 DEF t

LEMMA PushedSeq ==
  ASSUME NEW V, NEW s \in Seq(V), NEW v \in V
  PROVE  SameButOne(s, Append(s, v))
<1> DEFINE t == Append(s, v)
           r == SubSeq(t, 1, Len(s))
<1>1. t \in Seq(V) /\ Len(t) = Len(s) + 1 /\ \A i \in 1 .. Len(s) : t[i] = s[i]
  OBVIOUS
<1> HIDE DEF t
<1>2. r \in Seq(V) /\ Len(r) = Len(s) /\ \A i \in 1 .. Len(s) : r[i] = s[i]
  BY <1>1, Prefixes
<1> HIDE DEF r
<1>3. r = s
  BY <1>2
<1>4. SameButOne(s, t)
  BY <1>1, <1>3 DEF SameButOne, r
<1> QED BY <1>4 DEF t

LEMMA ShortenedSeq ==
  ASSUME NEW V, NEW s \in Seq(V), NEW t \in Seq(V), NEW r \in 1 .. Len(s), Shortened(s, t, r)
  PROVE  SameButOne(s, t)
<1> DEFINE a == SubSeq(s, 1, r - 1)
           b == SubSeq(s, r + 1, Len(s))
           c == a \o b
<1>1. Len(t) = Len(s) - 1 /\ \A j \in 1 .. Len(t) : t[j] = IF j < r THEN s[j] ELSE s[j + 1]
  BY DEF Shortened
<1>2. a \in Seq(V) /\ Len(a) = r - 1 /\ \A j \in 1 .. r - 1 : a[j] = s[j]
  <2>1. r - 1 \in Nat /\ r - 1 <= Len(s)
    OBVIOUS
  <2> QED BY <2>1, Prefixes
<1>3. b \in Seq(V) /\ Len(b) = Len(s) - r /\ \A j \in 1 .. Len(s) - r : b[j] = s[j + r]
  OBVIOUS
<1> HIDE DEF a, b
<1>4. c \in Seq(V) /\ Len(c) = Len(s) - 1
      /\ \A j \in 1 .. Len(c) : c[j] = IF j < r THEN s[j] ELSE s[j + 1]
  <2>1. c \in Seq(V) /\ Len(c) = Len(a) + Len(b)
        /\ \A j \in 1 .. Len(c) : c[j] = IF j <= Len(a) THEN a[j] ELSE b[j - Len(a)]
    <3>1. a \in Seq(V) /\ b \in Seq(V)
      BY <1>2, <1>3
    <3>2. /\ c \in Seq(V) /\ Len(c) = Len(a) + Len(b)
          /\ \A j \in 1 .. Len(a) + Len(b) : c[j] = IF j <= Len(a) THEN a[j] ELSE b[j - Len(a)]
      BY ONLY <3>1, ConcatProperties, Zenon
    <3> QED BY Zenon, <3>2
  <2> HIDE DEF c
  <2>2. Len(c) = Len(s) - 1
    BY <1>2, <1>3, <2>1
  <2>3. ASSUME NEW j \in 1 .. Len(c) PROVE c[j] = IF j < r THEN s[j] ELSE s[j + 1]
    <3>1. CASE j < r
      <4>1. j \in 1 .. r - 1
        BY <2>2, <3>1
      <4> QED BY <1>2, <2>1, <3>1, <4>1
    <3>2. CASE ~(j < r)
      <4>1. j - (r - 1) \in 1 .. Len(s) - r /\ j - (r - 1) + r = j + 1
        BY <2>2, <3>2
      <4>2. c[j] = b[j - (r - 1)]
        BY <1>2, <2>1, <2>2, <3>2
      <4> QED BY <1>3, <3>2, <4>1, <4>2
    <3> QED BY <3>1, <3>2
  <2> QED BY <2>1, <2>2, <2>3
<1> HIDE DEF c
<1>5. t = c
  BY <1>1, <1>4
<1>6. r \in DOMAIN s
  OBVIOUS
<1> QED BY <1>5, <1>6 DEF SameButOne, a, b, c

LEMMA PoppedSeq ==
  ASSUME NEW V, NEW u \in Seq(V), NEW n \in Nat, n + 1 <= Len(u)
  PROVE  SameButOne(SubSeq(u, 1, n + 1), SubSeq(u, 1, n))
<1> DEFINE s == SubSeq(u, 1, n + 1)
           t == SubSeq(u, 1, n)
<1>1. s \in Seq(V) /\ Len(s) = n + 1 /\ \A i \in 1 .. n + 1 : s[i] = u[i]
  BY Prefixes
<1>2. t \in Seq(V) /\ Len(t) = n /\ \A i \in 1 .. n : t[i] = u[i]
  BY Prefixes
<1> HIDE DEF s, t
<1>3. Shortened(s, t, n + 1)
  BY <1>1, <1>2 DEF Shortened
<1>4. SameButOne(s, t)
  BY <1>1, <1>2, <1>3, ShortenedSeq
<1> QED BY <1>4 DEF s, t

LEMMA RenewedSeq ==
  ASSUME NEW L, NEW s \in Seq(EntriesOver(L)), NEW t \in Seq(EntriesOver(L)), NEW r \in 1 .. Len(s),
         NEW v, Renewed(s, t, r, [s[r] EXCEPT !.val = v])
  PROVE  OneRevalued(s, t)
<1> DEFINE x == [s[r] EXCEPT !.val = v]
<1>1. Len(t) = Len(s) /\ \A j \in 1 .. Len(s) : t[j] = IF j = r THEN x ELSE s[j]
  BY DEF Renewed
<1>2. s[r] \in EntriesOver(L)
  OBVIOUS
<1>3. x.val = v
  BY <1>2 DEF EntriesOver
<1>4. t[r] = x /\ t[r].val = v
  BY <1>1, <1>3
<1>5. [s EXCEPT ![r].val = t[r].val] = [s EXCEPT ![r] = x]
  BY Zenon, <1>4
<1> HIDE DEF x
<1>6. t = [s EXCEPT ![r] = x]
  BY <1>1
<1>7. t = [s EXCEPT ![r].val = t[r].val]
  BY Zenon, <1>5, <1>6
<1>8. Len(s) = Len(t) /\ r \in DOMAIN s
  BY <1>1
<1> QED BY Zenon, <1>7, <1>8 DEF OneRevalued

\* The elements of a vector after one more is written to its buffer.
LEMMA OneMoreSeq ==
  ASSUME NEW V, NEW u \in Seq(V), NEW m \in Nat, m <= Len(u), NEW v \in V, NEW ws,
         ws = IF m + 1 \in DOMAIN u THEN [u EXCEPT ![m + 1] = v] ELSE Append(u, v)
  PROVE  SubSeq(ws, 1, m + 1) = Append(SubSeq(u, 1, m), v)
<1> DEFINE s == SubSeq(u, 1, m)
           t == Append(s, v)
           r == SubSeq(ws, 1, m + 1)
<1>1. ws \in Seq(V) /\ m + 1 <= Len(ws)
  BY OneMore
<1>2. ws[m + 1] = v /\ \A i \in 1 .. m : ws[i] = u[i]
  <2>1. CASE m + 1 \in DOMAIN u
    <3>1. ws = [u EXCEPT ![m + 1] = v]
      BY <2>1
    <3> QED BY <2>1, <3>1
  <2>2. CASE m + 1 \notin DOMAIN u
    <3>1. ws = Append(u, v) /\ m = Len(u)
      BY <2>2
    <3> QED BY <3>1
  <2> QED BY <2>1, <2>2
<1>3. s \in Seq(V) /\ Len(s) = m /\ \A i \in 1 .. m : s[i] = u[i]
  BY Prefixes
<1>4. r \in Seq(V) /\ Len(r) = m + 1 /\ \A i \in 1 .. m + 1 : r[i] = ws[i]
  <2>1. m + 1 \in Nat
    OBVIOUS
  <2> QED BY <1>1, <2>1, Prefixes
<1> HIDE DEF s, r
<1>5. t \in Seq(V) /\ Len(t) = m + 1 /\ t[m + 1] = v /\ \A i \in 1 .. m : t[i] = s[i]
  BY <1>3
<1> HIDE DEF t
<1>6. r = t
  BY <1>2, <1>3, <1>4, <1>5
<1> QED BY <1>6 DEF r, t, s

-----------------------------------------------------------------------------
\* Each write of the C functions keeps the contents of the containers, and
\* leaves each buffer to one of them.
Preserved(q, hp) == Keeping(q, hp, DOMAIN hp) /\ Owned(q)

\* A container's buffers are in the heap and no other's.
LEMMA OwnBuffers ==
  ASSUME NEW hp, GoodHeap(hp), Owned(hp), NEW h \in DOMAIN hp
  PROVE  /\ hp[h].buf # Null =>
              /\ hp[h].buf \in DOMAIN hp /\ Kind(hp[h].buf) = "buf"
              /\ \A p \in DOMAIN hp : p # h => hp[p].buf # hp[h].buf /\ hp[p].entries # hp[h].buf
         /\ hp[h].entries # Null =>
              /\ hp[h].entries \in DOMAIN hp /\ Kind(hp[h].entries) = "entries"
              /\ \A p \in DOMAIN hp : p # h => hp[p].buf # hp[h].entries /\ hp[p].entries # hp[h].entries
<1>1. \A p \in DOMAIN hp :
        /\ hp[p].buf # Null => hp[p].buf \in DOMAIN hp /\ Kind(hp[p].buf) = "buf"
        /\ hp[p].entries # Null => hp[p].entries \in DOMAIN hp /\ Kind(hp[p].entries) = "entries"
  BY WordsAre
<1>2. \A p \in DOMAIN hp : p # h =>
        /\ hp[h].buf = hp[p].buf => hp[h].buf = Null
        /\ hp[h].entries = hp[p].entries => hp[h].entries = Null
  BY DEF Owned
<1> QED BY <1>1, <1>2

\* A header, a buffer that no other has, and what the container has then.
LEMMA Writes ==
  ASSUME NEW hp, GoodHeap(hp), Owned(hp), NEW h \in Containers(hp), NEW e \in DOMAIN hp,
         e = h \/ Kind(e) \in {"buf", "entries"},
         NEW q, Others(q, hp, {h, e}), e # h => SameRefs(q[e], hp[e]),
         \A p \in DOMAIN hp : p # h => hp[p].buf # e /\ hp[p].entries # e,
         q[h].buf = hp[h].buf \/ q[h].buf = e, q[h].entries = hp[h].entries \/ q[h].entries = e,
         e = h => q[h].buf # e /\ q[h].entries # e,
         Follows(h, ContentsIn(hp, h), ContentsIn(q, h))
  PROVE  Preserved(q, hp)
<1>1. DOMAIN q = DOMAIN hp /\ \A p \in DOMAIN hp : p \notin {h, e} => q[p] = hp[p]
  BY DEF Others
<1>2. Touched(q, hp, h, e)
  BY <1>1 DEF Touched, Containers
<1>3. Keeping(q, hp, DOMAIN hp)
  BY <1>2, TouchedKeeps
<1>4. \A p \in DOMAIN hp : p # h => SameRefs(q[p], hp[p])
  BY <1>1 DEF SameRefs
<1>5. h \in DOMAIN hp
  BY DEF Containers
<1>6. Owned(q)
  <2>1. q[h].buf = hp[h].buf \/ \A p \in DOMAIN hp : hp[p].buf # q[h].buf
    BY <1>5
  <2>2. q[h].entries = hp[h].entries \/ \A p \in DOMAIN hp : hp[p].entries # q[h].entries
    BY <1>5
  <2> QED BY <1>1, <1>4, <2>1, <2>2, OwnedStill
<1> QED BY <1>3, <1>6 DEF Preserved

LEMMA GrownKeeps ==
  ASSUME NEW hp, GoodHeap(hp), Owned(hp), NEW h \in OfKind("vec", DOMAIN hp),
         NEW x \in OfKind("buf", DOMAIN hp), \A p \in DOMAIN hp : hp[p].buf # x,
         NEW v \in Val(DOMAIN hp), NEW ws, ws = Append(SubSeq(BufWords(hp, h), 1, hp[h].len), v)
  PROVE  Preserved([hp EXCEPT ![x].words = ws, ![h].buf = x, ![h].len = hp[h].len + 1], hp)
<1> DEFINE n == hp[h].len + 1
           q1 == [hp EXCEPT ![x].words = ws]
           q2 == [q1 EXCEPT ![h].buf = x]
           q == [q2 EXCEPT ![h].len = n]
           s == SubSeq(BufWords(hp, h), 1, hp[h].len)
<1>1. /\ h \in DOMAIN hp /\ x \in DOMAIN hp /\ Kind(h) = "vec" /\ Kind(x) = "buf" /\ h # x
      /\ x # Null
  BY NoneIsNone DEF OfKind, GoodHeap
<1>2. s \in Seq(Val(DOMAIN hp)) /\ ws = Append(s, v) /\ Len(ws) = n /\ ws \in Seq(Val(DOMAIN hp))
  <2>1. /\ hp[h].len \in Nat /\ hp[h].len <= Len(BufWords(hp, h))
        /\ BufWords(hp, h) \in Seq(Val(DOMAIN hp))
    BY <1>1, WordsAre
  <2>2. s \in Seq(Val(DOMAIN hp)) /\ Len(s) = hp[h].len
    BY <2>1, Prefixes
  <2> HIDE DEF s
  <2>3. ws = Append(s, v)
    BY DEF s
  <2> QED BY <2>1, <2>2, <2>3
<1>3. [hp EXCEPT ![x].words = ws, ![h].buf = x, ![h].len = n] = q
  BY Zenon
<1> HIDE DEF n, q1, q2, q, s
<1>4. Set(q1, hp, x, hp[x].buf, hp[x].entries, hp[x].len, ws)
  BY Zenon, <1>1, GoodIsHeap, FieldPut DEF q1
<1>5. IsHeap(q1) /\ h \in DOMAIN q1
  BY <1>1, <1>4 DEF Set, Others
<1>6. Set(q2, q1, h, x, q1[h].entries, q1[h].len, q1[h].words)
  BY Zenon, <1>5, FieldPut DEF q2
<1>7. IsHeap(q2) /\ h \in DOMAIN q2
  BY <1>5, <1>6 DEF Set, Others
<1>8. Set(q, q2, h, q2[h].buf, q2[h].entries, n, q2[h].words)
  BY Zenon, <1>7, FieldPut DEF q
<1>9. Others(q, hp, {h, x})
  BY <1>4, <1>6, <1>8 DEF Set, Others
<1>10. /\ q[x].buf = hp[x].buf /\ q[x].entries = hp[x].entries /\ q[x].words = ws
       /\ q[h].buf = x /\ q[h].entries = hp[h].entries /\ q[h].len = n
  BY <1>1, <1>4, <1>6, <1>8 DEF Set, Others, Has
<1>11. ContentsIn(hp, h) = s
  BY Zenon, <1>1 DEF ContentsIn, s
<1>12. ContentsIn(q, h) = ws
  <2>1. ContentsIn(q, h) = SubSeq(ws, 1, n)
    BY Zenon, <1>1, <1>10 DEF ContentsIn, BufWords
  <2> QED BY Zenon, <1>2, <2>1, Whole
<1>13. Follows(h, s, ws)
  BY <1>2, PushedSeq DEF Follows
<1>14. \A p \in DOMAIN hp : hp[p].buf # x /\ hp[p].entries # x
  BY <1>1, WordsAre
<1>15. Preserved(q, hp)
  <2>1. SameRefs(q[x], hp[x]) /\ h \in Containers(hp)
    BY <1>1, <1>10 DEF SameRefs, Containers
  <2>2. Follows(h, ContentsIn(hp, h), ContentsIn(q, h))
    BY Zenon, <1>11, <1>12, <1>13
  <2> QED BY <1>1, <1>9, <1>10, <1>14, <2>1, <2>2, Writes
<1> QED BY Zenon, <1>3, <1>15 DEF n

Extended(u, n, v) == IF n \in DOMAIN u THEN [u EXCEPT ![n] = v] ELSE Append(u, v)
LEMMA AppendedKeeps ==
  ASSUME NEW hp, GoodHeap(hp), Owned(hp), NEW h \in OfKind("vec", DOMAIN hp),
         NEW e, e = hp[h].buf, e # Null, NEW v \in Val(DOMAIN hp),
         NEW n, n = hp[h].len + 1, NEW ws, ws = Extended(hp[e].words, n, v)
  PROVE  Preserved([hp EXCEPT ![h].len = n, ![e].words = ws], hp)
<1> DEFINE m == hp[h].len
           u == hp[e].words
           q1 == [hp EXCEPT ![h].len = n]
           q == [q1 EXCEPT ![e].words = ws]
           s == SubSeq(u, 1, m)
<1>1. /\ h \in DOMAIN hp /\ Kind(h) = "vec" /\ e \in DOMAIN hp /\ Kind(e) = "buf" /\ h # e
      /\ \A p \in DOMAIN hp : p # h => hp[p].buf # e /\ hp[p].entries # e
  BY OwnBuffers DEF OfKind
<1>2. BufWords(hp, h) = u
  BY Zenon DEF BufWords
<1>3. u \in Seq(Val(DOMAIN hp)) /\ m \in Nat /\ m <= Len(u) /\ n = m + 1
  <2>1. /\ hp[h].len \in Nat /\ hp[h].len <= Len(BufWords(hp, h))
        /\ BufWords(hp, h) \in Seq(Val(DOMAIN hp))
    BY <1>1, WordsAre
  <2> HIDE DEF u
  <2> QED BY <1>2, <2>1
<1>4. [hp EXCEPT ![h].len = n, ![e].words = ws] = q
  BY Zenon
<1> HIDE DEF q1, q, u, m
<1>5. Set(q1, hp, h, hp[h].buf, hp[h].entries, n, hp[h].words)
  BY Zenon, <1>1, GoodIsHeap, FieldPut DEF q1
<1>6. IsHeap(q1) /\ e \in DOMAIN q1
  BY <1>1, <1>5 DEF Set, Others
<1>7. Set(q, q1, e, q1[e].buf, q1[e].entries, q1[e].len, ws)
  BY Zenon, <1>6, FieldPut DEF q
<1>8. Others(q, hp, {h, e})
  BY <1>5, <1>7 DEF Set, Others
<1>9. /\ q[e].buf = hp[e].buf /\ q[e].entries = hp[e].entries /\ q[e].words = ws
      /\ q[h].buf = e /\ q[h].entries = hp[h].entries /\ q[h].len = n
  BY <1>1, <1>5, <1>7 DEF Set, Others, Has
<1>10. ContentsIn(hp, h) = s
  BY Zenon, <1>1, <1>2 DEF ContentsIn, m
<1>11. ContentsIn(q, h) = SubSeq(ws, 1, n)
  BY Zenon, <1>1, <1>9 DEF ContentsIn, BufWords
<1>12. s \in Seq(Val(DOMAIN hp)) /\ SubSeq(ws, 1, n) = Append(s, v)
  <2>1. ws = IF m + 1 \in DOMAIN u THEN [u EXCEPT ![m + 1] = v] ELSE Append(u, v)
    BY Zenon, <1>3 DEF u, Extended
  <2>2. SubSeq(ws, 1, m + 1) = Append(SubSeq(u, 1, m), v)
    BY ONLY <1>3, <2>1, v \in Val(DOMAIN hp), OneMoreSeq, Zenon
  <2> QED BY <1>3, <2>2, Prefixes
<1>13. Follows(h, s, Append(s, v))
  BY <1>12, PushedSeq DEF Follows
<1>14. Preserved(q, hp)
  <2>1. SameRefs(q[e], hp[e]) /\ h \in Containers(hp)
    BY <1>1, <1>9 DEF SameRefs, Containers
  <2>2. Follows(h, ContentsIn(hp, h), ContentsIn(q, h))
    BY Zenon, <1>10, <1>11, <1>12, <1>13
  <2> QED BY <1>1, <1>8, <1>9, <2>1, <2>2, Writes
<1> QED BY Zenon, <1>4, <1>14

LEMMA PoppedKeeps ==
  ASSUME NEW hp, GoodHeap(hp), Owned(hp), NEW h \in OfKind("vec", DOMAIN hp),
         NEW n \in Nat, hp[h].len = n + 1
  PROVE  Preserved([hp EXCEPT ![h].len = n], hp)
<1> DEFINE q == [hp EXCEPT ![h].len = n]
           u == BufWords(hp, h)
<1>1. /\ h \in DOMAIN hp /\ Kind(h) = "vec"
      /\ n + 1 <= Len(u) /\ u \in Seq(Val(DOMAIN hp))
  BY WordsAre DEF OfKind
<1> HIDE DEF q, u
<1>2. \A p \in DOMAIN hp : hp[p].buf # h /\ hp[p].entries # h
  <2>1. \A p \in DOMAIN hp :
          /\ hp[p].buf # Null => Kind(hp[p].buf) = "buf"
          /\ hp[p].entries # Null => Kind(hp[p].entries) = "entries"
    BY WordsAre
  <2>2. h # Null
    BY <1>1, NoneIsNone DEF GoodHeap
  <2> QED BY <1>1, <2>1, <2>2
<1>3. hp[h].buf # h /\ hp[h].entries # h
  BY <1>1, <1>2
<1>4. Set(q, hp, h, hp[h].buf, hp[h].entries, n, hp[h].words)
  BY Zenon, <1>1, GoodIsHeap, FieldPut DEF q
<1>5. Others(q, hp, {h, h}) /\ q[h].buf = hp[h].buf /\ q[h].entries = hp[h].entries /\ q[h].len = n
  BY <1>4 DEF Set, Others, Has
<1>6. ContentsIn(hp, h) = SubSeq(u, 1, n + 1)
  BY Zenon, <1>1 DEF ContentsIn, u
<1>7. ContentsIn(q, h) = SubSeq(u, 1, n)
  <2>1. hp[h].buf # Null => hp[h].buf \in DOMAIN hp
    BY <1>1, WordsAre
  <2>2. hp[h].buf # Null => q[hp[h].buf] = hp[hp[h].buf]
    BY <1>3, <1>5, <2>1 DEF Others
  <2>3. BufWords(q, h) = u
    BY Zenon, <1>5, <2>2 DEF BufWords, u
  <2> QED BY Zenon, <1>1, <1>5, <2>3 DEF ContentsIn
<1>8. Follows(h, SubSeq(u, 1, n + 1), SubSeq(u, 1, n))
  BY <1>1, PoppedSeq DEF Follows
<1>9. Preserved(q, hp)
  <2>1. Follows(h, ContentsIn(hp, h), ContentsIn(q, h))
    BY Zenon, <1>6, <1>7, <1>8
  <2>2. h \in Containers(hp)
    BY <1>1 DEF Containers
  <2>3. \A p \in DOMAIN hp : p # h => hp[p].buf # h /\ hp[p].entries # h
    BY <1>2
  <2>4. /\ q[h].buf = hp[h].buf \/ q[h].buf = h
        /\ q[h].entries = hp[h].entries \/ q[h].entries = h
        /\ h = h => q[h].buf # h /\ q[h].entries # h
    BY <1>3, <1>5
  <2>5. h \in DOMAIN hp /\ Others(q, hp, {h, h})
    BY <1>1, <1>5
  <2> QED BY ONLY GoodHeap(hp), Owned(hp), <2>1, <2>2, <2>3, <2>4, <2>5, Writes
<1> QED BY Zenon, <1>9 DEF q

LEMMA IndexedKeeps ==
  ASSUME NEW hp, GoodHeap(hp), Owned(hp), NEW h \in OfKind("map", DOMAIN hp), NEW x
  PROVE  Preserved([hp EXCEPT ![h].index = x], hp)
<1> DEFINE q == [hp EXCEPT ![h].index = x]
<1>1. h \in DOMAIN hp /\ Kind(h) = "map"
  BY DEF OfKind
<1>2. \A p \in DOMAIN hp : hp[p].buf # h /\ hp[p].entries # h
  BY <1>1, WordsAre, NoneIsNone DEF GoodHeap
<1> HIDE DEF q
<1>3. Set(q, hp, h, hp[h].buf, hp[h].entries, hp[h].len, hp[h].words)
  BY Zenon, <1>1, GoodIsHeap, FieldPut DEF q
<1>4. Others(q, hp, {h, h}) /\ q[h].buf = hp[h].buf /\ q[h].entries = hp[h].entries
  BY <1>3 DEF Set, Others, Has
<1>5. hp[h].entries # Null => q[hp[h].entries] = hp[hp[h].entries]
  <2>1. hp[h].entries # Null => hp[h].entries \in DOMAIN hp
    BY <1>1, WordsAre
  <2> QED BY <1>1, <1>2, <1>4, <2>1 DEF Others
<1>6. ContentsIn(q, h) = ContentsIn(hp, h)
  <2>1. EntriesIn(q, h) = EntriesIn(hp, h)
    BY Zenon, <1>4, <1>5 DEF EntriesIn
  <2> QED BY <1>1, <2>1 DEF ContentsIn
<1>7. Follows(h, ContentsIn(hp, h), ContentsIn(q, h)) /\ h \in Containers(hp)
  BY <1>1, <1>6, SameFollows DEF Containers
<1>8. Preserved(q, hp)
  BY <1>1, <1>2, <1>4, <1>7, Writes
<1> QED BY Zenon, <1>8 DEF q

\* An entry that is given another value, and one that is deleted.
LEMMA ChangedSeq ==
  ASSUME NEW L, NEW ws \in Seq(EntriesOver(L)), NEW i \in DOMAIN ws, ws[i].live, NEW v \in Val(L)
  PROVE  /\ OneRevalued(Kept(ws), Kept([ws EXCEPT ![i].val = v]))
         /\ SameButOne(Kept(ws), Kept([ws EXCEPT ![i].live = FALSE]))
<1> DEFINE E == EntriesOver(L)
           y == [ws[i] EXCEPT !.val = v]
           z == [ws[i] EXCEPT !.live = FALSE]
           fs == [ws EXCEPT ![i] = y]
           gs == [ws EXCEPT ![i] = z]
<1>1. [ws EXCEPT ![i].val = v] = fs /\ [ws EXCEPT ![i].live = FALSE] = gs
  BY Zenon
<1>2. ws \in Seq(E) /\ i \in 1 .. Len(ws) /\ ws[i].live /\ ws[i] \in E
  OBVIOUS
<1>3. y \in E /\ z \in E /\ y.live /\ ~z.live
  BY <1>2 DEF EntriesOver
<1> HIDE DEF E, y, z
<1>4. /\ fs \in Seq(E) /\ Len(fs) = Len(ws) /\ fs[i] = y
      /\ \A j \in 1 .. Len(ws) : j # i => fs[j] = ws[j]
  BY <1>2, <1>3
<1>5. /\ gs \in Seq(E) /\ Len(gs) = Len(ws) /\ gs[i] = z
      /\ \A j \in 1 .. Len(ws) : j # i => gs[j] = ws[j]
  BY <1>2, <1>3
<1> HIDE DEF fs, gs
<1>6. Kept(ws) \in Seq(E) /\ Kept(fs) \in Seq(E) /\ Kept(gs) \in Seq(E)
  BY <1>2, <1>4, <1>5, KeptTwice
<1>7. OneRevalued(Kept(ws), Kept(fs))
  <2>1. PICK r \in 1 .. Len(Kept(ws)) :
          Kept(ws)[r] = ws[i] /\ (fs[i].live => Renewed(Kept(ws), Kept(fs), r, fs[i]))
    BY ONLY <1>2, <1>4, LiveOfChange, Zenon
  <2>2. Renewed(Kept(ws), Kept(fs), r, [Kept(ws)[r] EXCEPT !.val = v])
    BY Zenon, <1>3, <1>4, <2>1 DEF y
  <2> QED BY ONLY <1>6, <2>2, r \in 1 .. Len(Kept(ws)), RenewedSeq, Zenon DEF E
<1>8. SameButOne(Kept(ws), Kept(gs))
  <2>1. PICK r \in 1 .. Len(Kept(ws)) : ~gs[i].live => Shortened(Kept(ws), Kept(gs), r)
    BY ONLY <1>2, <1>5, LiveOfChange, Zenon
  <2>2. Shortened(Kept(ws), Kept(gs), r)
    BY Zenon, <1>3, <1>5, <2>1
  <2> QED BY ONLY <1>6, <2>2, r \in 1 .. Len(Kept(ws)), ShortenedSeq, Zenon
<1> QED BY Zenon, <1>1, <1>7, <1>8

\* Other entries in the buffer of a map.
LEMMA EntriesKeeps ==
  ASSUME NEW hp, GoodHeap(hp), Owned(hp), NEW h \in OfKind("map", DOMAIN hp),
         NEW e, e = hp[h].entries, e # Null, NEW ws, Follows(h, Kept(hp[e].words), Kept(ws))
  PROVE  Preserved([hp EXCEPT ![e].words = ws], hp)
<1> DEFINE q == [hp EXCEPT ![e].words = ws]
<1>1. /\ h \in DOMAIN hp /\ Kind(h) = "map" /\ e \in DOMAIN hp /\ Kind(e) = "entries" /\ h # e
      /\ \A p \in DOMAIN hp : p # h => hp[p].buf # e /\ hp[p].entries # e
  BY OwnBuffers DEF OfKind
<1> HIDE DEF q
<1>2. Set(q, hp, e, hp[e].buf, hp[e].entries, hp[e].len, ws)
  BY Zenon, <1>1, GoodIsHeap, FieldPut DEF q
<1>3. /\ Others(q, hp, {h, e}) /\ q[h] = hp[h] /\ q[e].words = ws
      /\ SameRefs(q[e], hp[e])
  BY <1>1, <1>2 DEF Set, Others, Has, SameRefs
<1>4. ContentsIn(hp, h) = Kept(hp[e].words)
  BY <1>1 DEF ContentsIn, EntriesIn
<1>5. ContentsIn(q, h) = Kept(ws)
  BY <1>1, <1>3 DEF ContentsIn, EntriesIn
<1>6. Preserved(q, hp)
  <2>1. Follows(h, ContentsIn(hp, h), ContentsIn(q, h))
    BY Zenon, <1>4, <1>5
  <2>2. h \in Containers(hp)
    BY <1>1 DEF Containers
  <2> QED BY <1>1, <1>3, <2>1, <2>2, Writes
<1> QED BY Zenon, <1>6 DEF q

\* Another buffer of entries.
LEMMA RehashedKeeps ==
  ASSUME NEW hp, GoodHeap(hp), Owned(hp), NEW h \in OfKind("map", DOMAIN hp),
         NEW x \in OfKind("entries", DOMAIN hp), \A p \in DOMAIN hp : hp[p].entries # x,
         NEW ws, Follows(h, Kept(EntriesIn(hp, h)), Kept(ws))
  PROVE  Preserved([hp EXCEPT ![x].words = ws, ![h].entries = x], hp)
<1> DEFINE q1 == [hp EXCEPT ![x].words = ws]
           q == [q1 EXCEPT ![h].entries = x]
<1>1. /\ h \in DOMAIN hp /\ x \in DOMAIN hp /\ Kind(h) = "map" /\ Kind(x) = "entries" /\ h # x
      /\ x # Null /\ \A p \in DOMAIN hp : hp[p].buf # x
  BY WordsAre, NoneIsNone DEF OfKind, GoodHeap
<1>2. [hp EXCEPT ![x].words = ws, ![h].entries = x] = q
  BY Zenon
<1> HIDE DEF q1, q
<1>3. Set(q1, hp, x, hp[x].buf, hp[x].entries, hp[x].len, ws)
  BY Zenon, <1>1, GoodIsHeap, FieldPut DEF q1
<1>4. IsHeap(q1) /\ h \in DOMAIN q1
  BY <1>1, <1>3 DEF Set, Others
<1>5. Set(q, q1, h, q1[h].buf, x, q1[h].len, q1[h].words)
  BY Zenon, <1>4, FieldPut DEF q
<1>6. Others(q, hp, {h, x})
  BY <1>3, <1>5 DEF Set, Others
<1>7. /\ SameRefs(q[x], hp[x]) /\ q[x].words = ws /\ q[h].buf = hp[h].buf /\ q[h].entries = x
  BY <1>1, <1>3, <1>5 DEF Set, Others, Has, SameRefs
<1>8. ContentsIn(hp, h) = Kept(EntriesIn(hp, h))
  BY <1>1 DEF ContentsIn
<1>9. ContentsIn(q, h) = Kept(ws)
  BY <1>1, <1>7 DEF ContentsIn, EntriesIn
<1>10. Preserved(q, hp)
  <2>1. Follows(h, ContentsIn(hp, h), ContentsIn(q, h))
    BY Zenon, <1>8, <1>9
  <2>2. h \in Containers(hp)
    BY <1>1 DEF Containers
  <2> QED BY <1>1, <1>6, <1>7, <2>1, <2>2, Writes
<1> QED BY Zenon, <1>2, <1>10

-----------------------------------------------------------------------------
\* Each step keeps the contents of the containers it can reach, and the buffers
\* with their owners.
EachOwned == Owned(heap)

LEMMA PreservedStep ==
  ASSUME GoodHeap(heap), NEW q, heap' = q, Preserved(q, heap)
  PROVE  StepKeeps /\ EachOwned'
<1>1. Keeping(heap', heap, DOMAIN heap) /\ Owned(heap')
  BY Zenon DEF Preserved
<1>2. StepKeeps
  BY Zenon, <1>1, KeepsAll
<1> QED BY <1>1, <1>2 DEF EachOwned

LEMMA SamePreserved == ASSUME NEW hp, Owned(hp) PROVE Preserved(hp, hp)
BY SameFollows DEF Preserved, Keeping

LEMMA StillKeeps ==
  ASSUME GoodHeap(heap), EachOwned, UNCHANGED heap
  PROVE  StepKeeps /\ EachOwned'
<1>1. heap' = heap /\ Preserved(heap, heap)
  BY SamePreserved DEF EachOwned
<1> QED BY <1>1, PreservedStep

\* Allocations.
LEMMA AllocKeeps ==
  ASSUME GoodHeap(heap), EachOwned, NEW kind \in DOMAIN MaxObjs,
         NEW kept \in Survivors, NEW o \in Fresh(kind, kept), Alloc(o, kept)
  PROVE  StepKeeps /\ EachOwned'
<1>1. heap' = AllocIn(o, kept)
  BY DEF Alloc, AllocIn
<1>2. Allocated(heap', o, kept)
  <2>1. Allocated(AllocIn(o, kept), o, kept)
    BY AllocGood
  <2> QED BY Zenon, <1>1, <2>1
<1>3. kept \subseteq DOMAIN heap
  BY SurvivorsClosed DEF Live
<1>4. PICK q : q = heap'
  OBVIOUS
<1>5. Allocated(q, o, kept)
  BY Zenon, <1>2, <1>4
<1>6. Owned(q) /\ Keeping(q, heap, Reached)
  BY <1>3, <1>5, OwnedAllocated, AllocatedKeeps DEF EachOwned
<1>7. Owned(heap') /\ Keeping(heap', heap, Reached)
  BY Zenon, <1>4, <1>6
<1>8. StepKeeps
  BY Zenon, <1>7, KeepsAll
<1> QED BY <1>7, <1>8 DEF EachOwned

LEMMA AllocStepKeeps ==
  ASSUME RtInv, EachOwned, NEW fn, NEW from, NEW kind, NEW to, <<fn, from, kind, to>> \in AllocPoints,
         AllocStep(fn, from, kind, to)
  PROVE  StepKeeps /\ EachOwned'
<1>1. PICK kept \in Survivors : \E o \in Fresh(kind, kept) : Alloc(o, kept) /\ Got(o, to)
  BY DEF AllocStep
<1>2. PICK o \in Fresh(kind, kept) : Alloc(o, kept)
  BY <1>1
<1>3. depth > 0
  BY DEF AllocStep, At
<1> QED BY <1>2, <1>3, TopHolds, AllocKinds, AllocKeeps

LEMMA NewKeeps ==
  ASSUME RtInv, EachOwned, NEW t \in Temps, NEW kind \in Kinds, New(t, kind)
  PROVE  StepKeeps /\ EachOwned'
<1>1. PICK kept \in Survivors : \E o \in Fresh(kind, kept) : Alloc(o, kept)
  BY DEF New
<1>2. PICK o \in Fresh(kind, kept) : Alloc(o, kept)
  BY <1>1
<1>3. GoodHeap(heap)
  BY IdleIs DEF New
<1>4. kind \in DOMAIN MaxObjs
  BY KindsAssumption, MaxObjsAssumption
<1> QED BY <1>2, <1>3, <1>4, AllocKeeps

\* Vectors.
LEMMA VecGrownKeeps == ASSUME RtInv, EachOwned, VecGrown PROVE StepKeeps /\ EachOwned'
<1> DEFINE ws == Append(Elems(top.h), top.v)
           q == [heap EXCEPT ![top.x].words = ws, ![top.h].buf = top.x, ![top.h].len = heap[top.h].len + 1]
<1>1. top.fn = "vec_push" /\ top.at = "grown" /\ depth > 0
  BY DEF VecGrown, At
<1>2. heap' = q
  BY DEF VecGrown
<1>3. /\ top.h \in OfKind("vec", DOMAIN heap) /\ top.x \in OfKind("buf", DOMAIN heap)
      /\ \A p \in DOMAIN heap : heap[p].buf # top.x
  BY <1>1, TopHolds DEF HoldsWhat, AtIn
<1>4. GoodHeap(heap) /\ top.v \in Val(DOMAIN heap)
  BY <1>1, TopHolds
<1>5. ws = Append(SubSeq(BufWords(heap, top.h), 1, heap[top.h].len), top.v)
  BY Zenon DEF Elems, WordsOf, BufWords
<1> HIDE DEF ws
<1>6. Preserved(q, heap)
  BY Zenon, <1>3, <1>4, <1>5, GrownKeeps DEF EachOwned
<1> HIDE DEF q
<1> QED BY <1>2, <1>4, <1>6, PreservedStep

LEMMA VecAppendKeeps == ASSUME RtInv, EachOwned, VecAppend PROVE StepKeeps /\ EachOwned'
<1> DEFINE h == top.h
           e == heap[h].buf
           n == heap[h].len + 1
           ws == IF n \in DOMAIN heap[e].words THEN [heap[e].words EXCEPT ![n] = top.v]
                 ELSE Append(heap[e].words, top.v)
           q == [heap EXCEPT ![h].len = n, ![e].words = ws]
<1>1. top.fn = "vec_push" /\ depth > 0 /\ e # Null
  BY DEF VecAppend, At
<1>2. heap' = q
  BY DEF VecAppend
<1>3. h \in OfKind("vec", DOMAIN heap) /\ GoodHeap(heap) /\ top.v \in Val(DOMAIN heap)
  BY <1>1, TopHolds DEF HoldsWhat
<1>4. PICK e1, n1, ws1 : e1 = e /\ n1 = n /\ ws1 = ws
  OBVIOUS
<1>5. ws1 = Extended(heap[e1].words, n1, top.v)
  BY Zenon, <1>4 DEF Extended
<1>6. e1 = heap[h].buf /\ e1 # Null /\ n1 = heap[h].len + 1
  BY Zenon, <1>1, <1>4
<1>7. q = [heap EXCEPT ![h].len = n1, ![e1].words = ws1]
  BY Zenon, <1>4
<1> HIDE DEF e, n, ws, q, h
<1>8. Preserved([heap EXCEPT ![h].len = n1, ![e1].words = ws1], heap)
  <2>1. Owned(heap)
    BY DEF EachOwned
  <2>2. PICK v : v = top.v
    OBVIOUS
  <2>3. /\ h \in OfKind("vec", DOMAIN heap) /\ GoodHeap(heap) /\ v \in Val(DOMAIN heap)
        /\ ws1 = Extended(heap[e1].words, n1, v)
    BY Zenon, <1>3, <1>5, <2>2
  <2> QED BY ONLY <1>6, <2>1, <2>3, AppendedKeeps, Zenon
<1>9. Preserved(q, heap)
  BY Zenon, <1>7, <1>8
<1> QED BY <1>2, <1>3, <1>9, PreservedStep

LEMMA PopKeeps ==
  ASSUME RtInv, EachOwned, NEW t \in Temps, NEW d, cl_vec_pop(t, d)
  PROVE  StepKeeps /\ EachOwned'
<1> DEFINE h == temps[t]
           n == heap[h].len - 1
           q == [heap EXCEPT ![h].len = n]
<1>1. Idle /\ IsA(h, "vec") /\ heap[h].len > 0 /\ heap' = q
  BY DEF cl_vec_pop
<1>2. h \in OfKind("vec", DOMAIN heap) /\ GoodHeap(heap)
  BY <1>1, IdleIs, IsLive
<1>3. heap[h].len \in Nat
  BY <1>2, WordsAre DEF OfKind
<1>4. n \in Nat /\ heap[h].len = n + 1
  BY <1>1, <1>3
<1> HIDE DEF n, h
<1>5. Preserved(q, heap)
  BY Zenon, <1>2, <1>4, PoppedKeeps DEF EachOwned
<1> HIDE DEF q
<1> QED BY <1>1, <1>2, <1>5, PreservedStep

\* Maps. An entry of a map, and the buffer it is in.
LEMMA EntryIn ==
  ASSUME GoodHeap(heap), NEW h \in OfKind("map", DOMAIN heap), NEW e, e = heap[h].entries,
         NEW i \in DOMAIN Entries(h)
  PROVE  /\ e # Null /\ heap[e].words = Entries(h)
         /\ Entries(h) \in Seq(EntriesOver(DOMAIN heap))
<1>1. e # Null
  <2>1. ~ \E y : y \in DOMAIN << >>
    OBVIOUS
  <2>2. e = Null => Entries(h) = << >>
    BY Zenon DEF Entries, WordsOf
  <2> QED BY Zenon, <2>1, <2>2
<1>2. Entries(h) \in Seq(EntriesOver(DOMAIN heap))
  BY Zenon, EntriesAre
<1>3. heap[e].words = Entries(h)
  BY Zenon, <1>1, EntriesAre
<1> QED BY Zenon, <1>1, <1>2, <1>3

Rewritten(u, ws, i, v) == u = [ws EXCEPT ![i].val = v] \/ u = [ws EXCEPT ![i].live = FALSE]
LEMMA EntryKeeps ==
  ASSUME GoodHeap(heap), EachOwned, NEW h \in OfKind("map", DOMAIN heap), NEW e, e = heap[h].entries,
         NEW i \in DOMAIN Entries(h), Entries(h)[i].live, NEW v \in Val(DOMAIN heap),
         NEW u, Rewritten(u, heap[e].words, i, v),
         heap' = [heap EXCEPT ![e].words = u]
  PROVE  StepKeeps /\ EachOwned'
<1>1. /\ e # Null /\ heap[e].words = Entries(h)
      /\ Entries(h) \in Seq(EntriesOver(DOMAIN heap))
  BY Zenon, EntryIn
<1>2. PICK ws : ws = heap[e].words
  OBVIOUS
<1>3. ws \in Seq(EntriesOver(DOMAIN heap)) /\ i \in DOMAIN ws /\ ws[i].live
  BY Zenon, <1>1, <1>2
<1>4. /\ OneRevalued(Kept(ws), Kept([ws EXCEPT ![i].val = v]))
      /\ SameButOne(Kept(ws), Kept([ws EXCEPT ![i].live = FALSE]))
  BY ONLY <1>3, v \in Val(DOMAIN heap), ChangedSeq, Zenon
<1>5. u = [ws EXCEPT ![i].val = v] \/ u = [ws EXCEPT ![i].live = FALSE]
  BY Zenon, <1>2 DEF Rewritten
<1>6. Kind(h) = "map"
  BY DEF OfKind
<1>7. Follows(h, Kept(ws), Kept(u))
  BY Zenon, <1>4, <1>5, <1>6 DEF Follows
<1>8. Follows(h, Kept(heap[e].words), Kept(u))
  BY Zenon, <1>2, <1>7
<1>9. Owned(heap)
  BY DEF EachOwned
<1>10. Preserved([heap EXCEPT ![e].words = u], heap)
  BY Zenon, <1>1, <1>8, <1>9, EntriesKeeps
<1> QED BY Zenon, <1>10, PreservedStep

LEMMA MapUpdateKeeps ==
  ASSUME RtInv, EachOwned, NEW i, MapUpdate(i)
  PROVE  StepKeeps /\ EachOwned'
<1> DEFINE h == top.h
           e == heap[h].entries
           u == [heap[e].words EXCEPT ![i].val = top.v]
<1>1. /\ top.fn = "map_set" /\ depth > 0 /\ i \in DOMAIN Entries(h) /\ Entries(h)[i].live
      /\ heap' = [heap EXCEPT ![e].words[i].val = top.v]
  BY DEF MapUpdate, At
<1>2. h \in OfKind("map", DOMAIN heap) /\ GoodHeap(heap) /\ top.v \in Val(DOMAIN heap)
  BY <1>1, TopHolds DEF HoldsWhat
<1>3. heap' = [heap EXCEPT ![e].words = u] /\ Rewritten(u, heap[e].words, i, top.v)
  BY Zenon, <1>1 DEF Rewritten
<1>4. PICK e1, u1, v : e1 = e /\ u1 = u /\ v = top.v
  OBVIOUS
<1> HIDE DEF h, e, u
<1>5. e1 = heap[h].entries /\ i \in DOMAIN Entries(h) /\ Entries(h)[i].live /\ v \in Val(DOMAIN heap)
  BY Zenon, <1>1, <1>2, <1>4 DEF e
<1>6. heap' = [heap EXCEPT ![e1].words = u1] /\ Rewritten(u1, heap[e1].words, i, v)
  BY Zenon, <1>3, <1>4
<1> QED BY Zenon, <1>2, <1>5, <1>6, EntryKeeps

LEMMA DelKeeps ==
  ASSUME RtInv, EachOwned, NEW t \in Temps, NEW i, cl_map_del(t, i)
  PROVE  StepKeeps /\ EachOwned'
<1> DEFINE h == temps[t]
           e == heap[h].entries
           u == [heap[e].words EXCEPT ![i].live = FALSE]
<1>1. /\ Idle /\ IsA(h, "map") /\ i \in DOMAIN Entries(h) /\ Entries(h)[i].live
      /\ heap' = [heap EXCEPT ![e].words[i].live = FALSE]
  BY DEF cl_map_del
<1>2. h \in OfKind("map", DOMAIN heap) /\ GoodHeap(heap) /\ Null \in Val(DOMAIN heap)
  BY <1>1, IdleIs, IsLive DEF Val
<1>3. heap' = [heap EXCEPT ![e].words = u] /\ Rewritten(u, heap[e].words, i, Null)
  BY Zenon, <1>1 DEF Rewritten
<1>4. PICK e1, u1 : e1 = e /\ u1 = u
  OBVIOUS
<1> HIDE DEF h, e, u
<1>5. e1 = heap[h].entries /\ i \in DOMAIN Entries(h) /\ Entries(h)[i].live
  BY Zenon, <1>1, <1>4 DEF e
<1>6. heap' = [heap EXCEPT ![e1].words = u1] /\ Rewritten(u1, heap[e1].words, i, Null)
  BY Zenon, <1>3, <1>4
<1> QED BY Zenon, <1>2, <1>5, <1>6, EntryKeeps

LEMMA MapAppendKeeps == ASSUME RtInv, EachOwned, MapAppend PROVE StepKeeps /\ EachOwned'
<1> DEFINE h == top.h
           x == Entry(top.k, top.v)
<1>1. PICK e, u : e = heap[h].entries /\ u = Append(heap[e].words, x)
  OBVIOUS
<1>2. top.fn = "map_set" /\ depth > 0 /\ heap' = [heap EXCEPT ![e].words = u]
  <2>1. top.fn = "map_set" /\ depth > 0
        /\ heap' = [heap EXCEPT ![heap[h].entries].words = Append(heap[heap[h].entries].words, x)]
    BY DEF MapAppend, At
  <2> QED BY Zenon, <1>1, <2>1
<1>3. /\ h \in OfKind("map", DOMAIN heap) /\ GoodHeap(heap)
      /\ top.k \in Val(DOMAIN heap) /\ top.v \in Val(DOMAIN heap)
  BY <1>2, TopHolds DEF HoldsWhat
<1>4. x \in EntriesOver(DOMAIN heap) /\ x.live
  BY <1>3 DEF Entry, EntriesOver
<1>5. Owned(heap)
  BY DEF EachOwned
<1> HIDE DEF h, x
<1>6. CASE e = Null
  <2>1. e \notin DOMAIN heap
    BY <1>3, <1>6, NoneIsNone DEF GoodHeap
  <2>2. heap = [p \in DOMAIN heap |-> heap[p]]
    BY <1>3 DEF GoodHeap
  <2>3. heap' = heap
    BY <1>2, <2>1, <2>2
  <2> QED BY <1>3, <2>3, StillKeeps
<1>7. CASE e # Null
  <2>1. heap[e].words \in Seq(EntriesOver(DOMAIN heap))
    <3>1. Entries(h) \in Seq(EntriesOver(DOMAIN heap))
      BY Zenon, <1>3, EntriesAre
    <3>2. Entries(h) = heap[e].words
      BY Zenon, <1>1, <1>3, <1>7, EntriesAre
    <3> QED BY Zenon, <3>1, <3>2
  <2>2. PICK ws : ws = heap[e].words
    OBVIOUS
  <2>3. ws \in Seq(EntriesOver(DOMAIN heap)) /\ u = Append(ws, x)
    BY Zenon, <1>1, <2>1, <2>2
  <2>4. Kept(u) = Append(Kept(ws), x)
    <3>1. Kept(Append(ws, x)) = Append(Kept(ws), x)
      BY ONLY <1>4, <2>3, LiveOfAppend, Zenon
    <3> QED BY Zenon, <2>3, <3>1
  <2>5. SameButOne(Kept(ws), Kept(u))
    <3>1. Kept(ws) \in Seq(EntriesOver(DOMAIN heap))
      BY <2>3, KeptAre
    <3>2. SameButOne(Kept(ws), Append(Kept(ws), x))
      BY ONLY <1>4, <3>1, PushedSeq, Zenon
    <3> QED BY Zenon, <2>4, <3>2
  <2>6. Follows(h, Kept(heap[e].words), Kept(u))
    BY Zenon, <2>2, <2>5 DEF Follows
  <2>7. Preserved([heap EXCEPT ![e].words = u], heap)
    BY Zenon, <1>1, <1>3, <1>5, <1>7, <2>6, EntriesKeeps
  <2> QED BY Zenon, <1>2, <1>3, <2>7, PreservedStep
<1> QED BY <1>6, <1>7

LEMMA RehashKeeps ==
  ASSUME RtInv, EachOwned, At("map_set", "compact") \/ At("map_set", "regrown"),
         NEW u, u = Kept(Entries(top.h)) \/ u = Entries(top.h),
         heap' = [heap EXCEPT ![top.x].words = u, ![top.h].entries = top.x]
  PROVE  StepKeeps /\ EachOwned'
<1> DEFINE h == top.h
           x == top.x
<1>1. top.fn = "map_set" /\ depth > 0 /\ AtIn(top, "map_set", {"compact", "regrown"})
  BY DEF At, AtIn
<1>2. /\ h \in OfKind("map", DOMAIN heap) /\ GoodHeap(heap)
      /\ x \in OfKind("entries", DOMAIN heap) /\ \A p \in DOMAIN heap : heap[p].entries # x
  BY <1>1, TopHolds DEF HoldsWhat
<1>3. heap' = [heap EXCEPT ![x].words = u, ![h].entries = x]
  OBVIOUS
<1>4. u = Kept(Entries(h)) \/ u = Entries(h)
  OBVIOUS
<1> HIDE DEF h, x
<1>5. Kept(u) = Kept(Entries(h))
  <2>1. Entries(h) \in Seq(EntriesOver(DOMAIN heap))
    BY <1>2, EntriesAre
  <2>2. Kept(Kept(Entries(h))) = Kept(Entries(h))
    BY ONLY <2>1, KeptTwice, Zenon
  <2> QED BY Zenon, <1>4, <2>2
<1>6. Entries(h) = EntriesIn(heap, h)
  BY Zenon DEF Entries, EntriesIn, WordsOf
<1>7. Follows(h, Kept(EntriesIn(heap, h)), Kept(u))
  <2>1. Kept(u) = Kept(EntriesIn(heap, h))
    BY Zenon, <1>5, <1>6
  <2> QED BY <2>1, SameFollows
<1>8. Owned(heap)
  BY DEF EachOwned
<1>9. Preserved([heap EXCEPT ![x].words = u, ![h].entries = x], heap)
  BY ONLY <1>2, <1>7, <1>8, RehashedKeeps, Zenon
<1> QED BY Zenon, <1>2, <1>3, <1>9, PreservedStep

LEMMA MapCompactKeeps == ASSUME RtInv, EachOwned, MapCompact PROVE StepKeeps /\ EachOwned'
<1>1. PICK u : u = Kept(Entries(top.h))
  OBVIOUS
<1>2. /\ At("map_set", "compact")
      /\ heap' = [heap EXCEPT ![top.x].words = Kept(Entries(top.h)), ![top.h].entries = top.x]
  BY DEF MapCompact
<1>3. heap' = [heap EXCEPT ![top.x].words = u, ![top.h].entries = top.x]
  BY Zenon, <1>1, <1>2
<1> QED BY Zenon, <1>1, <1>2, <1>3, RehashKeeps

LEMMA MapRegrownKeeps == ASSUME RtInv, EachOwned, MapRegrown PROVE StepKeeps /\ EachOwned'
<1>1. PICK u : u = Entries(top.h)
  OBVIOUS
<1>2. /\ At("map_set", "regrown")
      /\ heap' = [heap EXCEPT ![top.x].words = Entries(top.h), ![top.h].entries = top.x]
  BY DEF MapRegrown
<1>3. heap' = [heap EXCEPT ![top.x].words = u, ![top.h].entries = top.x]
  BY Zenon, <1>1, <1>2
<1> QED BY Zenon, <1>1, <1>2, <1>3, RehashKeeps

LEMMA MapIndexedKeeps == ASSUME RtInv, EachOwned, MapIndexed PROVE StepKeeps /\ EachOwned'
<1> DEFINE h == top.h
           x == top.x
<1>1. top.fn = "map_set" /\ depth > 0 /\ heap' = [heap EXCEPT ![h].index = x]
  BY DEF MapIndexed, At
<1>2. h \in OfKind("map", DOMAIN heap) /\ GoodHeap(heap) /\ Owned(heap)
  BY <1>1, TopHolds DEF HoldsWhat, EachOwned
<1> HIDE DEF h, x
<1>3. Preserved([heap EXCEPT ![h].index = x], heap)
  BY ONLY <1>2, IndexedKeeps, Zenon
<1> QED BY Zenon, <1>1, <1>2, <1>3, PreservedStep

-----------------------------------------------------------------------------
\* The steps that leave the heap as it is.
LEMMA GoodNow == ASSUME RtInv PROVE GoodHeap(heap)
BY DEF RtInv, Good, GoodMemory

LEMMA StepKeepsAll ==
  ASSUME RtInv, EachOwned, Next
  PROVE  StepKeeps /\ EachOwned'
<1>1. GoodHeap(heap)
  BY GoodNow
<1>2. ASSUME UNCHANGED heap PROVE StepKeeps /\ EachOwned'
  BY <1>1, <1>2, StillKeeps
<1>3. CASE Vectors
  <2>1. CASE VecGrow
    BY <2>1, AllocStepKeeps DEF VecGrow, AllocPoints
  <2> QED BY <1>3, <2>1, VecGrownKeeps, VecAppendKeeps DEF Vectors
<1>4. CASE Maps
  <2>1. CASE MapRehash
    BY <2>1, AllocStepKeeps DEF MapRehash, AllocPoints
  <2>2. CASE MapReindex
    BY <2>2, AllocStepKeeps DEF MapReindex, AllocPoints
  <2>3. CASE MapRegrow
    BY <2>3, AllocStepKeeps DEF MapRegrow, AllocPoints
  <2>4. CASE MapNoRehash
    BY <1>2, <2>4 DEF MapNoRehash
  <2> QED BY <1>4, <2>1, <2>2, <2>3, <2>4, MapUpdateKeeps, MapCompactKeeps, MapIndexedKeeps,
             MapRegrownKeeps, MapAppendKeeps DEF Maps
<1>5. CASE MapKeys
  <2>1. CASE KeysNew
    BY <2>1, AllocStepKeeps DEF KeysNew, AllocPoints
  <2>2. CASE KeysRoot \/ KeysDone \/ KeysPush
    BY <1>2, <2>2 DEF KeysRoot, KeysDone, KeysPush
  <2> QED BY <1>5, <2>1, <2>2 DEF MapKeys
<1>6. CASE Literals
  <2>1. CASE InternNew
    BY <2>1, AllocStepKeeps DEF InternNew, AllocPoints
  <2>2. CASE LiteralMiss
    BY <2>2, AllocStepKeeps DEF LiteralMiss, AllocPoints
  <2>3. CASE InternPin \/ LiteralSet \/ LiteralDone
    BY <1>2, <2>3 DEF InternPin, LiteralSet, LiteralDone
  <2>4. CASE \E i \in 1 .. Cardinality(Lits) : LiteralHit(i)
    BY <1>2, <2>4 DEF LiteralHit
  <2> QED BY <1>6, <2>1, <2>2, <2>3, <2>4 DEF Literals
<1>7. CASE Arguments
  <2>1. CASE ArgsNew
    BY <2>1, AllocStepKeeps DEF ArgsNew, AllocPoints
  <2>2. CASE ArgsNext
    BY <2>2, AllocStepKeeps DEF ArgsNext, AllocPoints
  <2>3. CASE ArgsRoot \/ ArgsPush \/ ArgsPushed \/ ArgsDone
    BY <1>2, <2>3 DEF ArgsRoot, ArgsPush, ArgsPushed, ArgsDone
  <2> QED BY <1>7, <2>1, <2>2, <2>3 DEF Arguments
<1>8. CASE Strings
  <2>1. CASE StrNew
    BY <2>1, AllocStepKeeps DEF StrNew, AllocPoints
  <2>2. CASE StrCopy
    BY <1>2, <2>2 DEF StrCopy
  <2> QED BY <1>8, <2>1, <2>2 DEF Strings
<1>9. CASE Files
  <2>1. CASE ReadFile
    BY <2>1, AllocStepKeeps DEF ReadFile, AllocPoints
  <2>2. CASE CallbackBody
    BY <2>2, AllocStepKeeps DEF CallbackBody, AllocPoints
  <2>3. CASE ReadFileCall \/ ReadFileDone \/ WriteFile \/ WriteFileDone \/ CallbackEnter \/ CallbackExit
    BY <1>2, <2>3
       DEF ReadFileCall, ReadFileDone, WriteFile, WriteFileDone, CallbackEnter, CallbackExit
  <2> QED BY <1>9, <2>1, <2>2, <2>3 DEF Files
<1>10. CASE Program
  <2>1. CASE \E t \in Temps : \E kind \in Kinds : New(t, kind)
    BY <2>1, NewKeeps
  <2>2. CASE \E t, d \in Temps : cl_vec_pop(t, d)
    BY <2>2, PopKeeps
  <2>3. CASE \E t \in Temps : \E i \in 1 .. MaxElems : cl_map_del(t, i)
    BY <2>3, DelKeeps
  <2>4. CASE \E t, d \in Temps : \E i \in 1 .. MaxElems : cl_map_get(t, i, d)
    BY <1>2, <2>4 DEF cl_map_get
  <2>5. \A call : Start(call) => UNCHANGED heap
    BY DEF Start
  <2>6. CASE \E t, u \in Temps : StartVecPush(t, u)
    BY <1>2, <2>5, <2>6 DEF StartVecPush
  <2>7. CASE \E t, u, w \in Temps : StartMapSet(t, u, w)
    BY <1>2, <2>5, <2>7 DEF StartMapSet
  <2>8. CASE \E t, d \in Temps : StartMapKeys(t, d)
    BY <1>2, <2>5, <2>8 DEF StartMapKeys
  <2>9. CASE \E t, u, d \in Temps : StartConcat(t, u, d)
    BY <1>2, <2>5, <2>9 DEF StartConcat
  <2>10. CASE \E lit \in Lits : \E d \in Temps : StartStrlit(lit, d)
    BY <1>2, <2>5, <2>10 DEF StartStrlit
  <2>11. CASE \E d \in Temps : StartArgs(d)
    BY <1>2, <2>5, <2>11 DEF StartArgs
  <2>12. CASE \E e \in Temps : StartReadFile(e)
    BY <1>2, <2>5, <2>12 DEF StartReadFile
  <2>13. CASE \E e \in Temps : StartWriteFile(e)
    BY <1>2, <2>5, <2>13 DEF StartWriteFile
  <2> QED BY <1>10, <2>1, <2>2, <2>3, <2>4, <2>6, <2>7, <2>8, <2>9, <2>10, <2>11, <2>12, <2>13 DEF Program
<1> QED BY <1>3, <1>4, <1>5, <1>6, <1>7, <1>8, <1>9, <1>10 DEF Next

LEMMA KeepingStep == RtInv /\ EachOwned /\ [Next]_vars => StepKeeps /\ EachOwned'
<1> SUFFICES ASSUME RtInv, EachOwned, [Next]_vars PROVE StepKeeps /\ EachOwned'
  OBVIOUS
<1>1. CASE UNCHANGED vars
  <2>1. UNCHANGED heap
    BY <1>1 DEF vars
  <2> QED BY <2>1, GoodNow, StillKeeps
<1>2. CASE Next
  BY <1>2, StepKeepsAll
<1> QED BY <1>1, <1>2

LEMMA NothingOwned == Init => EachOwned
BY DEF Init, EachOwned, Owned

LEMMA Owning == Spec => []EachOwned
<1>1. RtInv /\ EachOwned /\ [Next]_vars => EachOwned'
  BY KeepingStep
<1> QED BY <1>1, NothingOwned, Rooting, PTL DEF Spec

-----------------------------------------------------------------------------
\* No function of cardinal_rt.c is left with a handle that a collection freed,
\* and nothing it publishes refers to one, wherever its allocations collect.
THEOREM NothingDangles == Spec => []NoDangling
BY Rooting, Undangling, PTL

\* The pushes and pops of cl_gc_push_root and cl_gc_pop_root match within each
\* call: the shadow stack never refers to a call that has returned.
THEOREM RootsBalanced == Spec => []ShadowStackBalanced
BY Rooting, Balancing, PTL

\* Growing a vector and rehashing a map lose, invent and reorder nothing: with
\* one buffer to each container, cl_vec_push, cl_vec_pop, cl_map_set and
\* cl_map_del change one container that can be reached, by one element or entry,
\* and an allocation that collects changes none.
THEOREM ContentsKept == Spec => ElementsKept
<1> DEFINE A == \A h \in {o \in Reached : Kind(o) \in {"vec", "map"}} :
                  \/ SameButOne(Contents(h), Contents(h)')
                  \/ Kind(h) = "map" /\ OneRevalued(Contents(h), Contents(h)')
<1>1. RtInv /\ EachOwned /\ [Next]_vars => A
  <2> SUFFICES ASSUME RtInv, EachOwned, [Next]_vars PROVE A
    OBVIOUS
  <2>1. StepKeeps
    BY KeepingStep
  <2>2. Reached \subseteq DOMAIN heap
    BY GoodNow, ReachedCloses DEF GoodHeap, Live
  <2>3. \A h \in Containers(heap) \cap Reached :
          \/ SameButOne(Contents(h), Contents(h)')
          \/ Kind(h) = "map" /\ OneRevalued(Contents(h), Contents(h)')
    BY Zenon, <2>1 DEF StepKeeps, Follows
  <2> QED BY Zenon, <2>2, <2>3 DEF Containers
<1>2. RtInv /\ EachOwned /\ [Next]_vars => [A]_vars
  BY <1>1
<1> QED BY <1>2, Rooting, Owning, PTL DEF Spec, ElementsKept
=============================================================================
