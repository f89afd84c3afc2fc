----------------------------- MODULE RtMapProofs -----------------------------
(***************************************************************************)
(* Proofs about the map of bootstrap/runtime/cardinal_rt.c: for any keys,  *)
(* values and hash function, any size of the first index and buffer, and   *)
(* any history, the index is exact, no probe path is broken, an insertion  *)
(* always finds a slot, and the map is the insertion-ordered one.          *)
(*                                                                         *)
(* The invariant, MapInv, adds to IndexExact and ProbePathUnbroken what    *)
(* they need to be inductive: live entries have different keys, and there  *)
(* are fewer of them than slots - the load factor counts neither           *)
(* tombstones nor deleted slots, but a probe for a free slot may take the  *)
(* deleted ones, so fewer live entries than slots is enough. Operators of  *)
(* the module that read the variables are restated over their values (At,  *)
(* PutAt, Indexes), so that the loops of map_index_put, map_rehash and     *)
(* cl_map_keys can be reasoned about by induction on how far they are.     *)
(***************************************************************************)
EXTENDS RtMap, Inductions, SequenceTheorems, TLAPS

\* Slot and probes as functions of the hash h.
At(h, k, p, n) == (h[k] + p) % n
LEMMA ProbeAt ==
  /\ \A k, p, n : Probe(k, p, n) = At(hash, k, p, n)
BY DEF Probe, At

LEMMA AtInIndex ==
  ASSUME NEW h, NEW k, h[k] \in Nat, NEW p \in Nat, NEW n \in Nat \ {0}
  PROVE  At(h, k, p, n) \in 0 .. n - 1
<1>1. \A x \in Nat : x % n \in 0 .. n - 1
  OBVIOUS
<1> QED BY <1>1 DEF At

\* The probes of a key, which wrap around, visit every slot: n consecutive
\* numbers have every remainder by n.
LEMMA NoMultipleBetween ==
  ASSUME NEW n \in Nat \ {0}, NEW a \in Int, n * a < n, -n < n * a
  PROVE  a = 0
<1>1. a >= 1 => n * a >= n
  OBVIOUS
<1>2. a <= -1 => n * a <= -n
  OBVIOUS
<1> QED BY <1>1, <1>2

LEMMA Remainder ==
  ASSUME NEW n \in Nat \ {0}, NEW q \in Int, NEW s \in 0 .. n - 1
  PROVE  (n * q + s) % n = s
<1> DEFINE x == n * q + s
           d == x \div n
           r == x % n
<1>1. x \in Int
  OBVIOUS
<1>2. d \in Int /\ r \in 0 .. n - 1 /\ x = n * d + r
  <2> HIDE DEF x
  <2> QED BY <1>1
<1> HIDE DEF d, r
<1>3. n * (q - d) = r - s
  <2>1. n * q + s = n * d + r
    BY <1>2
  <2>2. n * (q - d) = n * q - n * d
    BY <1>2
  <2>3. n * q \in Int /\ n * d \in Int /\ r \in Int /\ s \in Int
    BY <1>2
  <2> QED BY <2>1, <2>2, <2>3
<1>4. q - d = 0
  <2>1. n * (q - d) < n /\ -n < n * (q - d)
    BY <1>2, <1>3
  <2>2. q - d \in Int
    BY <1>2
  <2> QED BY <2>1, <2>2, NoMultipleBetween
<1>5. n * 0 = 0
  OBVIOUS
<1>6. r - s = 0
  BY <1>3, <1>4, <1>5
<1> QED BY <1>2, <1>6 DEF r

LEMMA ProbesCover ==
  ASSUME NEW h, NEW k, h[k] \in Nat, NEW n \in Nat \ {0}, NEW s \in 0 .. n - 1
  PROVE  \E p \in 0 .. n - 1 : At(h, k, p, n) = s
<1> DEFINE a == h[k]
           d == a \div n
           r == a % n
<1>1. d \in Int /\ r \in 0 .. n - 1 /\ a = n * d + r
  <2>1. a \in Nat
    OBVIOUS
  <2> HIDE DEF a
  <2> QED BY <2>1
<1> HIDE DEF d, r
<1>2. CASE s >= r
  <2>1. s - r \in 0 .. n - 1
    BY <1>1, <1>2
  <2>2. a + (s - r) = n * d + s
    <3>1. n * d \in Int
      BY <1>1
    <3> QED BY <1>1, <3>1
  <2>3. (n * d + s) % n = s
    BY <1>1, Remainder
  <2> QED BY <2>1, <2>2, <2>3 DEF At
<1>3. CASE s < r
  <2>1. s - r + n \in 0 .. n - 1
    BY <1>1, <1>3
  <2>2. a + (s - r + n) = n * (d + 1) + s
    <3>1. n * d \in Int /\ n * (d + 1) = n * d + n
      BY <1>1
    <3> QED BY <1>1, <3>1
  <2>3. (n * (d + 1) + s) % n = s
    BY <1>1, Remainder
  <2> QED BY <2>1, <2>2, <2>3 DEF At
<1> QED BY <1>1, <1>2, <1>3

-----------------------------------------------------------------------------
\* The slot s of an index idx is on the probe path of its entry's key.
Placed(h, idx, es, n, s) ==
  \E p \in 0 .. n - 1 :
    /\ At(h, es[idx[s]].key, p, n) = s
    /\ \A q \in 0 .. p - 1 : idx[At(h, es[idx[s]].key, q, n)] # 0

\* idx indexes the first m entries of es with n slots.
Indexes(h, idx, es, m, n) ==
  /\ idx \in [0 .. n - 1 -> -1 .. m]
  /\ \A s \in 0 .. n - 1 : idx[s] > 0 => es[idx[s]].live /\ Placed(h, idx, es, n, s)
  /\ \A e \in 1 .. m : es[e].live => \E s \in 0 .. n - 1 : idx[s] = e
  /\ \A s, t \in 0 .. n - 1 : idx[s] > 0 /\ idx[s] = idx[t] => s = t

LiveIn(es, m) == {e \in 1 .. m : es[e].live}
Distinct(es, m) ==
  \A e, f \in LiveIn(es, m) : es[e].key = es[f].key => e = f

\* map_index_put, over the values it reads.
PutStopsAt(h, idx, k, n) == {p \in 0 .. n - 1 : idx[At(h, k, p, n)] <= 0}
PutAt(h, idx, k, e, n) ==
  [idx EXCEPT ![At(h, k, Min(PutStopsAt(h, idx, k, n)), n)] = e]
LEMMA PutsAre ==
  /\ \A idx, k, n : PutStops(idx, k, n) = PutStopsAt(hash, idx, k, n)
  /\ \A idx, k, e, n : map_index_put(idx, k, e, n) = PutAt(hash, idx, k, e, n)
BY DEF PutStops, PutStopsAt, map_index_put, PutAt, Probe, At

\* With fewer live entries than slots, a slot is left.
LEMMA PutFinds ==
  ASSUME NEW h, NEW k, h[k] \in Nat, NEW n \in Nat, NEW m \in Nat, NEW idx, NEW es,
         Indexes(h, idx, es, m, n), Cardinality(LiveIn(es, m)) < n
  PROVE  PutStopsAt(h, idx, k, n) # {}
<1> SUFFICES ASSUME PutStopsAt(h, idx, k, n) = {} PROVE FALSE
  OBVIOUS
<1> DEFINE S == 0 .. n - 1
           L == LiveIn(es, m)
<1>1. IsFiniteSet(L) /\ Cardinality(L) \in Nat
  <2>1. IsFiniteSet(1 .. m)
    BY FS_Interval
  <2>2. IsFiniteSet(L)
    BY <2>1, FS_Subset DEF LiveIn
  <2> QED BY <2>2, FS_CardinalityType
<1>2. n \in Nat \ {0}
  BY <1>1
<1>3. ASSUME NEW s \in S PROVE idx[s] > 0
  <2>1. PICK p \in 0 .. n - 1 : At(h, k, p, n) = s
    BY <1>2, ProbesCover
  <2>2. idx[s] \in Int
    BY DEF Indexes
  <2> QED BY <2>1, <2>2 DEF PutStopsAt
<1>4. idx \in [S -> L] /\ \A s, t \in S : idx[s] = idx[t] => s = t
  <2>1. \A s \in S : idx[s] \in 1 .. m /\ es[idx[s]].live
    BY <1>3 DEF Indexes
  <2>2. idx \in [S -> L]
    BY <2>1 DEF Indexes, LiveIn
  <2> QED BY <1>3, <2>2 DEF Indexes
<1>5. IsFiniteSet(S) /\ Cardinality(S) = n
  <2>1. 0 \in Int /\ n - 1 \in Int /\ ~(0 > n - 1) /\ n - 1 - 0 + 1 = n
    BY <1>2
  <2> QED BY <2>1, FS_Interval
<1> HIDE DEF S, L
<1>6. \E s, t \in S : s # t /\ idx[s] = idx[t]
  BY <1>1, <1>4, <1>5, FS_PigeonHole DEF L
<1> QED BY <1>4, <1>6

\* map_index_put enters one more entry: the probe path of every entry, the new
\* one included, stays unbroken.
LEMMA PutIndexes ==
  ASSUME NEW h, NEW n \in Nat, NEW m \in Nat, NEW idx, NEW es, NEW fs, NEW k,
         Indexes(h, idx, es, m, n), PutStopsAt(h, idx, k, n) # {}, h[k] \in Nat,
         \A e \in 1 .. m : fs[e] = es[e],
         fs[m + 1].live, fs[m + 1].key = k
  PROVE  Indexes(h, PutAt(h, idx, k, m + 1, n), fs, m + 1, n)
<1> DEFINE P == PutStopsAt(h, idx, k, n)
           p == Min(P)
           s == At(h, k, p, n)
           new == [idx EXCEPT ![s] = m + 1]
<1>1. n \in Nat \ {0}
  BY DEF PutStopsAt
<1>2. p \in P /\ \A q \in P : p <= q
  <2>1. P \in SUBSET Nat
    BY DEF PutStopsAt
  <2> HIDE DEF P
  <2> QED BY <2>1, MinIsLeast DEF P
<1>3. p \in 0 .. n - 1 /\ s \in 0 .. n - 1 /\ idx[s] <= 0
  <2>1. p \in 0 .. n - 1 /\ idx[s] <= 0
    BY <1>2 DEF PutStopsAt
  <2> HIDE DEF p
  <2>2. s \in 0 .. n - 1
    BY <1>1, <2>1, AtInIndex
  <2> QED BY <2>1, <2>2 DEF p
<1>4. PutAt(h, idx, k, m + 1, n) = new
  BY DEF PutAt
<1>5. \A q \in 0 .. p - 1 : idx[At(h, k, q, n)] > 0
  <2> SUFFICES ASSUME NEW q \in 0 .. p - 1, ~(idx[At(h, k, q, n)] > 0) PROVE FALSE
    OBVIOUS
  <2>1. q \in 0 .. n - 1 /\ ~(p <= q)
    BY <1>3
  <2>2. At(h, k, q, n) \in 0 .. n - 1
    <3> HIDE DEF p
    <3> QED BY <1>1, <2>1, AtInIndex
  <2>3. idx[At(h, k, q, n)] \in Int
    BY <2>2 DEF Indexes
  <2>4. q \in P
    BY <2>1, <2>3 DEF PutStopsAt
  <2> QED BY <1>2, <2>1, <2>4
<1> HIDE DEF p, s, P
<1>6. /\ new \in [0 .. n - 1 -> -1 .. m + 1] /\ new[s] = m + 1
      /\ \A t \in 0 .. n - 1 : t # s => new[t] = idx[t]
  BY <1>3 DEF Indexes
<1>7. \A t : t \in 0 .. n - 1 /\ idx[t] > 0 => t # s /\ new[t] = idx[t] /\ idx[t] \in 1 .. m
                 /\ fs[idx[t]] = es[idx[t]]
  BY <1>3, <1>6 DEF Indexes
<1>8. \A t : idx[t] # 0 => new[t] # 0
  <2> SUFFICES ASSUME NEW t, idx[t] # 0 PROVE new[t] # 0
    OBVIOUS
  <2>1. CASE t = s
    BY <1>6, <2>1
  <2>2. CASE t # s
    <3>1. new[t] = idx[t]
      BY <2>2 DEF Indexes
    <3> QED BY <3>1
  <2> QED BY <2>1, <2>2
<1> HIDE DEF new
<1>9. ASSUME NEW t \in 0 .. n - 1, new[t] > 0
      PROVE  fs[new[t]].live /\ Placed(h, new, fs, n, t)
  <2>1. CASE t = s
    <3>1. new[t] = m + 1
      BY <1>6, <2>1
    <3>2. At(h, fs[new[t]].key, p, n) = t
      BY <2>1, <3>1 DEF s
    <3>3. ASSUME NEW q \in 0 .. p - 1 PROVE new[At(h, fs[new[t]].key, q, n)] # 0
      <4>1. idx[At(h, k, q, n)] # 0
        BY <1>5
      <4> QED BY <1>8, <3>1, <4>1
    <3> QED BY <1>3, <3>1, <3>2, <3>3 DEF Placed
  <2>2. CASE t # s
    <3>1. new[t] = idx[t] /\ fs[new[t]] = es[idx[t]] /\ idx[t] > 0
      BY <1>6, <1>7, <1>9, <2>2
    <3>2. es[idx[t]].live /\ Placed(h, idx, es, n, t)
      BY <3>1 DEF Indexes
    <3>3. PICK r \in 0 .. n - 1 :
             /\ At(h, es[idx[t]].key, r, n) = t
             /\ \A q \in 0 .. r - 1 : idx[At(h, es[idx[t]].key, q, n)] # 0
      BY <3>2 DEF Placed
    <3>4. \A q \in 0 .. r - 1 : new[At(h, es[idx[t]].key, q, n)] # 0
      BY <1>8, <3>3
    <3> QED BY <3>1, <3>2, <3>3, <3>4 DEF Placed
  <2> QED BY <2>1, <2>2
<1>10. ASSUME NEW e \in 1 .. m + 1, fs[e].live PROVE \E t \in 0 .. n - 1 : new[t] = e
  <2>1. CASE e = m + 1
    BY <1>3, <1>6, <2>1
  <2>2. CASE e \in 1 .. m
    <3>1. es[e].live
      BY <1>10, <2>2
    <3>2. PICK t \in 0 .. n - 1 : idx[t] = e
      BY <2>2, <3>1 DEF Indexes
    <3> QED BY <1>7, <2>2, <3>2
  <2> QED BY <2>1, <2>2
<1>11. ASSUME NEW t \in 0 .. n - 1, NEW u \in 0 .. n - 1, new[t] > 0, new[t] = new[u]
       PROVE  t = u
  <2>1. \A v \in 0 .. n - 1 : v # s => idx[v] \in -1 .. m /\ new[v] = idx[v]
    BY <1>6 DEF Indexes
  <2>2. \A v \in 0 .. n - 1 : v # s => new[v] # m + 1
    BY <2>1
  <2> QED BY <1>6, <1>11, <2>1, <2>2 DEF Indexes
<1>12. Indexes(h, new, fs, m + 1, n)
  BY <1>6, <1>9, <1>10, <1>11 DEF Indexes
<1> QED BY <1>4, <1>12

\* cl_map_del: the entry dies and its slot is marked deleted, not emptied.
LEMMA DelIndexes ==
  ASSUME NEW h, NEW n \in Nat, NEW m \in Nat, NEW idx, NEW es, NEW fs,
         Indexes(h, idx, es, m, n), NEW s \in 0 .. n - 1, idx[s] > 0,
         \A e \in 1 .. m : fs[e].key = es[e].key,
         \A e \in 1 .. m : e # idx[s] => fs[e].live = es[e].live,
         fs[idx[s]].live = FALSE
  PROVE  Indexes(h, [idx EXCEPT ![s] = -1], fs, m, n)
<1> DEFINE new == [idx EXCEPT ![s] = -1]
<1>1. /\ new \in [0 .. n - 1 -> -1 .. m] /\ new[s] = -1
      /\ \A t \in 0 .. n - 1 : t # s => new[t] = idx[t]
  BY DEF Indexes
<1>2. \A t : idx[t] # 0 => new[t] # 0
  <2> SUFFICES ASSUME NEW t, idx[t] # 0 PROVE new[t] # 0
    OBVIOUS
  <2>1. CASE t = s
    BY <1>1, <2>1
  <2>2. CASE t # s
    <3>1. new[t] = idx[t]
      BY <2>2 DEF Indexes
    <3> QED BY <3>1
  <2> QED BY <2>1, <2>2
<1> HIDE DEF new
<1>3. ASSUME NEW t \in 0 .. n - 1, new[t] > 0
      PROVE  fs[new[t]].live /\ Placed(h, new, fs, n, t)
  <2>1. t # s /\ new[t] = idx[t] /\ idx[t] # idx[s] /\ idx[t] \in 1 .. m
    BY <1>1, <1>3 DEF Indexes
  <2>2. es[idx[t]].live /\ Placed(h, idx, es, n, t)
    BY <1>3, <2>1 DEF Indexes
  <2>3. PICK r \in 0 .. n - 1 :
           /\ At(h, es[idx[t]].key, r, n) = t
           /\ \A q \in 0 .. r - 1 : idx[At(h, es[idx[t]].key, q, n)] # 0
    BY <2>2 DEF Placed
  <2>4. \A q \in 0 .. r - 1 : new[At(h, es[idx[t]].key, q, n)] # 0
    BY <1>2, <2>3
  <2> QED BY <2>1, <2>2, <2>3, <2>4 DEF Placed
<1>4. ASSUME NEW e \in 1 .. m, fs[e].live PROVE \E t \in 0 .. n - 1 : new[t] = e
  <2>1. es[e].live /\ e # idx[s]
    BY <1>4
  <2>2. PICK t \in 0 .. n - 1 : idx[t] = e
    BY <2>1 DEF Indexes
  <2> QED BY <1>1, <2>1, <2>2
<1>5. ASSUME NEW t \in 0 .. n - 1, NEW u \in 0 .. n - 1, new[t] > 0, new[t] = new[u]
      PROVE  t = u
  BY <1>1, <1>5 DEF Indexes
<1>6. Indexes(h, new, fs, m, n)
  BY <1>1, <1>3, <1>4, <1>5 DEF Indexes
<1> QED BY <1>6 DEF new

-----------------------------------------------------------------------------
\* The loop of map_rehash that fills the new index exists as a function.
IsBuild(b, es, n) ==
  b = [i \in 0 .. Len(es) |-> IF i = 0 THEN [s \in 0 .. n - 1 |-> Absent]
                              ELSE map_index_put(b[i - 1], es[i].key, i, n)]

\* Entering a number in an index leaves an index.
LEMMA PutAtType ==
  ASSUME NEW h, NEW k, NEW n, NEW e \in Int, NEW idx \in [0 .. n - 1 -> Int]
  PROVE  PutAt(h, idx, k, e, n) \in [0 .. n - 1 -> Int]
BY DEF PutAt

LEMMA BuildExists ==
  ASSUME NEW es, Len(es) \in Nat, NEW n \in Nat
  PROVE  \E b : IsBuild(b, es, n)
<1> DEFINE S == [0 .. n - 1 -> Int]
           c == [s \in 0 .. n - 1 |-> Absent]
           N == Len(es)
           d == [i \in 1 .. N |-> [idx \in S |-> map_index_put(idx, es[i].key, i, n)]]
<1>1. c \in S
  BY DEF Absent
<1>2. \A i \in 1 .. N : \A idx \in S : map_index_put(idx, es[i].key, i, n) \in S
  <2> SUFFICES ASSUME NEW i \in 1 .. N, NEW idx \in S
               PROVE  map_index_put(idx, es[i].key, i, n) \in S
    OBVIOUS
  <2>1. i \in Int
    OBVIOUS
  <2>2. PutAt(hash, idx, es[i].key, i, n) \in S
    BY <2>1, PutAtType
  <2> QED BY <2>2, PutsAre
<1>3. IsStep(d, N, S)
  <2> HIDE DEF S
  <2> QED BY <1>2 DEF IsStep
<1>4. \A i \in 1 .. N : \A idx \in S : d[i][idx] = map_index_put(idx, es[i].key, i, n)
  OBVIOUS
<1> HIDE DEF d, S, c, N
<1>5. N \in Nat
  BY DEF N
<1>6. PICK g : Iterates(g, d, c, N, S)
  BY <1>1, <1>3, <1>5, Iteration
<1>7. /\ g \in [0 .. N -> S] /\ g[0] = c
      /\ \A i \in 1 .. N : g[i] = d[i][g[i - 1]]
  BY <1>6 DEF Iterates
<1>8. \A i \in 1 .. N : g[i] = map_index_put(g[i - 1], es[i].key, i, n)
  <2> SUFFICES ASSUME NEW i \in 1 .. N
               PROVE  g[i] = map_index_put(g[i - 1], es[i].key, i, n)
    OBVIOUS
  <2>1. i - 1 \in 0 .. N
    BY <1>5
  <2> QED BY <1>4, <1>7, <2>1
<1>9. IsBuild(g, es, n)
  <2>1. \A i \in 0 .. N : g[i] = IF i = 0 THEN c ELSE map_index_put(g[i - 1], es[i].key, i, n)
    BY <1>5, <1>7, <1>8
  <2> QED BY <1>7, <2>1 DEF IsBuild, N, c
<1> QED BY <1>9

LEMMA ReindexedIs ==
  ASSUME NEW es, Len(es) \in Nat, NEW n \in Nat
  PROVE  \E b : IsBuild(b, es, n) /\ Reindexed(es, n) = b[Len(es)]
<1> DEFINE b == CHOOSE x : IsBuild(x, es, n)
<1>1. Reindexed(es, n) = b[Len(es)]
  BY Zenon DEF Reindexed, IsBuild
<1>2. \E x : IsBuild(x, es, n)
  BY BuildExists
<1>3. IsBuild(b, es, n)
  BY Zenon, <1>2
<1> QED BY <1>1, <1>3

\* The live entries of a buffer are counted.
LEMMA LiveInBounds ==
  ASSUME NEW es, NEW m \in Nat
  PROVE  IsFiniteSet(LiveIn(es, m)) /\ Cardinality(LiveIn(es, m)) \in 0 .. m
<1>1. IsFiniteSet(1 .. m) /\ Cardinality(1 .. m) = m
  <2>1. 1 \in Int /\ m \in Int /\ (1 > m => m = 0) /\ m - 1 + 1 = m
    OBVIOUS
  <2> QED BY <2>1, FS_Interval
<1>2. LiveIn(es, m) \subseteq 1 .. m
  BY DEF LiveIn
<1>3. IsFiniteSet(LiveIn(es, m)) /\ Cardinality(LiveIn(es, m)) <= m
  BY <1>1, <1>2, FS_Subset
<1> QED BY <1>3, FS_CardinalityType

\* A rehash indexes every entry of a buffer that holds live entries only and is
\* smaller than the index.
LEMMA ReindexedIndexes ==
  ASSUME NEW es, Len(es) \in Nat, NEW n \in Nat, Len(es) < n,
         \A e \in 1 .. Len(es) : es[e].live /\ hash[es[e].key] \in Nat
  PROVE  Indexes(hash, Reindexed(es, n), es, Len(es), n)
<1> DEFINE N == Len(es)
<1>1. PICK b : IsBuild(b, es, n) /\ Reindexed(es, n) = b[N]
  BY ReindexedIs
<1>2. /\ b[0] = [s \in 0 .. n - 1 |-> 0]
      /\ \A i \in 1 .. N : b[i] = PutAt(hash, b[i - 1], es[i].key, i, n)
  <2>1. /\ b[0] = [s \in 0 .. n - 1 |-> 0]
        /\ \A i \in 1 .. N : b[i] = map_index_put(b[i - 1], es[i].key, i, n)
    <3>1. \A i \in 0 .. Len(es) : b[i] = IF i = 0 THEN [s \in 0 .. n - 1 |-> Absent]
                                    ELSE map_index_put(b[i - 1], es[i].key, i, n)
      BY Zenon, <1>1 DEF IsBuild
    <3>2. 0 \in 0 .. N /\ \A i \in 1 .. N : i \in 0 .. N /\ i # 0
      OBVIOUS
    <3> QED BY Zenon, <3>1, <3>2 DEF Absent
  <2> QED BY <2>1, PutsAre
<1> DEFINE T == {i \in Nat : i <= N => Indexes(hash, b[i], es, i, n)}
<1>3. 0 \in T
  BY <1>2 DEF Indexes
<1>4. ASSUME NEW i \in Nat, i \in T PROVE i + 1 \in T
  <2> SUFFICES ASSUME i + 1 <= N PROVE Indexes(hash, b[i + 1], es, i + 1, n)
    OBVIOUS
  <2> DEFINE k == es[i + 1].key
  <2>1. Indexes(hash, b[i], es, i, n)
    BY <1>4
  <2>2. es[i + 1].live /\ hash[k] \in Nat
    OBVIOUS
  <2>3. Cardinality(LiveIn(es, i)) < n
    BY LiveInBounds
  <2> HIDE DEF k
  <2>4. PutStopsAt(hash, b[i], k, n) # {}
    BY <2>1, <2>2, <2>3, PutFinds
  <2>5. Indexes(hash, PutAt(hash, b[i], k, i + 1, n), es, i + 1, n)
    BY <2>1, <2>2, <2>4, PutIndexes DEF k
  <2>6. b[i + 1] = PutAt(hash, b[i], k, i + 1, n)
    BY <1>2 DEF k
  <2> QED BY <2>5, <2>6
<1> HIDE DEF T
<1>5. Nat \subseteq T
  BY <1>3, <1>4, NaturalInduction
<1>6. N \in T
  BY <1>5
<1> QED BY <1>1, <1>6 DEF T

-----------------------------------------------------------------------------
\* They are counted by the live entries.
LEMMA KeptCount ==
  ASSUME NEW E, NEW es \in Seq(E), NEW K, Keeps(K, es, E)
  PROVE  Len(K[Len(es)]) = Cardinality(LiveIn(es, Len(es)))
<1> DEFINE T == {i \in Nat : i <= Len(es) => Len(K[i]) = Cardinality(LiveIn(es, i))}
<1>1. \A i \in 0 .. Len(es) : K[i] \in Seq(E)
  BY DEF Keeps
<1>2. 0 \in T
  <2>1. LiveIn(es, 0) = {}
    BY DEF LiveIn
  <2> QED BY <2>1, FS_EmptySet DEF Keeps
<1>3. ASSUME NEW i \in Nat, i \in T PROVE i + 1 \in T
  <2> SUFFICES ASSUME i + 1 <= Len(es)
               PROVE  Len(K[i + 1]) = Cardinality(LiveIn(es, i + 1))
    OBVIOUS
  <2>1. /\ K[i + 1] = IF es[i + 1].live THEN Append(K[i], es[i + 1]) ELSE K[i]
        /\ K[i] \in Seq(E) /\ es[i + 1] \in E
    BY KeepsNext
  <2>2. Len(K[i]) = Cardinality(LiveIn(es, i)) /\ IsFiniteSet(LiveIn(es, i))
    BY <1>3, LiveInBounds
  <2>3. CASE es[i + 1].live
    <3>1. LiveIn(es, i + 1) = LiveIn(es, i) \cup {i + 1} /\ i + 1 \notin LiveIn(es, i)
      BY <2>3 DEF LiveIn
    <3>2. Cardinality(LiveIn(es, i + 1)) = Cardinality(LiveIn(es, i)) + 1
      BY <2>2, <3>1, FS_AddElement
    <3>3. Len(K[i + 1]) = Len(K[i]) + 1
      BY <2>1, <2>3
    <3> QED BY <2>2, <3>2, <3>3
  <2>4. CASE ~es[i + 1].live
    <3>1. LiveIn(es, i + 1) = LiveIn(es, i)
      BY <2>4 DEF LiveIn
    <3> QED BY <2>1, <2>2, <2>4, <3>1
  <2> QED BY <2>3, <2>4
<1> HIDE DEF T
<1>4. Nat \subseteq T
  BY <1>2, <1>3, NaturalInduction
<1> QED BY <1>4 DEF T

-----------------------------------------------------------------------------
\* What is kept are the live entries, each once, in number those counted.
LEMMA LiveEntries ==
  ASSUME NEW E, NEW es \in Seq(E)
  PROVE  /\ Kept(es) \in Seq(E)
         /\ Len(Kept(es)) = Cardinality(LiveIn(es, Len(es)))
         /\ \A j \in 1 .. Len(Kept(es)) : \E e \in LiveIn(es, Len(es)) : Kept(es)[j] = es[e]
         /\ \A e \in LiveIn(es, Len(es)) : \E j \in 1 .. Len(Kept(es)) : Kept(es)[j] = es[e]
         /\ Distinct(es, Len(es)) => Distinct(Kept(es), Len(Kept(es)))
<1>1. PICK K : Keeps(K, es, E) /\ Kept(es) = K[Len(es)]
  BY KeptIs
<1> DEFINE N == Len(es)
           q == K[N]
<1>2. N \in 0 .. N /\ q \in Seq(E)
  BY <1>1 DEF Keeps
<1>3. Len(q) = Cardinality(LiveIn(es, N))
  BY <1>1, KeptCount
<1>4. ASSUME NEW e \in LiveIn(es, N) PROVE Len(K[e]) \in 1 .. Len(q) /\ q[Len(K[e])] = es[e]
  <2>1. e \in 1 .. Len(es) /\ es[e].live /\ N \in e .. Len(es)
    BY DEF LiveIn
  <2> QED BY <1>1, <2>1, KeptRank
<1>5. ASSUME NEW j \in 1 .. Len(q) PROVE \E e \in LiveIn(es, N) : Len(K[e]) = j
  <2>1. \E e \in 1 .. N : es[e].live /\ Len(K[e]) = j
    BY <1>1, <1>2, KeptOnto
  <2> QED BY <2>1 DEF LiveIn
<1> HIDE DEF N, q
<1>6. ASSUME Distinct(es, N), NEW i \in 1 .. Len(q), NEW j \in 1 .. Len(q), q[i].key = q[j].key
      PROVE  i = j
  <2>1. PICK e \in LiveIn(es, N) : Len(K[e]) = i
    BY <1>5
  <2>2. PICK f \in LiveIn(es, N) : Len(K[f]) = j
    BY <1>5
  <2>3. q[i] = es[e] /\ q[j] = es[f]
    BY <1>4, <2>1, <2>2
  <2>4. e = f
    BY <1>6, <2>3 DEF Distinct
  <2> QED BY <2>1, <2>2, <2>4
<1>7. Distinct(es, N) => Distinct(q, Len(q))
  BY <1>6 DEF Distinct, LiveIn
<1>8. Kept(es) = q
  BY <1>1 DEF q, N
<1>9. \A j \in 1 .. Len(q) : \E e \in LiveIn(es, N) : q[j] = es[e]
  BY <1>4, <1>5
<1> QED BY <1>2, <1>3, <1>4, <1>7, <1>8, <1>9 DEF N

-----------------------------------------------------------------------------
\* The index is exact, the live keys differ, and one slot at least is free.
IndexInv ==
  /\ Indexes(hash, index, entries, nent, icap)
  /\ Distinct(entries, nent)
  /\ len = Cardinality(LiveIn(entries, nent))
  /\ icap = 0 => nent = 0
  /\ icap # 0 => len < icap

MapInv == TypeOK /\ IndexInv

\* Keys have hash values.
LEMMA HashOfKeys ==
  ASSUME MapInv
  PROVE  /\ \A k \in Keys : hash[k] \in Nat
         /\ \A e \in 1 .. Len(entries) : entries[e].key \in Keys /\ hash[entries[e].key] \in Nat
<1>1. \A k \in Keys : hash[k] \in Nat
  BY DEF MapInv, TypeOK
<1>2. \A e \in 1 .. Len(entries) : entries[e] \in EntryType
  BY DEF MapInv, TypeOK
<1> QED BY <1>1, <1>2 DEF EntryType

\* What a rehash leaves, when there is one, and what there was otherwise, is
\* fit for one more entry.
ReadyFor(es, idx, n, cap) ==
  /\ es \in Seq(EntryType)
  /\ n \in Nat /\ len \in Nat /\ len + 1 < n
  /\ cap \in Nat /\ Len(es) <= cap
  /\ Indexes(hash, idx, es, Len(es), n)
  /\ Distinct(es, Len(es))
  /\ Cardinality(LiveIn(es, Len(es))) = len
  /\ Kept(es) = Kept(entries)
  /\ \A e \in LiveIn(es, Len(es)) :
       \E f \in LiveIn(entries, Len(entries)) : es[e] = entries[f]

LEMMA RehashReady ==
  ASSUME MapInv
  PROVE  ReadyFor(RehashedEntries, RehashedIndex, NextIcap, RehashedEcap)
<1>1. /\ entries \in Seq(EntryType) /\ Len(entries) \in Nat
      /\ ecap \in Nat /\ Len(entries) <= ecap /\ icap \in Nat
      /\ len \in 0 .. Len(entries)
      /\ hash \in [Keys -> Nat]
  BY DEF MapInv, TypeOK, nent
<1>2. /\ Indexes(hash, index, entries, Len(entries), icap)
      /\ Distinct(entries, Len(entries))
      /\ len = Cardinality(LiveIn(entries, Len(entries)))
      /\ icap = 0 => Len(entries) = 0
      /\ icap # 0 => len < icap
  BY DEF MapInv, IndexInv, nent
<1>3. CASE ~MustRehash
  <2>1. /\ RehashedEntries = entries /\ RehashedIndex = index
        /\ NextIcap = icap /\ RehashedEcap = ecap
    BY <1>3 DEF RehashedEntries, RehashedIndex, NextIcap, RehashedEcap
  <2>2. len + 1 < icap
    BY <1>1, <1>3 DEF MustRehash
  <2> QED BY <1>1, <1>2, <2>1, <2>2 DEF ReadyFor
<1>4. CASE MustRehash
  <2> DEFINE q == Kept(entries)
             n == IF icap = 0 THEN FirstIcap ELSE 2 * icap
             cap == IF len < FirstEcap THEN FirstEcap ELSE 2 * len
  <2>1. /\ RehashedEntries = q /\ RehashedIndex = Reindexed(q, n)
        /\ NextIcap = n /\ RehashedEcap = cap
    BY <1>4 DEF RehashedEntries, RehashedIndex, NextIcap, RehashedEcap
  <2>2. /\ n \in Nat /\ len + 1 < n /\ cap \in Nat /\ len <= cap
    BY <1>1, <1>2, FirstIcapAssumption, FirstEcapAssumption
  <2>3. /\ q \in Seq(EntryType) /\ Len(q) = len /\ Len(q) \in Nat
        /\ \A j \in 1 .. Len(q) : \E e \in LiveIn(entries, Len(entries)) : q[j] = entries[e]
        /\ Distinct(q, Len(q))
    BY <1>1, <1>2, LiveEntries
  <2> HIDE DEF q, n, cap
  <2>4. \A j \in 1 .. Len(q) : q[j].live /\ hash[q[j].key] \in Nat
    <3> SUFFICES ASSUME NEW j \in 1 .. Len(q) PROVE q[j].live /\ hash[q[j].key] \in Nat
      OBVIOUS
    <3>1. PICK e \in LiveIn(entries, Len(entries)) : q[j] = entries[e]
      BY <2>3
    <3> QED BY <3>1, HashOfKeys DEF LiveIn
  <2>5. Indexes(hash, Reindexed(q, n), q, Len(q), n)
    <3>1. Len(q) < n
      BY <1>1, <2>2, <2>3
    <3> QED BY <2>2, <2>3, <2>4, <3>1, ReindexedIndexes
  <2>6. LiveIn(q, Len(q)) = 1 .. Len(q)
    BY <2>4 DEF LiveIn
  <2>7. Cardinality(LiveIn(q, Len(q))) = len
    <3>1. 1 \in Int /\ len \in Int /\ (1 > len => len = 0) /\ len - 1 + 1 = len
      BY <1>1
    <3>2. Cardinality(1 .. len) = len
      BY <3>1, FS_Interval
    <3> QED BY <2>3, <2>6, <3>2
  <2>8. Kept(q) = Kept(entries)
    <3>1. Kept(q) = q
      BY <2>3, <2>4, LiveOfLive
    <3> QED BY <3>1 DEF q
  <2>9. \A j \in LiveIn(q, Len(q)) : \E e \in LiveIn(entries, Len(entries)) : q[j] = entries[e]
    BY <2>3, <2>6
  <2> QED BY <1>1, <2>1, <2>2, <2>3, <2>5, <2>7, <2>8, <2>9 DEF ReadyFor
<1> QED BY <1>3, <1>4

\* A lookup finds the live entry of its key, and nothing when there is none.
LEMMA FindSlotType ==
  ASSUME MapInv, NEW k \in Keys, FindSlot(k) # -1
  PROVE  /\ icap \in Nat \ {0} /\ FindSlot(k) \in 0 .. icap - 1
         /\ index[FindSlot(k)] \in LiveIn(entries, nent)
         /\ entries[index[FindSlot(k)]].key = k
<1> DEFINE m == Min(Stops(k))
           s == Probe(k, m, icap)
<1>1. icap # 0 /\ Stops(k) # {} /\ FindSlot(k) = s /\ Matches(k, index[s])
  BY DEF FindSlot
<1>2. icap \in Nat \ {0} /\ index \in [0 .. icap - 1 -> -1 .. nent] /\ nent \in Nat
  BY <1>1 DEF MapInv, TypeOK, nent
<1>3. m \in Stops(k)
  <2>1. Stops(k) \in SUBSET Nat
    BY DEF Stops
  <2> QED BY <1>1, <2>1, MinIsLeast
<1>4. m \in Nat
  BY <1>3 DEF Stops
<1>5. s \in 0 .. icap - 1
  <2>1. hash[k] \in Nat
    BY HashOfKeys
  <2> HIDE DEF m
  <2>2. At(hash, k, m, icap) \in 0 .. icap - 1
    BY <1>2, <1>4, <2>1, AtInIndex
  <2> QED BY <2>2, ProbeAt
<1> HIDE DEF s
<1>6. index[s] \in 1 .. nent /\ entries[index[s]].live /\ entries[index[s]].key = k
  BY <1>1, <1>2, <1>5 DEF Matches
<1> QED BY <1>1, <1>2, <1>5, <1>6 DEF LiveIn

LEMMA FindsLive ==
  ASSUME MapInv, NEW e \in LiveIn(entries, nent)
  PROVE  /\ FindSlot(entries[e].key) # -1
         /\ map_find(entries[e].key) = e
<1> DEFINE k == entries[e].key
           S == Stops(k)
           m == Min(S)
<1>1. e \in 1 .. nent /\ entries[e].live /\ nent \in Nat
  BY DEF LiveIn, MapInv, TypeOK, nent
<1>2. /\ Indexes(hash, index, entries, nent, icap)
      /\ Distinct(entries, nent)
      /\ icap \in Nat /\ icap # 0 /\ len # 0
  <2>1. Cardinality(LiveIn(entries, nent)) # 0
    BY <1>1, LiveInBounds, FS_EmptySet
  <2> QED BY <1>1, <2>1 DEF MapInv, IndexInv, TypeOK
<1>3. k \in Keys
  BY <1>1, HashOfKeys DEF nent
<1>4. PICK s \in 0 .. icap - 1 : index[s] = e
  BY <1>1, <1>2 DEF Indexes
<1>5. PICK p \in 0 .. icap - 1 :
         /\ At(hash, k, p, icap) = s
         /\ \A q \in 0 .. p - 1 : index[At(hash, k, q, icap)] # 0
  <2>1. Placed(hash, index, entries, icap, s)
    BY <1>1, <1>2, <1>4 DEF Indexes
  <2> QED BY <1>4, <2>1 DEF Placed
<1>6. p \in S
  <2>1. Matches(k, index[s])
    BY <1>1, <1>4 DEF Matches
  <2> QED BY <1>5, <2>1, ProbeAt DEF Stops
<1>7. m \in S /\ m <= p
  <2>1. S \in SUBSET Nat /\ S # {}
    BY <1>6 DEF Stops
  <2> HIDE DEF S
  <2> QED BY <1>6, <2>1, MinIsLeast
<1>8. Matches(k, index[Probe(k, m, icap)])
  <2>4. m \in Nat /\ p \in Nat /\ m <= p
    BY <1>2, <1>7 DEF Stops
  <2>1. \/ index[Probe(k, m, icap)] = Absent
        \/ Matches(k, index[Probe(k, m, icap)])
    BY <1>7 DEF Stops
  <2> HIDE DEF m, S, k
  <2>2. CASE m = p
    <3>1. Probe(k, m, icap) = s
      BY <1>5, <2>2, ProbeAt
    <3> QED BY <1>1, <1>4, <3>1 DEF Matches, k
  <2>3. CASE m # p
    <3>1. m \in 0 .. p - 1
      BY <2>3, <2>4
    <3> QED BY <1>5, <2>1, <3>1, ProbeAt DEF Absent
  <2> QED BY <2>2, <2>3
<1>9. FindSlot(k) = Probe(k, m, icap)
  BY <1>2, <1>6, <1>8 DEF FindSlot
<1>10. FindSlot(k) # -1
  <2>1. m \in Nat /\ hash[k] \in Nat
    BY <1>3, <1>7, HashOfKeys DEF Stops
  <2> HIDE DEF m, k
  <2>2. At(hash, k, m, icap) \in 0 .. icap - 1
    BY <1>2, <2>1, AtInIndex
  <2> QED BY <1>9, <2>2, ProbeAt
<1>11. map_find(k) = index[FindSlot(k)]
  BY <1>10 DEF map_find
<1> HIDE DEF k
<1>12. index[FindSlot(k)] \in LiveIn(entries, nent) /\ entries[index[FindSlot(k)]].key = k
  BY <1>3, <1>10, FindSlotType
<1>13. index[FindSlot(k)] = e
  BY <1>2, <1>12 DEF Distinct, k
<1> QED BY <1>10, <1>11, <1>13 DEF k

\* What map_find returns.
LEMMA FindSame ==
  ASSUME MapInv, NEW k \in Keys
  PROVE  /\ map_find(k) # Absent <=> FindSlot(k) # -1
         /\ map_find(k) # Absent => /\ map_find(k) \in LiveIn(entries, nent)
                                    /\ map_find(k) = index[FindSlot(k)]
                                    /\ entries[map_find(k)].key = k
         /\ map_find(k) = Absent => \A e \in LiveIn(entries, nent) : entries[e].key # k
<1>1. CASE FindSlot(k) = -1
  <2>1. map_find(k) = Absent
    BY <1>1 DEF map_find
  <2>2. \A e \in LiveIn(entries, nent) : entries[e].key # k
    BY <1>1, FindsLive
  <2> QED BY <1>1, <2>1, <2>2
<1>2. CASE FindSlot(k) # -1
  <2>1. map_find(k) = index[FindSlot(k)]
    BY <1>2 DEF map_find
  <2>2. index[FindSlot(k)] \in LiveIn(entries, nent) /\ entries[index[FindSlot(k)]].key = k
    BY <1>2, FindSlotType
  <2>3. index[FindSlot(k)] # Absent
    BY <2>2 DEF LiveIn, Absent
  <2> QED BY <1>2, <2>1, <2>2, <2>3
<1> QED BY <1>1, <1>2

-----------------------------------------------------------------------------
\* The map as it is made.
LEMMA InitMapInv == ASSUME Init PROVE MapInv
<1>1. /\ hash \in [Keys -> Nat] /\ len = 0 /\ entries = << >> /\ ecap = 0
      /\ icap = 0 /\ index = [s \in {} |-> Absent]
  BY HashAssumption DEF Init
<1>2. Len(entries) = 0 /\ entries \in Seq(EntryType)
  BY <1>1
<1>3. 0 .. icap - 1 = {}
  BY <1>1
<1>4. index \in [0 .. icap - 1 -> -1 .. nent]
  BY <1>1, <1>3 DEF nent
<1>5. TypeOK
  BY <1>1, <1>2, <1>4 DEF TypeOK, nent
<1>6. LiveIn(entries, nent) = {}
  BY <1>2 DEF LiveIn, nent
<1>7. Indexes(hash, index, entries, nent, icap)
  BY <1>2, <1>3, <1>4, <1>6 DEF Indexes, nent, LiveIn
<1>8. IndexInv
  BY <1>1, <1>2, <1>6, <1>7, FS_EmptySet DEF IndexInv, Distinct, nent
<1> QED BY <1>5, <1>8 DEF MapInv

\* Overwriting a value leaves the index, the keys and the counts alone.
LEMMA OverwriteMapInv ==
  ASSUME MapInv, NEW k \in Keys, NEW v \in Vals, Overwrite(k, v)
  PROVE  MapInv'
<1> DEFINE e == map_find(k)
<1>1. e \in LiveIn(entries, nent)
  BY FindSame DEF Overwrite
<1>2. /\ entries' = [entries EXCEPT ![e].val = v]
      /\ hash' = hash /\ len' = len /\ ecap' = ecap /\ icap' = icap /\ index' = index
  BY DEF Overwrite
<1> HIDE DEF e
<1>3. /\ entries \in Seq(EntryType) /\ Len(entries) \in Nat /\ e \in 1 .. Len(entries)
      /\ entries[e] \in EntryType
  BY <1>1 DEF MapInv, TypeOK, nent, LiveIn
<1>4. /\ entries' \in Seq(EntryType) /\ Len(entries') = Len(entries)
      /\ \A i \in 1 .. Len(entries) : /\ entries'[i].live = entries[i].live
                                      /\ entries'[i].key = entries[i].key
  BY <1>2, <1>3 DEF EntryType
<1>5. TypeOK'
  BY <1>2, <1>4 DEF MapInv, TypeOK, nent
<1>6. LiveIn(entries', Len(entries)) = LiveIn(entries, Len(entries))
  BY <1>4 DEF LiveIn
<1>7. Distinct(entries', Len(entries))
  <2>1. \A i \in LiveIn(entries, Len(entries)) : entries'[i].key = entries[i].key
    BY <1>4 DEF LiveIn
  <2> QED BY <1>6, <2>1 DEF Distinct, MapInv, IndexInv, nent
<1>8. Indexes(hash, index, entries', Len(entries), icap)
  <2>1. Indexes(hash, index, entries, Len(entries), icap)
    BY DEF MapInv, IndexInv, nent
  <2>2. ASSUME NEW s \in 0 .. icap - 1, index[s] > 0
        PROVE  entries'[index[s]].live /\ Placed(hash, index, entries', icap, s)
    <3>1. index[s] \in 1 .. Len(entries)
      BY <2>1, <2>2 DEF Indexes
    <3>2. entries[index[s]].live /\ Placed(hash, index, entries, icap, s)
      BY <2>1, <2>2 DEF Indexes
    <3>3. entries'[index[s]].key = entries[index[s]].key
      BY <1>4, <3>1
    <3> QED BY <1>4, <3>1, <3>2, <3>3 DEF Placed
  <2> QED BY <1>4, <2>1, <2>2 DEF Indexes
<1>9. IndexInv'
  BY <1>2, <1>4, <1>6, <1>7, <1>8 DEF MapInv, IndexInv, nent
<1> QED BY <1>5, <1>9 DEF MapInv

\* A deleted entry leaves the live ones, its slot the used ones.
LEMMA DeleteMapInv ==
  ASSUME MapInv, NEW k \in Keys, cl_map_del(k)
  PROVE  MapInv'
<1> DEFINE e == map_find(k)
           s == FindSlot(k)
<1>1. e \in LiveIn(entries, nent) /\ s \in 0 .. icap - 1 /\ index[s] = e
  BY FindSame, FindSlotType DEF cl_map_del
<1>2. /\ entries' = [entries EXCEPT ![e].live = FALSE]
      /\ index' = [index EXCEPT ![s] = -1] /\ len' = len - 1
      /\ hash' = hash /\ ecap' = ecap /\ icap' = icap
  BY DEF cl_map_del, Deleted
<1> HIDE DEF e, s
<1>3. /\ entries \in Seq(EntryType) /\ Len(entries) \in Nat /\ e \in 1 .. Len(entries)
      /\ entries[e] \in EntryType /\ icap \in Nat /\ entries[e].live
      /\ index \in [0 .. icap - 1 -> -1 .. Len(entries)]
      /\ len \in 0 .. Len(entries)
  BY <1>1 DEF MapInv, TypeOK, nent, LiveIn
<1>4. /\ entries' \in Seq(EntryType) /\ Len(entries') = Len(entries)
      /\ entries'[e].live = FALSE
      /\ \A i \in 1 .. Len(entries) : /\ i # e => entries'[i].live = entries[i].live
                                      /\ entries'[i].key = entries[i].key
  <2> DEFINE y == [entries[e] EXCEPT !.live = FALSE]
  <2>1. entries' = [entries EXCEPT ![e] = y]
    BY <1>2
  <2>2. y \in EntryType /\ y.live = FALSE /\ y.key = entries[e].key
    BY <1>3 DEF EntryType
  <2> HIDE DEF y
  <2> QED BY <1>3, <2>1, <2>2
<1>5. Indexes(hash, index', entries', Len(entries), icap)
  <2>1. Indexes(hash, index, entries, Len(entries), icap)
    BY DEF MapInv, IndexInv, nent
  <2>2. index[s] > 0
    BY <1>1, <1>3
  <2>3. /\ \A i \in 1 .. Len(entries) : entries'[i].key = entries[i].key
        /\ \A i \in 1 .. Len(entries) : i # index[s] => entries'[i].live = entries[i].live
        /\ entries'[index[s]].live = FALSE
    BY <1>1, <1>4
  <2>4. Indexes(hash, [index EXCEPT ![s] = -1], entries', Len(entries), icap)
    BY <1>1, <1>3, <2>1, <2>2, <2>3, DelIndexes
  <2> QED BY <1>2, <2>4
<1>6. /\ LiveIn(entries', Len(entries)) = LiveIn(entries, Len(entries)) \ {e}
      /\ e \in LiveIn(entries, Len(entries))
  BY <1>3, <1>4 DEF LiveIn
<1>7. Distinct(entries', Len(entries))
  <2>1. \A i \in LiveIn(entries, Len(entries)) : entries'[i].key = entries[i].key
    BY <1>4 DEF LiveIn
  <2> QED BY <1>6, <2>1 DEF Distinct, MapInv, IndexInv, nent
<1>8. Cardinality(LiveIn(entries', Len(entries))) = len - 1 /\ len >= 1
  <2>1. /\ IsFiniteSet(LiveIn(entries, Len(entries)))
        /\ Cardinality(LiveIn(entries, Len(entries))) = len
    BY <1>3, LiveInBounds DEF MapInv, IndexInv, nent
  <2>2. Cardinality(LiveIn(entries, Len(entries)) \ {e}) = len - 1
    BY <1>6, <2>1, FS_RemoveElement
  <2>3. len # 0
    BY <1>6, <2>1, FS_EmptySet
  <2> QED BY <1>3, <1>6, <2>2, <2>3
<1>9. TypeOK'
  <2>1. index' \in [0 .. icap - 1 -> -1 .. Len(entries)]
    BY <1>5 DEF Indexes
  <2>2. len' \in 0 .. Len(entries)
    BY <1>2, <1>3, <1>8
  <2> QED BY <1>2, <1>4, <2>1, <2>2 DEF MapInv, TypeOK, nent
<1>10. IndexInv'
  BY <1>2, <1>3, <1>4, <1>5, <1>7, <1>8 DEF MapInv, IndexInv, nent
<1> QED BY <1>9, <1>10 DEF MapInv

\* A new entry, after the rehash there may be.
LEMMA InsertMapInv ==
  ASSUME MapInv, NEW k \in Keys, NEW v \in Vals, Insert(k, v)
  PROVE  MapInv'
<1> DEFINE es == RehashedEntries
           idx == RehashedIndex
           n == NextIcap
           cap == RehashedEcap
           m == Len(es)
           x == Entry(k, v)
<1>1. ReadyFor(es, idx, n, cap)
  BY RehashReady
<1>2. /\ entries' = Append(es, x) /\ index' = map_index_put(idx, k, m + 1, n)
      /\ icap' = n /\ ecap' = NextEcap /\ len' = len + 1 /\ hash' = hash
  BY DEF Insert
<1>3. ecap' \in Nat /\ m + 1 <= ecap'
  <2>1. cap \in Nat /\ m <= cap /\ m \in Nat
    BY <1>1 DEF ReadyFor
  <2> HIDE DEF cap, m
  <2>2. NextEcap = IF m < cap THEN cap ELSE IF cap = 0 THEN FirstEcap ELSE 2 * cap
    BY DEF NextEcap, cap, m
  <2> QED BY <1>2, <2>1, <2>2, FirstEcapAssumption
<1>4. index' = PutAt(hash, idx, k, m + 1, n)
  BY <1>2, PutsAre
<1>5. x \in EntryType /\ x.live /\ x.key = k
  BY DEF Entry, EntryType
<1>6. \A e \in LiveIn(entries, nent) : entries[e].key # k
  BY FindSame DEF Insert
<1> HIDE DEF es, idx, n, cap, x
<1>7. /\ es \in Seq(EntryType) /\ n \in Nat /\ len \in Nat /\ len + 1 < n /\ m \in Nat
      /\ Indexes(hash, idx, es, m, n) /\ Distinct(es, m)
      /\ Cardinality(LiveIn(es, m)) = len
  BY <1>1 DEF ReadyFor
<1>8. \A e \in LiveIn(es, m) : es[e].key # k
  <2> SUFFICES ASSUME NEW e \in LiveIn(es, m) PROVE es[e].key # k
    OBVIOUS
  <2>1. PICK f \in LiveIn(entries, Len(entries)) : es[e] = entries[f]
    BY <1>1 DEF ReadyFor
  <2> QED BY <1>6, <2>1 DEF nent
<1> HIDE DEF m
<1>9. /\ entries' \in Seq(EntryType) /\ Len(entries') = m + 1 /\ entries'[m + 1] = x
      /\ \A e \in 1 .. m : entries'[e] = es[e]
  BY <1>2, <1>5, <1>7 DEF m
<1>10. hash[k] \in Nat
  BY HashOfKeys
<1>11. Indexes(hash, index', entries', m + 1, n)
  <2>1. Cardinality(LiveIn(es, m)) < n
    BY <1>7
  <2>2. PutStopsAt(hash, idx, k, n) # {}
    BY <1>7, <1>10, <2>1, PutFinds
  <2>3. entries'[m + 1].live /\ entries'[m + 1].key = k
    BY <1>5, <1>9
  <2>4. Indexes(hash, PutAt(hash, idx, k, m + 1, n), entries', m + 1, n)
    BY <1>7, <1>9, <1>10, <2>2, <2>3, PutIndexes
  <2> QED BY <1>4, <2>4
<1>12. LiveIn(entries', m + 1) = LiveIn(es, m) \cup {m + 1} /\ m + 1 \notin LiveIn(es, m)
  BY <1>5, <1>7, <1>9 DEF LiveIn
<1>13. Distinct(entries', m + 1)
  <2>1. \A e \in LiveIn(es, m) : entries'[e].key = es[e].key
    BY <1>9 DEF LiveIn
  <2>2. entries'[m + 1].key = k
    BY <1>5, <1>9
  <2> QED BY <1>7, <1>8, <1>12, <2>1, <2>2 DEF Distinct
<1>14. Cardinality(LiveIn(entries', m + 1)) = len + 1 /\ len + 1 \in 0 .. m + 1
  <2>1. IsFiniteSet(LiveIn(es, m)) /\ Cardinality(LiveIn(es, m)) \in 0 .. m
    BY <1>7, LiveInBounds
  <2>2. Cardinality(LiveIn(es, m) \cup {m + 1}) = Cardinality(LiveIn(es, m)) + 1
    BY <1>12, <2>1, FS_AddElement
  <2>3. Cardinality(LiveIn(es, m)) = len /\ len \in 0 .. m /\ m \in Nat
    BY <1>7, <2>1
  <2>4. Cardinality(LiveIn(entries', m + 1)) = len + 1
    BY Zenon, <1>12, <2>2, <2>3
  <2>5. len + 1 \in 0 .. m + 1
    BY <2>3
  <2> QED BY <2>4, <2>5
<1>15. TypeOK'
  <2>1. index' \in [0 .. n - 1 -> -1 .. m + 1]
    BY <1>11 DEF Indexes
  <2> QED BY <1>2, <1>3, <1>7, <1>9, <1>14, <2>1 DEF MapInv, TypeOK, nent
<1>16. IndexInv'
  BY <1>2, <1>7, <1>9, <1>11, <1>13, <1>14 DEF IndexInv, nent
<1> QED BY <1>15, <1>16 DEF MapInv

\* Every operation keeps the invariant.
LEMMA NextMapInv == ASSUME MapInv, [Next]_vars PROVE MapInv'
<1>1. CASE UNCHANGED vars
  BY <1>1 DEF vars, MapInv, TypeOK, IndexInv, nent
<1>2. ASSUME NEW k \in Keys, cl_map_del(k) PROVE MapInv'
  BY <1>2, DeleteMapInv
<1>3. ASSUME NEW k \in Keys, NEW v \in Vals, cl_map_set(k, v) PROVE MapInv'
  BY <1>3, OverwriteMapInv, InsertMapInv DEF cl_map_set
<1> QED BY <1>1, <1>2, <1>3 DEF Next

-----------------------------------------------------------------------------
LEMMA MapInvHolds == Spec => []MapInv
<1>1. Init => MapInv
  BY InitMapInv
<1>2. MapInv /\ [Next]_vars => MapInv'
  BY NextMapInv
<1> QED BY <1>1, <1>2, PTL DEF Spec

\* The fields keep their types and the entries fit the buffer.
THEOREM TypeCorrect == Spec => []TypeOK
<1>1. MapInv => TypeOK
  BY DEF MapInv
<1> QED BY <1>1, MapInvHolds, PTL

\* Used slots lead to live entries, each live entry has one slot, len counts
\* them, whatever was inserted, deleted and rehashed.
THEOREM IndexIsExact == Spec => []IndexExact
<1>1. MapInv => IndexExact
  <2> SUFFICES ASSUME MapInv PROVE IndexExact
    OBVIOUS
  <2>1. /\ Indexes(hash, index, entries, nent, icap)
        /\ len = Cardinality(LiveIn(entries, nent))
        /\ entries \in Seq(EntryType) /\ index \in [0 .. icap - 1 -> -1 .. nent]
    BY DEF MapInv, IndexInv, TypeOK
  <2>2. DOMAIN index = 0 .. icap - 1 /\ DOMAIN entries = 1 .. nent
    BY <2>1 DEF nent
  <2>3. \A s \in DOMAIN index : index[s] > 0 => entries[index[s]].live
    BY <2>1, <2>2 DEF Indexes
  <2>4. ASSUME NEW e \in DOMAIN entries, entries[e].live
        PROVE  Cardinality({s \in DOMAIN index : index[s] = e}) = 1
    <3>1. PICK s \in 0 .. icap - 1 : index[s] = e
      BY <2>1, <2>2, <2>4 DEF Indexes
    <3>2. \A t \in 0 .. icap - 1 : index[t] = e => t = s
      <4>1. index[s] > 0
        BY <2>2, <3>1
      <4> QED BY <2>1, <3>1, <4>1 DEF Indexes
    <3>3. {t \in DOMAIN index : index[t] = e} = {s}
      BY <2>2, <3>1, <3>2
    <3> QED BY <3>3, FS_Singleton
  <2>5. LiveIn(entries, nent) = {e \in DOMAIN entries : entries[e].live}
    BY <2>2 DEF LiveIn
  <2> QED BY <2>1, <2>3, <2>4, <2>5 DEF IndexExact
<1> QED BY <1>1, MapInvHolds, PTL

\* Deletions and rehashes open no gap before the slot of a key.
THEOREM ProbePathsHold == Spec => []ProbePathUnbroken
<1>1. MapInv => ProbePathUnbroken
  <2> SUFFICES ASSUME MapInv, NEW s \in DOMAIN index, index[s] > 0
               PROVE  \E p \in 0 .. icap - 1 :
                        /\ Probe(entries[index[s]].key, p, icap) = s
                        /\ \A q \in 0 .. p - 1 :
                             index[Probe(entries[index[s]].key, q, icap)] # Absent
    BY DEF ProbePathUnbroken
  <2>1. Placed(hash, index, entries, icap, s)
    BY DEF MapInv, IndexInv, TypeOK, Indexes
  <2>2. PICK p \in 0 .. icap - 1 :
           /\ At(hash, entries[index[s]].key, p, icap) = s
           /\ \A q \in 0 .. p - 1 : index[At(hash, entries[index[s]].key, q, icap)] # 0
    BY <2>1 DEF Placed
  <2> QED BY <2>2, ProbeAt DEF Absent
<1> QED BY <1>1, MapInvHolds, PTL

\* The unbounded loop of map_index_put ends, though neither tombstones nor
\* deleted slots count for the load factor.
THEOREM PutsEnd == Spec => []PutEnds
<1>1. MapInv => PutEnds
  <2> SUFFICES ASSUME MapInv, NEW k \in Keys
               PROVE  PutStops(RehashedIndex, k, NextIcap) # {}
    BY DEF PutEnds
  <2> DEFINE es == RehashedEntries
             idx == RehashedIndex
             n == NextIcap
             cap == RehashedEcap
  <2>1. ReadyFor(es, idx, n, cap)
    BY RehashReady
  <2> HIDE DEF es, idx, n, cap
  <2>2. /\ es \in Seq(EntryType) /\ n \in Nat /\ len \in Nat /\ len + 1 < n /\ Len(es) \in Nat
        /\ Indexes(hash, idx, es, Len(es), n)
        /\ Cardinality(LiveIn(es, Len(es))) = len
    BY <2>1 DEF ReadyFor
  <2>3. Cardinality(LiveIn(es, Len(es))) < n /\ hash[k] \in Nat
    BY <2>2, HashOfKeys
  <2>4. PutStopsAt(hash, idx, k, n) # {}
    BY <2>2, <2>3, PutFinds
  <2> QED BY <2>4, PutsAre DEF idx, n
<1> QED BY <1>1, MapInvHolds, PTL

-----------------------------------------------------------------------------
\* The pairs of the ordered map, as the refinement has them.
PairsOf(q) == [i \in DOMAIN q |-> [key |-> q[i].key, val |-> q[i].val]]

\* The operators of OrderedMap under the refinement.
LEMMA OrderedPairs ==
  ASSUME NEW q, q \in Seq(EntryType), q = Kept(entries)
  PROVE  /\ \A k : Ordered!Has(k) <=> \E i \in 1 .. Len(q) : q[i].key = k
         /\ \A k : Ordered!Place(k) = CHOOSE i \in 1 .. Len(q) : PairsOf(q)[i].key = k
         /\ \A i \in 1 .. Len(q) : PairsOf(q)[i] = [key |-> q[i].key, val |-> q[i].val]
         /\ \A k : Ordered!Get(k) = PairsOf(q)[Ordered!Place(k)].val
         /\ Ordered!KeySeq = [i \in 1 .. Len(q) |-> q[i].key]
<1>1. DOMAIN q = 1 .. Len(q)
  OBVIOUS
<1>2. DOMAIN PairsOf(q) = 1 .. Len(q)
  BY <1>1 DEF PairsOf
<1>3. \A i \in 1 .. Len(q) : PairsOf(q)[i] = [key |-> q[i].key, val |-> q[i].val]
  BY <1>1 DEF PairsOf
<1>4. [i \in DOMAIN Kept(entries) |->
              [key |-> Kept(entries)[i].key, val |-> Kept(entries)[i].val]] = PairsOf(q)
  BY DEF PairsOf
<1>5. \A i : Ordered!KeyAt(i) = PairsOf(q)[i].key
  BY <1>4 DEF Ordered!KeyAt
<1>6. \A k : Ordered!Has(k) <=> \E i \in 1 .. Len(q) : q[i].key = k
  BY <1>2, <1>3, <1>4, <1>5 DEF Ordered!Has
<1>7. \A k : Ordered!Place(k) = CHOOSE i \in 1 .. Len(q) : PairsOf(q)[i].key = k
  BY Zenon, <1>2, <1>4, <1>5 DEF Ordered!Place
<1>8. \A k : Ordered!Get(k) = PairsOf(q)[Ordered!Place(k)].val
  BY Zenon, <1>4 DEF Ordered!Get
<1>9. Ordered!KeySeq = [i \in 1 .. Len(q) |-> q[i].key]
  BY <1>2, <1>3, <1>4, <1>5 DEF Ordered!KeySeq
<1> QED BY <1>3, <1>6, <1>7, <1>8, <1>9

\* The pairs change as the live entries do.
LEMMA PairsSeq ==
  ASSUME NEW q \in Seq(EntryType)
  PROVE  /\ PairsOf(q) \in Seq([key : Keys, val : Vals]) /\ Len(PairsOf(q)) = Len(q)
         /\ \A i \in 1 .. Len(q) : PairsOf(q)[i] = [key |-> q[i].key, val |-> q[i].val]
<1> DEFINE Y == [key : Keys, val : Vals]
           n == Len(q)
           pair(i) == [key |-> q[i].key, val |-> q[i].val]
<1>1. \A i \in 1 .. n : pair(i) \in Y
  <2> SUFFICES ASSUME NEW i \in 1 .. n PROVE pair(i) \in Y
    OBVIOUS
  <2>1. q[i] \in EntryType
    OBVIOUS
  <2> QED BY <2>1 DEF EntryType
<1>2. PairsOf(q) = [i \in 1 .. n |-> pair(i)] /\ n \in Nat
  BY DEF PairsOf
<1> HIDE DEF Y, n, pair
<1>3. PairsOf(q) \in Seq(Y) /\ Len(PairsOf(q)) = n /\ \A i \in 1 .. n : PairsOf(q)[i] = pair(i)
  BY <1>1, <1>2
<1> QED BY <1>3 DEF Y, n, pair

LEMMA PairsLonger ==
  ASSUME NEW q \in Seq(EntryType), NEW x \in EntryType
  PROVE  PairsOf(Append(q, x)) = Append(PairsOf(q), [key |-> x.key, val |-> x.val])
<1> DEFINE y == [key |-> x.key, val |-> x.val]
           Y == [key : Keys, val : Vals]
           Q == Append(q, x)
           p == PairsOf(q)
           n == Len(q)
<1>1. y \in Y
  BY DEF EntryType
<1>2. /\ Q \in Seq(EntryType) /\ Len(Q) = n + 1 /\ Q[n + 1] = x /\ n \in Nat
      /\ \A i \in 1 .. n : Q[i] = q[i]
  OBVIOUS
<1>3. /\ p \in Seq(Y) /\ Len(p) = n
      /\ \A i \in 1 .. n : p[i] = [key |-> q[i].key, val |-> q[i].val]
  BY PairsSeq
<1>4. PairsOf(Q) \in Seq(Y) /\ Len(PairsOf(Q)) = n + 1
      /\ \A i \in 1 .. n + 1 : PairsOf(Q)[i] = [key |-> Q[i].key, val |-> Q[i].val]
  <2> HIDE DEF Q, n, Y
  <2> QED BY <1>2, PairsSeq DEF Y
<1> HIDE DEF y, Y, Q, p, n
<1>5. /\ Append(p, y) \in Seq(Y) /\ Len(Append(p, y)) = n + 1 /\ Append(p, y)[n + 1] = y
      /\ \A i \in 1 .. n : Append(p, y)[i] = p[i]
  BY <1>1, <1>2, <1>3
<1>6. \A i \in 1 .. n + 1 : PairsOf(Q)[i] = Append(p, y)[i]
  BY <1>2, <1>3, <1>4, <1>5 DEF y
<1>7. PairsOf(Q) = Append(p, y)
  BY <1>2, <1>4, <1>5, <1>6
<1> QED BY <1>7 DEF Q, p, y

LEMMA PairsRenewed ==
  ASSUME NEW q \in Seq(EntryType), NEW p \in Seq(EntryType), NEW r \in 1 .. Len(q),
         NEW x, Renewed(q, p, r, x), x.key = q[r].key
  PROVE  PairsOf(p) = [PairsOf(q) EXCEPT ![r].val = x.val]
<1> DEFINE n == Len(q)
           y == [key |-> q[r].key, val |-> x.val]
<1>1. /\ n \in Nat /\ Len(p) = n /\ \A j \in 1 .. n : p[j] = IF j = r THEN x ELSE q[j]
  BY DEF Renewed
<1>2. /\ DOMAIN PairsOf(q) = 1 .. n
      /\ \A i \in 1 .. n : PairsOf(q)[i] = [key |-> q[i].key, val |-> q[i].val]
  BY DEF PairsOf
<1>3. /\ PairsOf(p) = [i \in 1 .. n |-> [key |-> p[i].key, val |-> p[i].val]]
  BY <1>1 DEF PairsOf
<1>4. [PairsOf(q)[r] EXCEPT !.val = x.val] = y
  BY <1>2
<1>5. PairsOf(q) = [i \in 1 .. n |-> PairsOf(q)[i]]
  BY <1>2 DEF PairsOf
<1> HIDE DEF y
<1>6. [PairsOf(q) EXCEPT ![r].val = x.val] = [i \in 1 .. n |-> IF i = r THEN y ELSE PairsOf(q)[i]]
  <2>1. [PairsOf(q) EXCEPT ![r].val = x.val] = [PairsOf(q) EXCEPT ![r] = y]
    BY <1>4
  <2> QED BY <1>2, <1>5, <2>1
<1>7. \A i \in 1 .. n : [key |-> p[i].key, val |-> p[i].val] = IF i = r THEN y ELSE PairsOf(q)[i]
  BY <1>1, <1>2 DEF y
<1> QED BY <1>3, <1>6, <1>7

LEMMA PairsShortened ==
  ASSUME NEW q \in Seq(EntryType), NEW p \in Seq(EntryType), NEW r \in 1 .. Len(q),
         Shortened(q, p, r)
  PROVE  PairsOf(p) =
           [j \in 1 .. Len(PairsOf(q)) - 1 |-> PairsOf(q)[IF j < r THEN j ELSE j + 1]]
<1> DEFINE n == Len(q)
<1>1. /\ n \in Nat /\ Len(p) = n - 1 /\ r \in 1 .. n
      /\ \A j \in 1 .. n - 1 : p[j] = IF j < r THEN q[j] ELSE q[j + 1]
  BY DEF Shortened
<1>2. /\ Len(PairsOf(q)) = n
      /\ \A i \in 1 .. n : PairsOf(q)[i] = [key |-> q[i].key, val |-> q[i].val]
  BY PairsSeq
<1>3. PairsOf(p) = [i \in 1 .. n - 1 |-> [key |-> p[i].key, val |-> p[i].val]]
  BY <1>1 DEF PairsOf
<1>4. ASSUME NEW j \in 1 .. n - 1
      PROVE  [key |-> p[j].key, val |-> p[j].val] = PairsOf(q)[IF j < r THEN j ELSE j + 1]
  <2>1. CASE j < r
    BY <1>1, <1>2, <2>1
  <2>2. CASE ~(j < r)
    <3>1. p[j] = q[j + 1] /\ j + 1 \in 1 .. n
      BY <1>1, <2>2
    <3> QED BY <1>2, <2>2, <3>1
  <2> QED BY <2>1, <2>2
<1> QED BY <1>2, <1>3, <1>4

-----------------------------------------------------------------------------
\* Facts of a state: a key is in the ordered map iff the lookup finds it, and
\* its place is the one of its entry among the live ones.
LEMMA HasFinds ==
  ASSUME MapInv, NEW k \in Keys
  PROVE  Ordered!Has(k) <=> map_find(k) # Absent
<1> DEFINE q == Kept(entries)
<1>1. /\ q \in Seq(EntryType)
      /\ \A j \in 1 .. Len(q) : \E e \in LiveIn(entries, nent) : q[j] = entries[e]
      /\ \A e \in LiveIn(entries, nent) : \E j \in 1 .. Len(q) : q[j] = entries[e]
  BY LiveEntries DEF MapInv, TypeOK, nent
<1>2. Ordered!Has(k) <=> \E i \in 1 .. Len(q) : q[i].key = k
  BY <1>1, OrderedPairs
<1> HIDE DEF q
<1>3. ASSUME map_find(k) # Absent PROVE \E i \in 1 .. Len(q) : q[i].key = k
  BY <1>1, <1>3, FindSame
<1>4. ASSUME NEW i \in 1 .. Len(q), q[i].key = k PROVE map_find(k) # Absent
  BY <1>1, <1>4, FindSame
<1> QED BY <1>2, <1>3, <1>4

LEMMA PlaceIs ==
  ASSUME MapInv, NEW k \in Keys, NEW i \in 1 .. Len(Kept(entries)), Kept(entries)[i].key = k
  PROVE  Ordered!Place(k) = i
<1> DEFINE q == Kept(entries)
<1>1. /\ q \in Seq(EntryType)
      /\ \A j \in 1 .. Len(q) : \E e \in LiveIn(entries, nent) : q[j] = entries[e]
      /\ Distinct(q, Len(q))
  BY LiveEntries DEF MapInv, IndexInv, TypeOK, nent
<1>2. /\ Ordered!Place(k) = CHOOSE j \in 1 .. Len(q) : PairsOf(q)[j].key = k
      /\ \A j \in 1 .. Len(q) : PairsOf(q)[j] = [key |-> q[j].key, val |-> q[j].val]
  BY <1>1, OrderedPairs
<1>3. i \in 1 .. Len(q) /\ q[i].key = k
  OBVIOUS
<1> HIDE DEF q
<1>4. \A j \in 1 .. Len(q) : j \in LiveIn(q, Len(q))
  BY <1>1 DEF LiveIn
<1>5. \A j \in 1 .. Len(q) : PairsOf(q)[j].key = q[j].key
  <2>1. \A j \in 1 .. Len(q) : PairsOf(q)[j] = [key |-> q[j].key, val |-> q[j].val]
    BY <1>2
  <2> SUFFICES ASSUME NEW j \in 1 .. Len(q) PROVE PairsOf(q)[j].key = q[j].key
    OBVIOUS
  <2>3. PairsOf(q)[j] = [key |-> q[j].key, val |-> q[j].val]
    BY Zenon, <2>1
  <2>4. [key |-> q[j].key, val |-> q[j].val].key = q[j].key
    OBVIOUS
  <2> QED BY Zenon, <2>3, <2>4
<1>6. \A j \in 1 .. Len(q) : q[j].key = k => j = i
  BY <1>1, <1>3, <1>4 DEF Distinct
<1>7. \A j \in 1 .. Len(q) : PairsOf(q)[j].key = k <=> j = i
  BY <1>3, <1>5, <1>6
<1>8. (CHOOSE j \in 1 .. Len(q) : PairsOf(q)[j].key = k) = i
  BY <1>3, <1>7
<1> QED BY <1>2, <1>8

\* has, get, len and keys, read through the index, are the ordered map's.
THEOREM ReadsAgreeAlways == Spec => []ReadsAgree
<1>1. MapInv => ReadsAgree
  <2> SUFFICES ASSUME MapInv PROVE ReadsAgree
    OBVIOUS
  <2> DEFINE q == Kept(entries)
  <2>1. /\ q \in Seq(EntryType) /\ Len(q) = len
        /\ \A e \in LiveIn(entries, nent) : \E j \in 1 .. Len(q) : q[j] = entries[e]
    BY LiveEntries DEF MapInv, IndexInv, TypeOK, nent
  <2>2. ASSUME NEW k \in Keys PROVE cl_map_has(k) <=> Ordered!Has(k)
    BY HasFinds DEF cl_map_has
  <2>3. ASSUME NEW k \in Keys, cl_map_has(k) PROVE cl_map_get(k) = Ordered!Get(k)
    <3>1. map_find(k) \in LiveIn(entries, nent) /\ entries[map_find(k)].key = k
      BY <2>3, FindSame DEF cl_map_has
    <3>2. PICK j \in 1 .. Len(q) : q[j] = entries[map_find(k)]
      BY <2>1, <3>1
    <3>3. Ordered!Place(k) = j
      BY <3>1, <3>2, PlaceIs
    <3>4. Ordered!Get(k) = PairsOf(q)[j].val /\ PairsOf(q)[j] = [key |-> q[j].key, val |-> q[j].val]
      BY <2>1, <3>3, OrderedPairs
    <3> QED BY <3>2, <3>4 DEF cl_map_get
  <2>4. Ordered!KeySeq = [i \in 1 .. Len(q) |-> q[i].key]
    BY <2>1, OrderedPairs
  <2>5. cl_map_keys = Ordered!KeySeq
    BY <2>1, <2>4 DEF cl_map_keys
  <2>6. cl_map_len = Len(Ordered!KeySeq)
    <3> HIDE DEF q
    <3> QED BY <2>1, <2>4 DEF cl_map_len
  <2> QED BY <2>2, <2>3, <2>5, <2>6 DEF ReadsAgree
<1> QED BY <1>1, MapInvHolds, PTL

-----------------------------------------------------------------------------
\* Each step of the map, seen through the live entries.
OrderedStep(q, p) ==
  \E k \in Keys :
    \/ \E r \in 1 .. Len(q) : q[r].key = k /\ Shortened(q, p, r)
    \/ \E v \in Vals :
         \/ (\A j \in 1 .. Len(q) : q[j].key # k) /\ p = Append(q, Entry(k, v))
         \/ \E r \in 1 .. Len(q) : \E x :
              q[r].key = k /\ x.key = k /\ x.val = v /\ Renewed(q, p, r, x)

LEMMA StepOrdered ==
  ASSUME MapInv, NEW k \in Keys, cl_map_del(k) \/ \E v \in Vals : cl_map_set(k, v)
  PROVE  OrderedStep(Kept(entries), Kept(entries'))
<1>1. /\ entries \in Seq(EntryType) /\ Len(entries) \in Nat /\ nent = Len(entries)
  BY DEF MapInv, TypeOK, nent
<1>2. CASE cl_map_del(k)
  <2> DEFINE e == map_find(k)
             y == [entries[e] EXCEPT !.live = FALSE]
  <2>1. e \in 1 .. Len(entries) /\ entries[e].live /\ entries[e].key = k
    BY <1>1, <1>2, FindSame DEF cl_map_del, LiveIn
  <2>2. entries' = [entries EXCEPT ![e] = y]
    BY <1>2 DEF cl_map_del
  <2> HIDE DEF e
  <2>3. entries[e] \in EntryType
    BY <1>1, <2>1
  <2>4. y \in EntryType /\ y.live = FALSE
    BY <2>3 DEF EntryType
  <2> HIDE DEF y
  <2>5. /\ entries' \in Seq(EntryType) /\ Len(entries') = Len(entries) /\ ~entries'[e].live
        /\ \A i \in 1 .. Len(entries) : i # e => entries'[i] = entries[i]
    BY <1>1, <2>1, <2>2, <2>4
  <2>6. PICK r \in 1 .. Len(Kept(entries)) :
          /\ Kept(entries)[r] = entries[e]
          /\ ~entries'[e].live => Shortened(Kept(entries), Kept(entries'), r)
    BY <1>1, <2>1, <2>5, LiveOfChange
  <2> QED BY <2>1, <2>5, <2>6 DEF OrderedStep
<1>3. ASSUME NEW v \in Vals, Overwrite(k, v) PROVE OrderedStep(Kept(entries), Kept(entries'))
  <2> DEFINE e == map_find(k)
             y == [entries[e] EXCEPT !.val = v]
  <2>1. e \in 1 .. Len(entries) /\ entries[e].live /\ entries[e].key = k
    BY <1>1, <1>3, FindSame DEF Overwrite, LiveIn
  <2>2. entries' = [entries EXCEPT ![e] = y]
    BY <1>3 DEF Overwrite
  <2> HIDE DEF e
  <2>3. entries[e] \in EntryType
    BY <1>1, <2>1
  <2>4. y \in EntryType /\ y.live /\ y.key = k /\ y.val = v
    BY <2>1, <2>3 DEF EntryType
  <2> HIDE DEF y
  <2>5. /\ entries' \in Seq(EntryType) /\ Len(entries') = Len(entries) /\ entries'[e] = y
        /\ \A i \in 1 .. Len(entries) : i # e => entries'[i] = entries[i]
    BY <1>1, <2>1, <2>2, <2>4
  <2>6. PICK r \in 1 .. Len(Kept(entries)) :
          /\ Kept(entries)[r] = entries[e]
          /\ entries'[e].live => Renewed(Kept(entries), Kept(entries'), r, entries'[e])
    BY <1>1, <2>1, <2>5, LiveOfChange
  <2>7. Kept(entries)[r].key = k /\ Renewed(Kept(entries), Kept(entries'), r, y)
    BY <2>1, <2>4, <2>5, <2>6
  <2> QED BY <2>4, <2>7 DEF OrderedStep
<1>4. ASSUME NEW v \in Vals, Insert(k, v) PROVE OrderedStep(Kept(entries), Kept(entries'))
  <2> DEFINE es == RehashedEntries
             x == Entry(k, v)
  <2>1. es \in Seq(EntryType) /\ Kept(es) = Kept(entries)
    BY RehashReady DEF ReadyFor
  <2>2. x \in EntryType /\ x.live
    BY DEF Entry, EntryType
  <2>3. entries' = Append(es, x)
    BY <1>4 DEF Insert
  <2> HIDE DEF es, x
  <2>4. Kept(entries') = Append(Kept(entries), x)
    BY <2>1, <2>2, <2>3, LiveOfAppend
  <2>5. \A j \in 1 .. Len(Kept(entries)) : Kept(entries)[j].key # k
    <3>1. \A e \in LiveIn(entries, nent) : entries[e].key # k
      BY <1>4, FindSame DEF Insert
    <3>2. \A j \in 1 .. Len(Kept(entries)) :
            \E e \in LiveIn(entries, Len(entries)) : Kept(entries)[j] = entries[e]
      BY <1>1, LiveEntries
    <3> QED BY <1>1, <3>1, <3>2
  <2> QED BY <2>4, <2>5 DEF OrderedStep, x
<1> QED BY <1>2, <1>3, <1>4 DEF cl_map_set

\* Each such step is one of the ordered map.
LEMMA OrderedNext ==
  ASSUME MapInv, MapInv', OrderedStep(Kept(entries), Kept(entries'))
  PROVE  Ordered!Next
<1> DEFINE q == Kept(entries)
           p == Kept(entries')
<1>1. q \in Seq(EntryType) /\ p \in Seq(EntryType) /\ DOMAIN q = 1 .. Len(q)
  <2>1. entries \in Seq(EntryType) /\ entries' \in Seq(EntryType)
    BY DEF MapInv, TypeOK
  <2>2. q \in Seq(EntryType) /\ p \in Seq(EntryType)
    BY <2>1, LiveEntries
  <2> HIDE DEF q, p
  <2> QED BY <2>2
<1>2. /\ [i \in DOMAIN Kept(entries) |->
              [key |-> Kept(entries)[i].key, val |-> Kept(entries)[i].val]] = PairsOf(q)
      /\ [i \in DOMAIN Kept(entries') |->
              [key |-> Kept(entries')[i].key, val |-> Kept(entries')[i].val]] = PairsOf(p)
  BY DEF PairsOf
<1>3. PICK k \in Keys :
        \/ \E r \in 1 .. Len(q) : q[r].key = k /\ Shortened(q, p, r)
        \/ \E v \in Vals :
             \/ (\A j \in 1 .. Len(q) : q[j].key # k) /\ p = Append(q, Entry(k, v))
             \/ \E r \in 1 .. Len(q) : \E x :
                  q[r].key = k /\ x.key = k /\ x.val = v /\ Renewed(q, p, r, x)
  BY DEF OrderedStep
<1>4. Ordered!Has(k) <=> \E i \in 1 .. Len(q) : q[i].key = k
  BY <1>1, OrderedPairs
<1>5. \A r \in 1 .. Len(q) : q[r].key = k => Ordered!Place(k) = r
  BY PlaceIs
<1> HIDE DEF q, p
<1>6. ASSUME NEW r \in 1 .. Len(q), q[r].key = k, Shortened(q, p, r)
      PROVE  Ordered!Remove(k)
  <2>1. PairsOf(p) = [j \in 1 .. Len(PairsOf(q)) - 1 |-> PairsOf(q)[IF j < r THEN j ELSE j + 1]]
    BY <1>1, <1>6, PairsShortened
  <2>2. Ordered!Has(k) /\ Ordered!Place(k) = r
    BY <1>4, <1>5, <1>6
  <2> QED BY <1>2, <2>1, <2>2 DEF Ordered!Remove, Ordered!Without
<1>7. ASSUME NEW v \in Vals, \A j \in 1 .. Len(q) : q[j].key # k, p = Append(q, Entry(k, v))
      PROVE  Ordered!Insert(k, v)
  <2> DEFINE x == Entry(k, v)
  <2>1. x \in EntryType /\ x.key = k /\ x.val = v
    BY DEF Entry, EntryType
  <2> HIDE DEF x
  <2>2. PairsOf(Append(q, x)) = Append(PairsOf(q), [key |-> k, val |-> v])
    BY <1>1, <2>1, PairsLonger
  <2>3. PairsOf(p) = Append(PairsOf(q), [key |-> k, val |-> v])
    BY <1>7, <2>2 DEF x
  <2>4. ~Ordered!Has(k)
    BY <1>4, <1>7
  <2> QED BY <1>2, <2>3, <2>4 DEF Ordered!Insert
<1>8. ASSUME NEW v \in Vals, NEW r \in 1 .. Len(q), NEW x,
             q[r].key = k, x.key = k, x.val = v, Renewed(q, p, r, x)
      PROVE  Ordered!Overwrite(k, v)
  <2>1. PairsOf(p) = [PairsOf(q) EXCEPT ![r].val = v]
    BY <1>1, <1>8, PairsRenewed
  <2>2. Ordered!Has(k) /\ Ordered!Place(k) = r
    BY <1>4, <1>5, <1>8
  <2> QED BY <1>2, <2>1, <2>2 DEF Ordered!Overwrite
<1> QED BY <1>3, <1>6, <1>7, <1>8 DEF Ordered!Next

\* The map of the runtime implements the insertion-ordered map: a set is its
\* insertion or overwriting, a delete its removal, a rehash nothing at all.
THEOREM MapImplementsOrdered == Spec => ImplementsOrderedMap
<1> DEFINE pairs == [i \in DOMAIN Kept(entries) |->
              [key |-> Kept(entries)[i].key, val |-> Kept(entries)[i].val]]
<1>1. Init => Ordered!Init
  <2> SUFFICES ASSUME Init PROVE Ordered!Init
    OBVIOUS
  <2>1. entries \in Seq(EntryType) /\ Len(entries) = 0
    BY DEF Init
  <2>2. Kept(entries) = entries
    <3>1. \A i \in 1 .. Len(entries) : entries[i].live
      BY <2>1
    <3> QED BY <2>1, <3>1, LiveOfLive
  <2>3. entries = << >>
    BY DEF Init
  <2> QED BY <2>2, <2>3 DEF Ordered!Init
<1>2. MapInv /\ MapInv' /\ [Next]_vars => [Ordered!Next]_pairs
  <2> SUFFICES ASSUME MapInv, MapInv', [Next]_vars PROVE [Ordered!Next]_pairs
    OBVIOUS
  <2>1. CASE UNCHANGED vars
    <3>1. entries' = entries
      BY <2>1 DEF vars
    <3> QED BY <3>1
  <2>2. CASE Next
    <3>1. OrderedStep(Kept(entries), Kept(entries'))
      BY <2>2, StepOrdered DEF Next
    <3> QED BY <3>1, OrderedNext
  <2> QED BY <2>1, <2>2
<1> QED BY <1>1, <1>2, MapInvHolds, PTL DEF Spec, ImplementsOrderedMap, Ordered!Spec
=============================================================================
