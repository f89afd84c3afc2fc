----------------------------- MODULE Inductions -----------------------------
(***************************************************************************)
(* Induction for the proofs about this runtime's data structures. The      *)
(* library states induction over operators; here it is stated over sets,   *)
(* from the well-foundedness of < on Nat, so that a proof by induction     *)
(* names the set of the numbers it is true of. From it: functions defined  *)
(* by recursion over 0 .. N exist, the sum of a function over a set, which *)
(* the community modules define by a fold, does what a sum should, and the *)
(* loop that keeps the live entries of a buffer keeps those and no others, *)
(* in order, also after an entry is appended, renewed or deleted.          *)
(***************************************************************************)
EXTENDS Integers, FiniteSets, Functions, FiniteSetsExt, Tombstones,
        FiniteSetTheorems, WellFoundedInduction, TLAPS

(* A set of natural numbers that is not empty has a least element.         *)
LEMMA LeastNatural ==
  ASSUME NEW S \in SUBSET Nat, S # {}
  PROVE  \E m \in S : \A n \in S : m <= n
<1> DEFINE R == {ss \in Nat \X Nat : ss[1] < ss[2]}
<1>1. IsWellFoundedOn(R, Nat)
  BY NatLessThanWellFounded DEF OpToRel
<1> HIDE DEF R
<1>2. \E m \in S : \A n \in S : ~(<<n, m>> \in R)
  BY <1>1, WFMin
<1>3. \A m, n \in Nat : ~(<<n, m>> \in R) => m <= n
  BY DEF R
<1> QED BY Zenon, <1>2, <1>3

\* The minimum of a set of numbers is in it and below the others.
LEMMA MinIsLeast ==
  ASSUME NEW S \in SUBSET Nat, S # {}
  PROVE  Min(S) \in S /\ \A y \in S : Min(S) <= y
<1>1. \E x \in S : \A y \in S : x <= y
  BY LeastNatural
<1> QED BY <1>1 DEF Min

(* A set that holds 0, and with each number the next one, holds them all.  *)
LEMMA NaturalInduction ==
  ASSUME NEW S, 0 \in S, \A n \in Nat : n \in S => n + 1 \in S
  PROVE  Nat \subseteq S
<1> DEFINE T == Nat \ S
<1> SUFFICES ASSUME T # {} PROVE FALSE
  OBVIOUS
<1>1. PICK m \in T : \A n \in T : m <= n
  BY LeastNatural
<1>2. m - 1 \in Nat /\ m - 1 \notin T
  BY <1>1
<1> QED BY <1>1, <1>2

-----------------------------------------------------------------------------
(* g starts with c and follows the step functions d[1], ..., d[N] over S.  *)
Iterates(g, d, c, N, S) ==
  g \in [0 .. N -> S] /\ g[0] = c /\ \A n \in 1 .. N : g[n] = d[n][g[n - 1]]
IsStep(d, N, S) == d \in [1 .. N -> [S -> S]]

(* Recursion over 0 .. N: the sequence of iterates exists.                 *)
LEMMA Iteration ==
  ASSUME NEW N \in Nat, NEW S, NEW c \in S, NEW d, IsStep(d, N, S)
  PROVE  \E g : Iterates(g, d, c, N, S)
<1> USE DEF IsStep, Iterates
<1> DEFINE Upto(n, g) == g \in [0 .. n -> S] /\ g[0] = c /\ \A i \in 1 .. n : g[i] = d[i][g[i - 1]]
           T == {n \in Nat : n <= N => \E g : Upto(n, g)}
<1>1. 0 \in T
  <2>1. Upto(0, [i \in 0 .. 0 |-> c])
    OBVIOUS
  <2> QED BY <2>1
<1>2. ASSUME NEW n \in Nat, n \in T PROVE n + 1 \in T
  <2> SUFFICES ASSUME n + 1 <= N PROVE \E g : Upto(n + 1, g)
    OBVIOUS
  <2>1. PICK g : Upto(n, g)
    BY <1>2
  <2> DEFINE h == [i \in 0 .. n + 1 |-> IF i <= n THEN g[i] ELSE d[n + 1][g[n]]]
  <2>2. d[n + 1][g[n]] \in S
    BY <2>1
  <2>3. h \in [0 .. n + 1 -> S] /\ h[0] = c
    BY <2>1, <2>2
  <2>4. ASSUME NEW i \in 1 .. n + 1 PROVE h[i] = d[i][h[i - 1]]
    BY <2>1
  <2>5. Upto(n + 1, h)
    BY <2>3, <2>4
  <2> QED BY <2>5
<1>3. N \in T
  <2> HIDE DEF T
  <2> QED BY <1>1, <1>2, NaturalInduction
<1> QED BY <1>3

(* The same when the value at n is made of the value at any lesser number. *)
Recurs(h, p, d, c, N, S) ==
  h \in [0 .. N -> S] /\ h[0] = c /\ \A n \in 1 .. N : h[n] = d[n][h[p[n]]]

LEMMA Recursion ==
  ASSUME NEW N \in Nat, NEW S, NEW c \in S, NEW d, IsStep(d, N, S),
         NEW p, \A n \in 1 .. N : p[n] \in 0 .. n - 1
  PROVE  \E h : Recurs(h, p, d, c, N, S)
<1> USE DEF IsStep, Recurs
<1> DEFINE Upto(n, g) == g \in [0 .. n -> S] /\ g[0] = c /\ \A i \in 1 .. n : g[i] = d[i][g[p[i]]]
           T == {n \in Nat : n <= N => \E g : Upto(n, g)}
<1>1. 0 \in T
  <2>1. Upto(0, [i \in 0 .. 0 |-> c])
    OBVIOUS
  <2> QED BY <2>1
<1>2. ASSUME NEW n \in Nat, n \in T PROVE n + 1 \in T
  <2> SUFFICES ASSUME n + 1 <= N PROVE \E g : Upto(n + 1, g)
    OBVIOUS
  <2>1. PICK g : Upto(n, g)
    BY <1>2
  <2> DEFINE h == [i \in 0 .. n + 1 |-> IF i <= n THEN g[i] ELSE d[n + 1][g[p[n + 1]]]]
  <2>2. n + 1 \in 1 .. N /\ p[n + 1] \in 0 .. n
    OBVIOUS
  <2>3. d[n + 1][g[p[n + 1]]] \in S
    BY <2>1, <2>2
  <2>4. h \in [0 .. n + 1 -> S] /\ h[0] = c
    BY <2>1, <2>3
  <2>5. \A i \in 0 .. n : h[i] = g[i]
    OBVIOUS
  <2>6. ASSUME NEW i \in 1 .. n + 1 PROVE h[i] = d[i][h[p[i]]]
    <3>1. CASE i \in 1 .. n
      <4>1. p[i] \in 0 .. n /\ i \in 0 .. n
        BY <3>1
      <4> HIDE DEF h
      <4> QED BY <2>1, <2>5, <3>1, <4>1
    <3>2. CASE i = n + 1
      BY <2>2, <2>5, <3>2
    <3> QED BY <3>1, <3>2
  <2>7. Upto(n + 1, h)
    BY <2>4, <2>6
  <2> QED BY <2>7
<1>3. N \in T
  <2> HIDE DEF T
  <2> QED BY <1>1, <1>2, NaturalInduction
<1> QED BY <1>3

-----------------------------------------------------------------------------
(* SumFunctionOnSet(f, S) is g[S], for the g that adds up f over the subsets *)
(* of S by taking elements away one by one.                                *)
Pick(s) == CHOOSE x \in s : TRUE
IsSum(g, f, S) ==
  g = [s \in SUBSET S |-> IF s = {} THEN 0 ELSE f[Pick(s)] + g[s \ {Pick(s)}]]

LEMMA PickType == \A s : s # {} => Pick(s) \in s
BY DEF Pick

(* There is such a g on a finite set.                                      *)
LEMMA SumExists ==
  ASSUME NEW S, IsFiniteSet(S), NEW f, \A x \in S : f[x] \in Int
  PROVE  \E g \in [SUBSET S -> Int] : IsSum(g, f, S)
<1> DEFINE F == [SUBSET S -> Int]
           N == Cardinality(S)
           next(g) == [s \in SUBSET S |-> IF s = {} THEN 0 ELSE f[Pick(s)] + g[s \ {Pick(s)}]]
           d == [n \in 1 .. N |-> [g \in F |-> next(g)]]
           c == [s \in SUBSET S |-> 0]
<1>1. N \in Nat
  BY FS_CardinalityType
<1>2. ASSUME NEW g \in F PROVE next(g) \in F
  BY PickType
<1> HIDE DEF next
<1>3. d \in [1 .. N -> [F -> F]] /\ c \in F
  <2>1. c \in F
    OBVIOUS
  <2> HIDE DEF F, N, c
  <2>2. d \in [1 .. N -> [F -> F]]
    BY <1>2
  <2> QED BY <2>1, <2>2
<1>4. \A n \in 1 .. N : \A g \in F : d[n][g] = next(g)
  OBVIOUS
<1> HIDE DEF d, c, N, F
<1>5. PICK G : Iterates(G, d, c, N, F)
  BY <1>1, <1>3, Iteration DEF IsStep
<1> USE DEF Iterates
<1> DEFINE g == [s \in SUBSET S |-> G[Cardinality(s)][s]]
<1>6. \A s \in SUBSET S : IsFiniteSet(s) /\ Cardinality(s) \in 0 .. N
  BY FS_Subset, FS_CardinalityType DEF N
<1>7. g \in [SUBSET S -> Int]
  BY <1>5, <1>6 DEF F
<1>8. ASSUME NEW s \in SUBSET S, s # {} PROVE g[s] = f[Pick(s)] + g[s \ {Pick(s)}]
  <2>1. Pick(s) \in s /\ s \ {Pick(s)} \in SUBSET S
    BY <1>8, PickType
  <2>2. Cardinality(s \ {Pick(s)}) = Cardinality(s) - 1
    BY <1>6, <2>1, FS_RemoveElement
  <2>3. Cardinality(s) \in 1 .. N
    BY <1>6, <1>8, FS_EmptySet
  <2> DEFINE k == Cardinality(s)
  <2>4. k - 1 \in 0 .. N /\ k \in 1 .. N
    BY <1>1, <2>3
  <2> HIDE DEF k
  <2>5. G[k - 1] \in F
    BY <1>5, <2>4
  <2>6. G[k] = next(G[k - 1])
    BY <1>4, <1>5, <2>4, <2>5
  <2> QED BY <1>8, <2>1, <2>2, <2>6 DEF next, k
<1>9. g[{}] = 0
  BY <1>5, FS_EmptySet DEF c
<1> USE DEF next
<1>10. IsSum(g, f, S)
  BY <1>7, <1>8, <1>9 DEF IsSum
<1> QED BY <1>7, <1>10

LEMMA OneLess ==
  ASSUME NEW S, IsFiniteSet(S), NEW n \in Nat, Cardinality(S) = n + 1
  PROVE  S # {} /\ \A x \in S : Cardinality(S \ {x}) = n
<1>1. S # {}
  BY FS_EmptySet
<1>2. ASSUME NEW x \in S PROVE Cardinality(S \ {x}) = n
  BY FS_RemoveElement
<1> QED BY <1>1, <1>2

(* Two sums agree on a set on which the summands do.                       *)
LEMMA SumAgrees ==
  ASSUME NEW S, IsFiniteSet(S), NEW f, NEW g, IsSum(g, f, S),
         NEW T, NEW h, NEW k, IsSum(k, h, T),
         NEW R \in SUBSET (S \cap T), \A x \in R : f[x] = h[x]
  PROVE  g[R] = k[R]
<1> DEFINE U == {n \in Nat : \A s \in SUBSET R : Cardinality(s) = n => g[s] = k[s]}
<1>1. \A s \in SUBSET R : IsFiniteSet(s) /\ Cardinality(s) \in Nat
  BY FS_Subset, FS_CardinalityType
<1>2. 0 \in U
  BY <1>1, FS_EmptySet DEF IsSum
<1>3. ASSUME NEW n \in Nat, n \in U PROVE n + 1 \in U
  <2> SUFFICES ASSUME NEW s \in SUBSET R, Cardinality(s) = n + 1 PROVE g[s] = k[s]
    OBVIOUS
  <2>1. s # {}
    BY <1>1, OneLess
  <2>2. Pick(s) \in s /\ s \ {Pick(s)} \in SUBSET R
    BY <2>1, PickType
  <2>3. Cardinality(s \ {Pick(s)}) = n
    BY <1>1, <2>2, OneLess
  <2>4. g[s \ {Pick(s)}] = k[s \ {Pick(s)}] /\ f[Pick(s)] = h[Pick(s)]
    BY <1>3, <2>2, <2>3
  <2> QED BY ZenonT(30), <2>1, <2>4 DEF IsSum
<1> HIDE DEF U
<1>4. Nat \subseteq U
  BY <1>2, <1>3, NaturalInduction
<1> QED BY <1>1, <1>4 DEF U

(* And there is only one.                                                  *)
LEMMA SumUnique ==
  ASSUME NEW S, IsFiniteSet(S), NEW f, NEW g, NEW k, IsSum(g, f, S), IsSum(k, f, S)
  PROVE  g = k
<1>1. DOMAIN g = SUBSET S /\ DOMAIN k = SUBSET S
  BY DEF IsSum
<1>2. \A s \in SUBSET S : g[s] = k[s]
  BY SumAgrees
<1> QED BY <1>1, <1>2 DEF IsSum

(* The fold of the community modules is that sum.                          *)
LEMMA SumIsSum ==
  ASSUME NEW S, IsFiniteSet(S), NEW f, \A x \in S : f[x] \in Int
  PROVE  \E g \in [SUBSET S -> Int] : IsSum(g, f, S) /\ SumFunctionOnSet(f, S) = g[S]
<1> DEFINE sum == CHOOSE g : IsSum(g, f, S)
<1>1. SumFunctionOnSet(f, S) = sum[S]
  BY Zenon DEF SumFunctionOnSet, FoldFunctionOnSet, MapThenFoldSet, IsSum, Pick
<1>2. \E g : IsSum(g, f, S)
  BY SumExists
<1>3. IsSum(sum, f, S)
  BY Zenon, <1>2
<1> HIDE DEF sum
<1>4. PICK g \in [SUBSET S -> Int] : IsSum(g, f, S)
  BY SumExists
<1>5. sum = g
  BY <1>3, <1>4, SumUnique
<1> QED BY <1>1, <1>3, <1>4, <1>5

IsIntSum(g, f, S) ==
  IsSum(g, f, S) /\ g \in [SUBSET S -> Int] /\ \A x \in S : f[x] \in Int

AddsUp(g, f, S, y) == g[S] = f[y] + g[S \ {y}]

(* Whichever element is taken away first, the sum is the same.             *)
LEMMA SumRemoves ==
  ASSUME NEW S, IsFiniteSet(S), NEW f, NEW g, IsIntSum(g, f, S), NEW y \in S
  PROVE  AddsUp(g, f, S, y)
<1> USE DEF IsIntSum, AddsUp
<1> DEFINE OfSize(n) == \A s \in SUBSET S : Cardinality(s) = n =>
                          \A x \in s : g[s] = f[x] + g[s \ {x}]
           T == {n \in Nat : OfSize(n)}
<1>1. \A s \in SUBSET S : IsFiniteSet(s) /\ Cardinality(s) \in Nat
  BY FS_Subset, FS_CardinalityType
<1>2. 0 \in T
  BY <1>1, FS_EmptySet
<1>3. ASSUME NEW n \in Nat, n \in T PROVE n + 1 \in T
  <2> SUFFICES ASSUME NEW s \in SUBSET S, Cardinality(s) = n + 1, NEW x \in s
               PROVE  g[s] = f[x] + g[s \ {x}]
    OBVIOUS
  <2> DEFINE c == Pick(s)
  <2>1. c \in s
    BY PickType
  <2>2. g[s] = f[c] + g[s \ {c}]
    BY DEF IsSum
  <2>3. SUFFICES ASSUME x # c PROVE g[s] = f[x] + g[s \ {x}]
    BY <2>2
  <2> HIDE DEF c
  <2>4. /\ Cardinality(s \ {c}) = n /\ Cardinality(s \ {x}) = n
        /\ s \ {c} \in SUBSET S /\ s \ {x} \in SUBSET S
    BY <1>1, <2>1, OneLess
  <2>5. /\ g[s \ {c}] = f[x] + g[(s \ {c}) \ {x}]
        /\ g[s \ {x}] = f[c] + g[(s \ {x}) \ {c}]
    BY <1>3, <2>1, <2>3, <2>4
  <2>6. (s \ {c}) \ {x} = (s \ {x}) \ {c} /\ (s \ {c}) \ {x} \in SUBSET S
    OBVIOUS
  <2>7. /\ f[x] \in Int /\ f[c] \in Int /\ g[(s \ {x}) \ {c}] \in Int
    BY <2>1, <2>6
  <2>8. g[(s \ {c}) \ {x}] = g[(s \ {x}) \ {c}]
    BY <2>6
  <2>9. ASSUME NEW a \in Int, NEW b \in Int, NEW r \in Int PROVE a + (b + r) = b + (a + r)
    OBVIOUS
  <2>10. f[c] + (f[x] + g[(s \ {x}) \ {c}]) = f[x] + (f[c] + g[(s \ {x}) \ {c}])
    BY <2>7, <2>9
  <2> QED BY Zenon, <2>2, <2>5, <2>8, <2>10
<1> HIDE DEF T
<1>4. Nat \subseteq T
  BY <1>2, <1>3, NaturalInduction
<1>5. OfSize(Cardinality(S))
  BY <1>1, <1>4 DEF T
<1> QED BY <1>5

-----------------------------------------------------------------------------
(* What proofs about sums use: a sum of integers is one, and nothing adds  *)
(* up to 0; an element can be split off; equal summands have equal sums;   *)
(* a sum of natural numbers is one.                                        *)
LEMMA SumType ==
  ASSUME NEW S, IsFiniteSet(S), NEW f, \A x \in S : f[x] \in Int
  PROVE  SumFunctionOnSet(f, S) \in Int
<1>1. PICK g \in [SUBSET S -> Int] : IsSum(g, f, S) /\ SumFunctionOnSet(f, S) = g[S]
  BY SumIsSum
<1> QED BY <1>1

LEMMA SumOfNone == ASSUME NEW f PROVE SumFunctionOnSet(f, {}) = 0
<1>1. PICK g : IsSum(g, f, {}) /\ SumFunctionOnSet(f, {}) = g[{}]
  BY SumIsSum, FS_EmptySet
<1> QED BY <1>1 DEF IsSum

LEMMA SumWithout ==
  ASSUME NEW S, IsFiniteSet(S), NEW f, \A x \in S : f[x] \in Int, NEW y \in S
  PROVE  SumFunctionOnSet(f, S) = f[y] + SumFunctionOnSet(f, S \ {y})
<1>1. PICK g \in [SUBSET S -> Int] : IsSum(g, f, S) /\ SumFunctionOnSet(f, S) = g[S]
  BY SumIsSum
<1>2. IsFiniteSet(S \ {y})
  BY FS_RemoveElement
<1>3. PICK h \in [SUBSET (S \ {y}) -> Int] :
        IsSum(h, f, S \ {y}) /\ SumFunctionOnSet(f, S \ {y}) = h[S \ {y}]
  BY <1>2, SumIsSum
<1>4. g[S] = f[y] + g[S \ {y}]
  <2>1. IsIntSum(g, f, S)
    BY <1>1 DEF IsIntSum
  <2>2. AddsUp(g, f, S, y)
    BY <2>1, SumRemoves
  <2> QED BY <2>2 DEF AddsUp
<1>5. g[S \ {y}] = h[S \ {y}]
  BY <1>1, <1>2, <1>3, SumAgrees
<1> QED BY <1>1, <1>3, <1>4, <1>5

LEMMA SumSame ==
  ASSUME NEW S, IsFiniteSet(S), NEW f, NEW h, \A x \in S : f[x] \in Int /\ h[x] = f[x]
  PROVE  SumFunctionOnSet(h, S) = SumFunctionOnSet(f, S)
<1>1. \A x \in S : f[x] \in Int /\ h[x] \in Int
  OBVIOUS
<1>2. PICK g \in [SUBSET S -> Int] : IsSum(g, f, S) /\ SumFunctionOnSet(f, S) = g[S]
  BY <1>1, SumIsSum
<1>3. PICK k \in [SUBSET S -> Int] : IsSum(k, h, S) /\ SumFunctionOnSet(h, S) = k[S]
  BY <1>1, SumIsSum
<1>4. g[S] = k[S]
  BY <1>2, <1>3, SumAgrees
<1> QED BY <1>2, <1>3, <1>4

LEMMA SumOfNaturals ==
  ASSUME NEW S, IsFiniteSet(S), NEW f, \A x \in S : f[x] \in Nat
  PROVE  SumFunctionOnSet(f, S) \in Nat
<1>1. PICK g \in [SUBSET S -> Int] : IsSum(g, f, S) /\ SumFunctionOnSet(f, S) = g[S]
  <2>1. \A x \in S : f[x] \in Int
    OBVIOUS
  <2> QED BY <2>1, SumIsSum
<1> DEFINE T == {n \in Nat : \A s \in SUBSET S : Cardinality(s) = n => g[s] >= 0}
<1>2. \A s \in SUBSET S : IsFiniteSet(s) /\ Cardinality(s) \in Nat
  BY FS_Subset, FS_CardinalityType
<1>3. 0 \in T
  BY <1>1, <1>2, FS_EmptySet DEF IsSum
<1>4. ASSUME NEW n \in Nat, n \in T PROVE n + 1 \in T
  <2> SUFFICES ASSUME NEW s \in SUBSET S, Cardinality(s) = n + 1 PROVE g[s] >= 0
    OBVIOUS
  <2>1. s # {}
    BY <1>2, OneLess
  <2>2. Pick(s) \in s /\ s \ {Pick(s)} \in SUBSET S
    BY <2>1, PickType
  <2>3. Cardinality(s \ {Pick(s)}) = n
    BY <1>2, <2>2, OneLess
  <2>4. g[s \ {Pick(s)}] >= 0 /\ f[Pick(s)] \in Nat
    BY <1>4, <2>2, <2>3
  <2>5. g[s] = f[Pick(s)] + g[s \ {Pick(s)}]
    BY <1>1, <2>1 DEF IsSum
  <2> QED BY <2>2, <2>4, <2>5
<1> HIDE DEF T
<1>5. Nat \subseteq T
  BY <1>3, <1>4, NaturalInduction
<1> QED BY <1>1, <1>2, <1>5 DEF T

-----------------------------------------------------------------------------
\* The loop that keeps the live entries, as a function of how far it has come.
IsKept(K, es) ==
  K = [i \in 0 .. Len(es) |->
        IF i = 0 THEN << >>
        ELSE IF es[i].live THEN Append(K[i - 1], es[i]) ELSE K[i - 1]]

Keeps(K, es, E) ==
  /\ K \in [0 .. Len(es) -> Seq(E)]
  /\ K[0] = << >>
  /\ \A i \in 1 .. Len(es) :
       K[i] = IF es[i].live THEN Append(K[i - 1], es[i]) ELSE K[i - 1]

LEMMA KeptExists ==
  ASSUME NEW E, NEW es \in Seq(E)
  PROVE  \E K : IsKept(K, es)
<1> DEFINE N == Len(es)
           S == Seq(E)
           c == << >>
           next(i, q) == IF es[i].live THEN Append(q, es[i]) ELSE q
           d == [i \in 1 .. N |-> [q \in S |-> next(i, q)]]
<1>1. N \in Nat /\ c \in S
  OBVIOUS
<1>2. \A i \in 1 .. N : \A q \in S : next(i, q) \in S
  OBVIOUS
<1> HIDE DEF S, N, c, next
<1>3. IsStep(d, N, S)
  BY <1>2 DEF IsStep
<1>4. \A i \in 1 .. N : \A q \in S : d[i][q] = next(i, q)
  OBVIOUS
<1> HIDE DEF d
<1>5. PICK g : Iterates(g, d, c, N, S)
  BY <1>1, <1>3, Iteration
<1>6. /\ g \in [0 .. N -> S] /\ g[0] = c
      /\ \A i \in 1 .. N : g[i] = d[i][g[i - 1]]
  BY <1>5 DEF Iterates
<1>7. \A i \in 1 .. N : g[i] = next(i, g[i - 1])
  <2> SUFFICES ASSUME NEW i \in 1 .. N PROVE g[i] = next(i, g[i - 1])
    OBVIOUS
  <2>1. i - 1 \in 0 .. N
    BY <1>1
  <2> QED BY <1>4, <1>6, <2>1
<1>8. \A i \in 0 .. N : g[i] = IF i = 0 THEN c ELSE next(i, g[i - 1])
  BY <1>1, <1>6, <1>7
<1>9. IsKept(g, es)
  BY <1>6, <1>8 DEF IsKept, N, c, next
<1> QED BY <1>9

LEMMA KeptKeeps ==
  ASSUME NEW E, NEW es \in Seq(E), NEW K, IsKept(K, es)
  PROVE  Keeps(K, es, E)
<1> DEFINE N == Len(es)
           T == {i \in Nat : i <= N => K[i] \in Seq(E)}
<1>1. \A i \in 0 .. N : K[i] = IF i = 0 THEN << >>
                          ELSE IF es[i].live THEN Append(K[i - 1], es[i]) ELSE K[i - 1]
  BY Zenon DEF IsKept
<1>2. 0 \in 0 .. N /\ \A i \in 1 .. N : i \in 0 .. N /\ i # 0
  OBVIOUS
<1>3. K[0] = << >>
  BY Zenon, <1>1, <1>2
<1>4. \A i \in 1 .. N : K[i] = IF es[i].live THEN Append(K[i - 1], es[i]) ELSE K[i - 1]
  BY Zenon, <1>1, <1>2
<1>5. 0 \in T
  <2>1. << >> \in Seq(E)
    OBVIOUS
  <2> QED BY <1>3, <2>1
<1>6. ASSUME NEW i \in Nat, i \in T PROVE i + 1 \in T
  <2> SUFFICES ASSUME i + 1 <= N PROVE K[i + 1] \in Seq(E)
    OBVIOUS
  <2>1. K[i] \in Seq(E) /\ i + 1 \in 1 .. N /\ es[i + 1] \in E
    BY <1>6
  <2>2. K[i + 1] = IF es[i + 1].live THEN Append(K[i], es[i + 1]) ELSE K[i]
    BY <1>4, <2>1
  <2> QED BY <2>1, <2>2
<1> HIDE DEF T
<1>7. Nat \subseteq T
  BY <1>5, <1>6, NaturalInduction
<1>8. \A i \in 0 .. N : K[i] \in Seq(E)
  BY <1>7 DEF T
<1>9. K = [i \in 0 .. N |-> K[i]]
  BY DEF IsKept
<1>10. K \in [0 .. N -> Seq(E)]
  BY <1>8, <1>9
<1> QED BY <1>3, <1>4, <1>10 DEF Keeps

\* One turn of that loop.
LEMMA KeepsNext ==
  ASSUME NEW E, NEW es \in Seq(E), NEW K, Keeps(K, es, E), NEW i \in Nat, i + 1 <= Len(es)
  PROVE  /\ K[i + 1] = IF es[i + 1].live THEN Append(K[i], es[i + 1]) ELSE K[i]
         /\ K[i] \in Seq(E) /\ es[i + 1] \in E
<1>1. i + 1 \in 1 .. Len(es) /\ (i + 1) - 1 = i /\ i \in 0 .. Len(es)
  OBVIOUS
<1>2. K[i + 1] = IF es[i + 1].live THEN Append(K[(i + 1) - 1], es[i + 1]) ELSE K[(i + 1) - 1]
  BY Zenon, <1>1 DEF Keeps
<1>3. K[i] \in Seq(E)
  BY <1>1 DEF Keeps
<1>4. es[i + 1] \in E
  BY <1>1
<1> QED BY <1>1, <1>2, <1>3, <1>4

LEMMA KeptIs ==
  ASSUME NEW E, NEW es \in Seq(E)
  PROVE  \E K : Keeps(K, es, E) /\ Kept(es) = K[Len(es)]
<1> DEFINE K == CHOOSE x : IsKept(x, es)
<1>1. Kept(es) = K[Len(es)]
  BY Zenon DEF Kept, IsKept
<1>2. \E x : IsKept(x, es)
  BY KeptExists
<1>3. IsKept(K, es)
  BY Zenon, <1>2
<1> HIDE DEF K
<1>4. Keeps(K, es, E)
  BY <1>3, KeptKeeps
<1> QED BY <1>1, <1>4

-----------------------------------------------------------------------------
\* Buffers that agree up to m keep the same up to there.
LEMMA KeptAgrees ==
  ASSUME NEW E, NEW es \in Seq(E), NEW fs \in Seq(E), NEW K, NEW J,
         Keeps(K, es, E), Keeps(J, fs, E),
         NEW m \in Nat, m <= Len(es), m <= Len(fs), \A i \in 1 .. m : es[i] = fs[i]
  PROVE  \A i \in 0 .. m : K[i] = J[i]
<1> DEFINE T == {i \in Nat : i <= m => K[i] = J[i]}
<1>1. 0 \in T
  BY DEF Keeps
<1>2. ASSUME NEW i \in Nat, i \in T PROVE i + 1 \in T
  <2> SUFFICES ASSUME i + 1 <= m PROVE K[i + 1] = J[i + 1]
    OBVIOUS
  <2>1. K[i] = J[i] /\ es[i + 1] = fs[i + 1]
    BY <1>2
  <2>2. K[i + 1] = IF es[i + 1].live THEN Append(K[i], es[i + 1]) ELSE K[i]
    BY KeepsNext
  <2>3. J[i + 1] = IF fs[i + 1].live THEN Append(J[i], fs[i + 1]) ELSE J[i]
    <3>1. i + 1 <= Len(fs)
      OBVIOUS
    <3> QED BY <3>1, KeepsNext
  <2> QED BY <2>1, <2>2, <2>3
<1> HIDE DEF T
<1>3. Nat \subseteq T
  BY <1>1, <1>2, NaturalInduction
<1> QED BY <1>3 DEF T

\* The place that a live entry e has among those kept, once and for all.
LEMMA KeptRank ==
  ASSUME NEW E, NEW es \in Seq(E), NEW K, Keeps(K, es, E),
         NEW e \in 1 .. Len(es), es[e].live
  PROVE  \A i \in e .. Len(es) :
           Len(K[e]) \in 1 .. Len(K[i]) /\ K[i][Len(K[e])] = es[e]
<1> DEFINE r == Len(K[e])
           T == {i \in Nat : e <= i /\ i <= Len(es) =>
                               r \in 1 .. Len(K[i]) /\ K[i][r] = es[e]}
<1>1. \A i \in 0 .. Len(es) : K[i] \in Seq(E)
  BY DEF Keeps
<1>2. r \in 1 .. Len(K[e]) /\ K[e][r] = es[e]
  <2>1. K[e] = Append(K[e - 1], es[e]) /\ K[e - 1] \in Seq(E) /\ es[e] \in E
    <3>1. e - 1 \in Nat /\ (e - 1) + 1 = e /\ (e - 1) + 1 <= Len(es)
      OBVIOUS
    <3>2. K[e] = IF es[e].live THEN Append(K[e - 1], es[e]) ELSE K[e - 1]
      BY Zenon DEF Keeps
    <3>3. e - 1 \in 0 .. Len(es)
      BY <3>1
    <3> QED BY <1>1, <3>2, <3>3
  <2> QED BY <2>1
<1>3. 0 \in T
  OBVIOUS
<1>4. ASSUME NEW i \in Nat, i \in T PROVE i + 1 \in T
  <2> SUFFICES ASSUME e <= i + 1, i + 1 <= Len(es)
               PROVE  r \in 1 .. Len(K[i + 1]) /\ K[i + 1][r] = es[e]
    OBVIOUS
  <2>1. CASE e = i + 1
    BY <1>2, <2>1
  <2>2. CASE e <= i
    <3>1. r \in 1 .. Len(K[i]) /\ K[i][r] = es[e]
      BY <1>4, <2>2
    <3>2. /\ K[i + 1] = IF es[i + 1].live THEN Append(K[i], es[i + 1]) ELSE K[i]
          /\ K[i] \in Seq(E) /\ es[i + 1] \in E
      BY KeepsNext
    <3> HIDE DEF r
    <3> QED BY <3>1, <3>2
  <2> QED BY <2>1, <2>2
<1> HIDE DEF T, r
<1>5. Nat \subseteq T
  BY <1>3, <1>4, NaturalInduction
<1> QED BY <1>5 DEF T, r

\* Every place among those kept is that of a live entry.
LEMMA KeptOnto ==
  ASSUME NEW E, NEW es \in Seq(E), NEW K, Keeps(K, es, E)
  PROVE  \A i \in 0 .. Len(es) : \A j \in 1 .. Len(K[i]) :
           \E e \in 1 .. i : es[e].live /\ Len(K[e]) = j
<1> DEFINE T == {i \in Nat : i <= Len(es) =>
                   \A j \in 1 .. Len(K[i]) : \E e \in 1 .. i : es[e].live /\ Len(K[e]) = j}
<1>1. \A i \in 0 .. Len(es) : K[i] \in Seq(E)
  BY DEF Keeps
<1>2. 0 \in T
  BY DEF Keeps
<1>3. ASSUME NEW i \in Nat, i \in T PROVE i + 1 \in T
  <2> SUFFICES ASSUME i + 1 <= Len(es), NEW j \in 1 .. Len(K[i + 1])
               PROVE  \E e \in 1 .. i + 1 : es[e].live /\ Len(K[e]) = j
    OBVIOUS
  <2>1. /\ K[i + 1] = IF es[i + 1].live THEN Append(K[i], es[i + 1]) ELSE K[i]
        /\ K[i] \in Seq(E) /\ es[i + 1] \in E
    BY KeepsNext
  <2>2. CASE j \in 1 .. Len(K[i])
    BY <1>3, <2>2
  <2>3. CASE ~(j \in 1 .. Len(K[i]))
    <3>1. es[i + 1].live /\ j = Len(K[i + 1])
      BY <2>1, <2>3
    <3> QED BY <3>1
  <2> QED BY <2>2, <2>3
<1> HIDE DEF T
<1>4. Nat \subseteq T
  BY <1>2, <1>3, NaturalInduction
<1> QED BY <1>4 DEF T

\* A live entry at the end is kept at the end.
LEMMA LiveOfAppend ==
  ASSUME NEW E, NEW es \in Seq(E), NEW x \in E, x.live
  PROVE  Kept(Append(es, x)) = Append(Kept(es), x)
<1> DEFINE fs == Append(es, x)
<1>1. fs \in Seq(E) /\ Len(fs) = Len(es) + 1 /\ fs[Len(es) + 1] = x
      /\ \A i \in 1 .. Len(es) : es[i] = fs[i]
  OBVIOUS
<1>2. PICK K : Keeps(K, es, E) /\ Kept(es) = K[Len(es)]
  BY KeptIs
<1> HIDE DEF fs
<1>3. PICK J : Keeps(J, fs, E) /\ Kept(fs) = J[Len(fs)]
  BY <1>1, KeptIs
<1> DEFINE N == Len(es)
<1>4. N \in Nat /\ N <= Len(fs) /\ N + 1 <= Len(fs)
  BY <1>1
<1>5. K[N] = J[N]
  BY <1>1, <1>2, <1>3, <1>4, KeptAgrees
<1>6. J[N + 1] = Append(J[N], x)
  <2>1. J[N + 1] = IF fs[N + 1].live THEN Append(J[N], fs[N + 1]) ELSE J[N]
    <3> HIDE DEF N
    <3> QED BY <1>1, <1>3, <1>4, KeepsNext
  <2>2. fs[N + 1] = x
    BY <1>1
  <2> QED BY <2>1, <2>2
<1> QED BY <1>1, <1>2, <1>3, <1>5, <1>6 DEF fs

\* A buffer without tombstones is kept as it is.
LEMMA LiveOfLive ==
  ASSUME NEW E, NEW es \in Seq(E), \A i \in 1 .. Len(es) : es[i].live
  PROVE  Kept(es) = es
<1>1. PICK K : Keeps(K, es, E) /\ Kept(es) = K[Len(es)]
  BY KeptIs
<1> DEFINE Same(i) == Len(K[i]) = i /\ \A j \in 1 .. i : K[i][j] = es[j]
           T == {i \in Nat : i <= Len(es) => Same(i)}
<1>2. 0 \in T
  BY <1>1 DEF Keeps
<1>3. ASSUME NEW i \in Nat, i \in T PROVE i + 1 \in T
  <2> SUFFICES ASSUME i + 1 <= Len(es) PROVE Same(i + 1)
    OBVIOUS
  <2>1. /\ K[i + 1] = IF es[i + 1].live THEN Append(K[i], es[i + 1]) ELSE K[i]
        /\ K[i] \in Seq(E) /\ es[i + 1] \in E
    BY <1>1, KeepsNext
  <2>2. K[i + 1] = Append(K[i], es[i + 1])
    BY <2>1
  <2>3. Len(K[i]) = i /\ \A j \in 1 .. i : K[i][j] = es[j]
    BY <1>3
  <2> QED BY <2>1, <2>2, <2>3
<1> HIDE DEF T
<1>4. Nat \subseteq T
  BY <1>2, <1>3, NaturalInduction
<1>5. Same(Len(es))
  BY <1>4 DEF T
<1>6. K[Len(es)] \in Seq(E)
  BY <1>1 DEF Keeps
<1> QED BY <1>1, <1>5, <1>6

\* p is q with x as its r-th element; p is q without its r-th element.
Renewed(q, p, r, x) == Len(p) = Len(q) /\ \A j \in 1 .. Len(q) : p[j] = IF j = r THEN x ELSE q[j]
Shortened(q, p, r) ==
  Len(p) = Len(q) - 1 /\ \A j \in 1 .. Len(p) : p[j] = IF j < r THEN q[j] ELSE q[j + 1]

\* Both survive one more element, and a last element can be taken away.
LEMMA LongerBy ==
  ASSUME NEW E, NEW q \in Seq(E), NEW y \in E
  PROVE  /\ Len(Append(q, y)) = Len(q) + 1
         /\ Append(q, y)[Len(q) + 1] = y
         /\ \A j \in 1 .. Len(q) : Append(q, y)[j] = q[j]
OBVIOUS

LEMMA RenewedLonger ==
  ASSUME NEW E, NEW q \in Seq(E), NEW p \in Seq(E), NEW y \in E, NEW x,
         NEW r \in 1 .. Len(q), Renewed(q, p, r, x)
  PROVE  Renewed(Append(q, y), Append(p, y), r, x)
<1> DEFINE Q == Append(q, y)
           P == Append(p, y)
           n == Len(q)
<1>1. n \in Nat /\ Len(p) = n /\ \A j \in 1 .. n : p[j] = IF j = r THEN x ELSE q[j]
  BY DEF Renewed
<1>2. /\ Len(Q) = n + 1 /\ Q[n + 1] = y /\ \A j \in 1 .. n : Q[j] = q[j]
      /\ Len(P) = n + 1 /\ P[n + 1] = y /\ \A j \in 1 .. n : P[j] = p[j]
  BY <1>1, LongerBy
<1> HIDE DEF Q, P, n
<1>3. r \in 1 .. n
  BY DEF n
<1>4. Renewed(Q, P, r, x)
  BY <1>1, <1>2, <1>3 DEF Renewed
<1> QED BY <1>4 DEF Q, P

LEMMA ShortenedLonger ==
  ASSUME NEW E, NEW q \in Seq(E), NEW p \in Seq(E), NEW y \in E,
         NEW r \in 1 .. Len(q), Shortened(q, p, r)
  PROVE  Shortened(Append(q, y), Append(p, y), r)
<1> DEFINE Q == Append(q, y)
           P == Append(p, y)
           n == Len(p)
<1>1. n \in Nat /\ Len(q) = n + 1 /\ r \in 1 .. n + 1
      /\ \A j \in 1 .. n : p[j] = IF j < r THEN q[j] ELSE q[j + 1]
  BY DEF Shortened
<1>2. /\ Len(Q) = n + 2 /\ Q[n + 2] = y /\ \A j \in 1 .. n + 1 : Q[j] = q[j]
      /\ Len(P) = n + 1 /\ P[n + 1] = y /\ \A j \in 1 .. n : P[j] = p[j]
  BY <1>1, LongerBy
<1> HIDE DEF Q, P, n
<1>3. Len(P) = Len(Q) - 1
  BY <1>1, <1>2
<1>4. ASSUME NEW j \in 1 .. n + 1 PROVE P[j] = IF j < r THEN Q[j] ELSE Q[j + 1]
  <2>1. CASE j = n + 1
    <3>1. ~(j < r) /\ j + 1 = n + 2
      BY <1>1, <2>1
    <3> QED BY <1>2, <2>1, <3>1
  <2>2. CASE j \in 1 .. n
    <3>1. P[j] = p[j] /\ Q[j] = q[j] /\ Q[j + 1] = q[j + 1]
      BY <1>1, <1>2, <2>2
    <3> QED BY <1>1, <2>2, <3>1
  <2> QED BY <1>1, <2>1, <2>2
<1>5. Shortened(Q, P, r)
  BY <1>2, <1>3, <1>4 DEF Shortened
<1> QED BY <1>5 DEF Q, P

LEMMA ShortenedLast ==
  ASSUME NEW E, NEW q \in Seq(E), NEW y \in E
  PROVE  Shortened(Append(q, y), q, Len(Append(q, y)))
<1> DEFINE Q == Append(q, y)
           n == Len(q)
<1>1. n \in Nat /\ Len(Q) = n + 1 /\ \A j \in 1 .. n : Q[j] = q[j]
  OBVIOUS
<1> HIDE DEF Q
<1>2. \A j \in 1 .. n : j < Len(Q)
  BY <1>1
<1>3. Shortened(Q, q, Len(Q))
  BY <1>1, <1>2 DEF Shortened
<1> QED BY <1>3 DEF Q

\* Replacing a live entry e by another replaces it among those kept; a dead one
\* in its place removes it from them.
LEMMA LiveOfChange ==
  ASSUME NEW E, NEW es \in Seq(E), NEW fs \in Seq(E), Len(fs) = Len(es),
         NEW e \in 1 .. Len(es), es[e].live,
         \A i \in 1 .. Len(es) : i # e => fs[i] = es[i]
  PROVE  \E r \in 1 .. Len(Kept(es)) :
           /\ Kept(es)[r] = es[e]
           /\ fs[e].live => Renewed(Kept(es), Kept(fs), r, fs[e])
           /\ ~fs[e].live => Shortened(Kept(es), Kept(fs), r)
<1>1. PICK K : Keeps(K, es, E) /\ Kept(es) = K[Len(es)]
  BY KeptIs
<1>2. PICK J : Keeps(J, fs, E) /\ Kept(fs) = J[Len(fs)]
  BY KeptIs
<1> DEFINE r == Len(K[e])
           N == Len(es)
           Then(i) == /\ fs[e].live => Renewed(K[i], J[i], r, fs[e])
                      /\ ~fs[e].live => Shortened(K[i], J[i], r)
           T == {i \in Nat : e <= i /\ i <= N => Then(i)}
<1>3. \A i \in e .. N : r \in 1 .. Len(K[i]) /\ K[i][r] = es[e]
  BY <1>1, KeptRank
<1>4. Then(e)
  <2>1. e - 1 \in Nat /\ (e - 1) + 1 = e /\ e - 1 <= Len(es) /\ e - 1 <= Len(fs)
        /\ \A i \in 1 .. e - 1 : es[i] = fs[i]
    OBVIOUS
  <2>2. K[e - 1] = J[e - 1]
    <3> DEFINE m == e - 1
    <3>1. m \in Nat /\ m <= Len(es) /\ m <= Len(fs) /\ \A i \in 1 .. m : es[i] = fs[i]
      BY <2>1
    <3>2. m \in 0 .. m
      BY <3>1
    <3> HIDE DEF m
    <3>3. \A i \in 0 .. m : K[i] = J[i]
      BY <1>1, <1>2, <3>1, KeptAgrees
    <3> QED BY <3>2, <3>3 DEF m
  <2>3. /\ K[e] = IF es[e].live THEN Append(K[e - 1], es[e]) ELSE K[e - 1]
        /\ K[e - 1] \in Seq(E) /\ es[e] \in E /\ fs[e] \in E
        /\ J[e] = IF fs[e].live THEN Append(J[e - 1], fs[e]) ELSE J[e - 1]
    <3> DEFINE m == e - 1
    <3>1. m \in Nat /\ m + 1 = e /\ m + 1 <= Len(es) /\ m + 1 <= Len(fs)
      BY <2>1
    <3> HIDE DEF m
    <3>2. /\ K[m + 1] = IF es[m + 1].live THEN Append(K[m], es[m + 1]) ELSE K[m]
          /\ K[m] \in Seq(E) /\ es[m + 1] \in E
      BY <1>1, <3>1, KeepsNext
    <3>3. /\ J[m + 1] = IF fs[m + 1].live THEN Append(J[m], fs[m + 1]) ELSE J[m]
          /\ fs[m + 1] \in E
      BY <1>2, <3>1, KeepsNext
    <3> QED BY <3>1, <3>2, <3>3 DEF m
  <2> DEFINE q == K[e - 1]
  <2>4. q \in Seq(E) /\ K[e] = Append(q, es[e]) /\ es[e] \in E /\ fs[e] \in E
        /\ J[e] = IF fs[e].live THEN Append(q, fs[e]) ELSE q
    BY <2>2, <2>3
  <2> HIDE DEF q
  <2>5. CASE fs[e].live
    <3>1. J[e] = Append(q, fs[e])
      BY <2>4, <2>5
    <3>2. Renewed(K[e], J[e], r, fs[e])
      BY <2>4, <3>1 DEF Renewed
    <3> QED BY <2>5, <3>2
  <2>6. CASE ~fs[e].live
    <3>1. J[e] = q
      BY <2>4, <2>6
    <3>2. Shortened(K[e], J[e], r)
      BY <2>4, <3>1, ShortenedLast
    <3> QED BY <2>6, <3>2
  <2> QED BY <2>5, <2>6
<1>5. 0 \in T
  OBVIOUS
<1>6. ASSUME NEW i \in Nat, i \in T PROVE i + 1 \in T
  <2> SUFFICES ASSUME e <= i + 1, i + 1 <= N PROVE Then(i + 1)
    OBVIOUS
  <2>1. CASE e = i + 1
    BY <1>4, <2>1
  <2>2. CASE e <= i
    <3>1. Then(i) /\ es[i + 1] = fs[i + 1] /\ i \in e .. N
      BY <1>6, <2>2
    <3>2. /\ K[i + 1] = IF es[i + 1].live THEN Append(K[i], es[i + 1]) ELSE K[i]
          /\ K[i] \in Seq(E) /\ es[i + 1] \in E
      BY <1>1, KeepsNext
    <3>3. /\ J[i + 1] = IF es[i + 1].live THEN Append(J[i], es[i + 1]) ELSE J[i]
          /\ J[i] \in Seq(E)
      <4>1. i + 1 <= Len(fs)
        OBVIOUS
      <4> QED BY <1>2, <3>1, <4>1, KeepsNext
    <3>4. r \in 1 .. Len(K[i])
      BY <1>3, <3>1
    <3> HIDE DEF r
    <3>5. CASE es[i + 1].live
      <4>1. K[i + 1] = Append(K[i], es[i + 1]) /\ J[i + 1] = Append(J[i], es[i + 1])
        BY <3>2, <3>3, <3>5
      <4>2. Renewed(K[i], J[i], r, fs[e]) => Renewed(K[i + 1], J[i + 1], r, fs[e])
        BY <3>2, <3>3, <3>4, <4>1, RenewedLonger
      <4>3. Shortened(K[i], J[i], r) => Shortened(K[i + 1], J[i + 1], r)
        BY <3>2, <3>3, <3>4, <4>1, ShortenedLonger
      <4> QED BY <3>1, <4>2, <4>3
    <3>6. CASE ~es[i + 1].live
      BY <3>1, <3>2, <3>3, <3>6
    <3> QED BY <3>5, <3>6
  <2> QED BY <2>1, <2>2
<1> HIDE DEF T
<1>7. Nat \subseteq T
  BY <1>5, <1>6, NaturalInduction
<1>8. Then(N)
  BY <1>7 DEF T
<1>9. r \in 1 .. Len(K[N]) /\ K[N][r] = es[e]
  BY <1>3
<1>10. Kept(es) = K[N] /\ Kept(fs) = J[N]
  BY <1>1, <1>2
<1> QED BY <1>8, <1>9, <1>10

\* What is kept are live elements of the buffer, and all of them are kept again.
LEMMA KeptTwice ==
  ASSUME NEW E, NEW es \in Seq(E)
  PROVE  Kept(es) \in Seq(E) /\ Kept(Kept(es)) = Kept(es)
<1>1. PICK K : Keeps(K, es, E) /\ Kept(es) = K[Len(es)]
  BY KeptIs
<1> DEFINE q == Kept(es)
           N == Len(es)
<1>2. N \in 0 .. N /\ q \in Seq(E) /\ q = K[N]
  BY <1>1 DEF Keeps
<1> HIDE DEF q
<1>3. ASSUME NEW j \in 1 .. Len(q) PROVE q[j].live
  <2>1. PICK e \in 1 .. N : es[e].live /\ Len(K[e]) = j
    BY <1>1, <1>2, <1>3, KeptOnto
  <2>2. N \in e .. N
    BY <2>1
  <2>3. K[N][Len(K[e])] = es[e]
    BY <1>1, <2>1, <2>2, KeptRank
  <2> QED BY <1>2, <2>1, <2>3
<1>4. Kept(q) = q
  BY <1>2, <1>3, LiveOfLive
<1> QED BY <1>2, <1>4 DEF q
=============================================================================
