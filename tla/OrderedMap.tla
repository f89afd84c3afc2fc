----------------------------- MODULE OrderedMap -----------------------------
(***************************************************************************)
(* What a Cardinal map {K V} is (DESIGN.md section 5.3, and the Python     *)
(* dict of bootstrap/interpreter.py): pairs in the order in which their    *)
(* keys were first inserted. Overwriting keeps a key's place, removing and *)
(* inserting it again moves it to the end, reading an absent key traps.    *)
(***************************************************************************)
EXTENDS Naturals, Sequences

CONSTANTS Keys, Vals

VARIABLE pairs      \* sequence of [key, val], its keys distinct

KeyAt(i) == pairs[i].key
Has(k) == \E i \in DOMAIN pairs : KeyAt(i) = k
Place(k) == CHOOSE i \in DOMAIN pairs : KeyAt(i) = k
Get(k) == pairs[Place(k)].val
KeySeq == [i \in DOMAIN pairs |-> KeyAt(i)]

Init == pairs = << >>

Insert(k, v) == ~Has(k) /\ pairs' = Append(pairs, [key |-> k, val |-> v])

Overwrite(k, v) == Has(k) /\ pairs' = [pairs EXCEPT ![Place(k)].val = v]

\* Those behind the removed pair move up.
Without(i) == [j \in 1 .. Len(pairs) - 1 |-> pairs[IF j < i THEN j ELSE j + 1]]
Remove(k) == Has(k) /\ pairs' = Without(Place(k))

Next ==
  \E k \in Keys : Remove(k) \/ \E v \in Vals : Insert(k, v) \/ Overwrite(k, v)

Spec == Init /\ [][Next]_pairs
=============================================================================
