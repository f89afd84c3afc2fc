------------------------------- MODULE RtMap -------------------------------
(***************************************************************************)
(* The map of bootstrap/runtime/cardinal_rt.c: an insertion-ordered buffer *)
(* of entries, tombstoned when deleted, and an open-addressing index whose *)
(* slots hold an entry number, 0 when empty or -1 when deleted.            *)
(*                                                                         *)
(* Entries are numbered from 1, which is the number the index holds; the   *)
(* buffer's length is nent. The index wraps by `& (icap - 1)', which is    *)
(* `% icap' for the powers of two it has as sizes. Which key hashes where  *)
(* is fixed once, by an arbitrary function. Memory is GcHeap's business:   *)
(* here an operation is one step.                                          *)
(***************************************************************************)
EXTENDS Integers, Sequences, FiniteSets, FiniteSetsExt, Tombstones

CONSTANTS
  Keys, Vals,
  HashFns,      \* the hash functions to consider: Keys -> Nat
  FirstIcap,    \* slots of the first index (8 in the code)
  FirstEcap,    \* entries of the first buffer (4 in the code)
  MaxNent       \* bound on the entries in the buffer, tombstones included

ASSUME HashAssumption == HashFns \subseteq [Keys -> Nat]
ASSUME FirstIcapAssumption == FirstIcap \in Nat /\ FirstIcap >= 2
ASSUME FirstEcapAssumption == FirstEcap \in Nat \ {0}
ASSUME MaxNentAssumption == MaxNent \in Nat

VARIABLES
  hash,     \* map_hash_key
  len,      \* live entries, as counted
  entries,  \* sequence of [live, key, val]; its length is nent
  ecap,     \* capacity of entries
  icap,     \* number of index slots, 0 before the first insertion
  index     \* 0 .. icap - 1 -> -1, 0 or the number of an entry

vars == <<hash, len, entries, ecap, icap, index>>

Absent == 0
Deleted_AsEmpty == 0     \* mutant: a deleted slot looks empty
Deleted == -1
nent == Len(entries)
Entry(k, v) == [live |-> TRUE, key |-> k, val |-> v]

\* The p-th slot a probe for key k visits in an index of n slots.
Probe(k, p, n) == (hash[k] + p) % n

Matches(k, slot) ==
  /\ slot > 0
  /\ entries[slot].live
  /\ entries[slot].key = k

\* mutant: a probe also stops at a deleted slot
Stops_AtDeleted(k) ==
  {p \in 0 .. icap - 1 : \/ index[Probe(k, p, icap)] <= 0
                         \/ Matches(k, index[Probe(k, p, icap)])}

\* Where the probe of map_find ends before it has seen every slot.
Stops(k) ==
  {p \in 0 .. icap - 1 : \/ index[Probe(k, p, icap)] = Absent
                         \/ Matches(k, index[Probe(k, p, icap)])}

\* The slot of the index that holds k's entry, or -1.
FindSlot(k) ==
  IF icap = 0 \/ len = 0 \/ Stops(k) = {} THEN -1
  ELSE LET s == Probe(k, Min(Stops(k)), icap)
       IN  IF Matches(k, index[s]) THEN s ELSE -1

map_find(k) == IF FindSlot(k) = -1 THEN Absent ELSE index[FindSlot(k)]

cl_map_has(k) == map_find(k) # Absent
cl_map_get(k) == entries[map_find(k)].val       \* traps unless cl_map_has(k)
cl_map_len == len

cl_map_keys == [i \in DOMAIN Kept(entries) |-> Kept(entries)[i].key]

\* map_index_put: the first slot from k's home that is empty or deleted. The
\* loop in the code has no other way to end.
PutStops_OnlyEmpty(idx, k, n) ==    \* mutant: deleted slots are not reused
  {p \in 0 .. n - 1 : idx[Probe(k, p, n)] = Absent}
PutStops(idx, k, n) == {p \in 0 .. n - 1 : idx[Probe(k, p, n)] <= 0}
map_index_put(idx, k, e, n) ==
  [idx EXCEPT ![Probe(k, Min(PutStops(idx, k, n)), n)] = e]

\* The loop of map_rehash that indexes entries es from the first to the last.
Reindexed(es, n) ==
  LET build[i \in 0 .. Len(es)] ==
        IF i = 0 THEN [s \in 0 .. n - 1 |-> Absent]
        ELSE map_index_put(build[i - 1], es[i].key, i, n)
  IN  build[Len(es)]

-----------------------------------------------------------------------------
Init ==
  /\ hash \in HashFns
  /\ len = 0 /\ entries = << >> /\ ecap = 0
  /\ icap = 0 /\ index = [s \in {} |-> Absent]

\* The index grows when the load would exceed 0.7 and at the first insertion;
\* map_rehash then also drops the tombstones and right-sizes the buffer.
MustRehash == icap = 0 \/ (len + 1) * 10 >= icap * 7
NextIcap == IF ~MustRehash THEN icap ELSE IF icap = 0 THEN FirstIcap ELSE 2 * icap
RehashedEntries == IF MustRehash THEN Kept(entries) ELSE entries
RehashedIndex == IF MustRehash THEN Reindexed(Kept(entries), NextIcap) ELSE index
RehashedEcap ==
  IF ~MustRehash THEN ecap ELSE IF len < FirstEcap THEN FirstEcap ELSE 2 * len

\* mutant: the buffer takes one entry too many
NextEcap_OffByOne ==
  IF Len(RehashedEntries) <= RehashedEcap THEN RehashedEcap
  ELSE IF RehashedEcap = 0 THEN FirstEcap ELSE 2 * RehashedEcap

\* The buffer then grows, tombstones included, when it is full.
NextEcap ==
  IF Len(RehashedEntries) < RehashedEcap THEN RehashedEcap
  ELSE IF RehashedEcap = 0 THEN FirstEcap ELSE 2 * RehashedEcap

Overwrite(k, v) ==
  /\ map_find(k) # Absent
  /\ entries' = [entries EXCEPT ![map_find(k)].val = v]
  /\ UNCHANGED <<hash, len, ecap, icap, index>>

\* mutant: a key is appended without looking it up
Insert_NoLookup(k, v) ==
  /\ Len(RehashedEntries) < MaxNent
  /\ entries' = Append(RehashedEntries, Entry(k, v))
  /\ index' = map_index_put(RehashedIndex, k, Len(RehashedEntries) + 1, NextIcap)
  /\ icap' = NextIcap
  /\ ecap' = NextEcap
  /\ len' = len + 1
  /\ UNCHANGED hash

Insert(k, v) ==
  /\ map_find(k) = Absent
  /\ Len(RehashedEntries) < MaxNent
  /\ entries' = Append(RehashedEntries, Entry(k, v))
  /\ index' = map_index_put(RehashedIndex, k, Len(RehashedEntries) + 1, NextIcap)
  /\ icap' = NextIcap
  /\ ecap' = NextEcap
  /\ len' = len + 1
  /\ UNCHANGED hash

cl_map_set(k, v) == Overwrite(k, v) \/ Insert(k, v)

\* mutant: the entry is tombstoned and its index slot kept
cl_map_del_KeepsSlot(k) ==
  /\ FindSlot(k) # -1
  /\ entries' = [entries EXCEPT ![map_find(k)].live = FALSE]
  /\ len' = len - 1
  /\ UNCHANGED <<hash, ecap, icap, index>>

cl_map_del(k) ==
  /\ FindSlot(k) # -1
  /\ entries' = [entries EXCEPT ![map_find(k)].live = FALSE]
  /\ index' = [index EXCEPT ![FindSlot(k)] = Deleted]
  /\ len' = len - 1
  /\ UNCHANGED <<hash, ecap, icap>>

Next == \E k \in Keys : cl_map_del(k) \/ \E v \in Vals : cl_map_set(k, v)

Spec == Init /\ [][Next]_vars

-----------------------------------------------------------------------------
(* Properties                                                              *)

EntryType == [live : BOOLEAN, key : Keys, val : Vals]

\* The types of the header's fields; the entries fit the buffer.
TypeOK ==
  /\ hash \in [Keys -> Nat]
  /\ entries \in Seq(EntryType)
  /\ ecap \in Nat /\ nent <= ecap
  /\ icap \in Nat /\ index \in [0 .. icap - 1 -> -1 .. nent]
  /\ len \in 0 .. nent

\* The index and the entries agree, through any history of insertions,
\* deletions and rehashes: every used slot leads to a live entry, every live
\* entry has exactly one slot, and len counts them.
IndexExact ==
  /\ \A s \in DOMAIN index : index[s] > 0 => entries[index[s]].live
  /\ \A e \in DOMAIN entries : entries[e].live =>
       Cardinality({s \in DOMAIN index : index[s] = e}) = 1
  /\ len = Cardinality({e \in DOMAIN entries : entries[e].live})

\* No empty slot lies between a key's home and the slot of its entry, so a
\* probe that stops at an empty slot has not missed the key; deletions must
\* not open such a gap.
ProbePathUnbroken ==
  \A s \in DOMAIN index : index[s] > 0 =>
    \E p \in 0 .. icap - 1 :
      /\ Probe(entries[index[s]].key, p, icap) = s
      /\ \A q \in 0 .. p - 1 : index[Probe(entries[index[s]].key, q, icap)] # Absent

\* "caller guarantees capacity": map_index_put, whose loop only ends at an
\* empty or deleted slot, always finds one, though the load factor counts
\* neither tombstones nor deleted slots.
PutEnds ==
  \A k \in Keys : ~cl_map_has(k) => PutStops(RehashedIndex, k, NextIcap) # {}

\* The map as its users see it: the live entries, in the buffer's order.
Ordered == INSTANCE OrderedMap WITH
  pairs <- [i \in DOMAIN Kept(entries) |->
              [key |-> Kept(entries)[i].key, val |-> Kept(entries)[i].val]]

\* has, get, len and the key order read through the index are the ones of the
\* insertion-ordered map: DESIGN.md section 5.3 and the interpreter's dict.
ReadsAgree ==
  /\ \A k \in Keys :
       /\ cl_map_has(k) <=> Ordered!Has(k)
       /\ cl_map_has(k) => cl_map_get(k) = Ordered!Get(k)
  /\ cl_map_len = Len(Ordered!KeySeq)
  /\ cl_map_keys = Ordered!KeySeq

\* Every set and delete, with the rehash and growth it causes, is one step of
\* the insertion-ordered map.
ImplementsOrderedMap == Ordered!Spec
=============================================================================
