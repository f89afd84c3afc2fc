------------------------------ MODULE MCRtMap ------------------------------
(* Small instances of RtMap for TLC: an index of four slots that doubles at  *)
(* the third live key, a buffer of two entries, and hash functions that      *)
(* collide everywhere, nowhere, in pairs, and across the end of the index.   *)
EXTENDS RtMap

CONSTANTS a, b, c, d

MCHashFns ==
  {[k \in Keys |-> 3],
   [k \in Keys |-> CASE k = a -> 0 [] k = b -> 1 [] k = c -> 2 [] OTHER -> 3],
   [k \in Keys |-> IF k \in {a, b} THEN 2 ELSE 7],
   [k \in Keys |-> CASE k = a -> 3 [] k = b -> 7 [] k = c -> 0 [] OTHER -> 4]}
=============================================================================
