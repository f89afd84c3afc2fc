----------------------------- MODULE Tombstones -----------------------------
(***************************************************************************)
(* The buffer of a map's entries in bootstrap/runtime/cardinal_rt.c keeps  *)
(* the place of a deleted entry, marked as not live. RtMap and RtRooting   *)
(* both drop such entries.                                                 *)
(***************************************************************************)
EXTENDS Integers, Sequences

\* The loops of map_rehash and cl_map_keys over the buffer keep the live ones.
Kept(es) ==
  LET kept[i \in 0 .. Len(es)] ==
        IF i = 0 THEN << >>
        ELSE IF es[i].live THEN Append(kept[i - 1], es[i]) ELSE kept[i - 1]
  IN  kept[Len(es)]
=============================================================================
