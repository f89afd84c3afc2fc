------------------------------ MODULE MCGcHeap ------------------------------
(* Small instances of GcHeap for TLC. The table starts with two slots and    *)
(* grows once, so that it is full, grows, is swept and is reused; slot 0 is  *)
(* reserved, which leaves three objects.                                     *)
EXTENDS GcHeap
=============================================================================
