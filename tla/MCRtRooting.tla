---------------------------- MODULE MCRtRooting ----------------------------
(* Small instances of RtRooting. The program is kept to few objects of each  *)
(* kind; no allocation inside a runtime function meets these bounds.         *)
EXTENDS RtRooting

MCContainerObjs ==
  [str |-> 2, vec |-> 2, map |-> 1, buf |-> 3, entries |-> 2, index |-> 2]
MCLiteralObjs ==
  [str |-> 7, vec |-> 2, map |-> 1, buf |-> 3, entries |-> 2, index |-> 2]
=============================================================================
