\* Literals, arguments and file callbacks.
SPECIFICATION Spec
CONSTANTS
  MaxObjs <- MCLiteralObjs
  Null = Null
  Lits = {l1, l2}
  NTemps = 1
  MaxElems = 1
  MaxArgs = 2
  Collects = {TRUE}
  Kinds = {"str", "vec"}
  Storable = {"str"}
  Calls = {"strlit", "args", "concat", "read_file_cb", "write_file_cb"}
INVARIANTS
  NoDangling
  ShadowStackBalanced
CHECK_DEADLOCK FALSE
