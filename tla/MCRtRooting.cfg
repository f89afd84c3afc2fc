\* Maps, the vectors of their keys, and strings.
SPECIFICATION Spec
CONSTANTS
  MaxObjs <- MCContainerObjs
  Null = Null
  Lits = {l1}
  NTemps = 2
  MaxElems = 2
  MaxArgs = 2
  Collects = {TRUE}
  Kinds = {"map", "str"}
  Storable = {"str"}
  Calls = {"map_set", "map_keys", "vec_push"}
INVARIANTS
  NoDangling
  ShadowStackBalanced
PROPERTIES
  ElementsKept
CHECK_DEADLOCK FALSE
