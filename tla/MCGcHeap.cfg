\* Every safety property, with generations that wrap after two reuses of a slot.
SPECIFICATION Spec
CONSTANTS
  InitCap = 2
  MaxCap = 4
  GenMod = 2
  MaxInc = 2
  Sizes = {0, 1}
  Thresholds = {0, 2}
  MaxRoots = 1
  MaxPins = 0
INVARIANTS
  TypeOK
  FreeListSound
  AccountingExact
  MarkingSound
PROPERTIES
  CollectionComplete
CHECK_DEADLOCK FALSE
