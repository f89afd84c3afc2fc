\* One root, one pin and enough generations for every reuse: the abstract heap
\* is implemented, and collections end.
SPECIFICATION Spec
CONSTANTS
  InitCap = 2
  MaxCap = 4
  GenMod = 2
  MaxInc = 1
  Sizes = {1}
  Thresholds = {0}
  MaxRoots = 1
  MaxPins = 1
PROPERTIES
  ReachableKept
  ImplementsAbstractHeap
  CollectionEnds
CHECK_DEADLOCK FALSE
