\* Ranges whose last advance stays within the index type.
SPECIFICATION Spec
CONSTANTS
  MinInt <- MCMin
  MaxInt <- MCMax
  Starts <- MCStarts
  Bounds <- MCBounds
  Strides = {1, 2, 3}
  Assigned <- MCAssigned
  MaxTrips = 8
INVARIANTS
  TypeOK
PROPERTIES
  HalfOpenRange
  LoopEnds
  ImplementsForNum
CHECK_DEADLOCK FALSE
