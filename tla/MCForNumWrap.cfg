\* Every bound of the type: the counter can wrap past it.
SPECIFICATION Spec
CONSTANTS
  MinInt <- MCMin
  MaxInt <- MCMax
  Starts <- MCStarts
  Bounds <- MCAllBounds
  Strides = {1, 2, 3}
  Assigned <- MCAssigned
  MaxTrips = 8
PROPERTIES
  HalfOpenRange
CHECK_DEADLOCK FALSE
