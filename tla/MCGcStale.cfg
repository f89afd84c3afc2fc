\* The generation is kept modulo GenMod: a handle that outlives GenMod reuses of
\* its slot is accepted again.
SPECIFICATION Spec
CONSTANTS
  InitCap = 2
  MaxCap = 2
  GenMod = 2
  MaxInc = 2
  Sizes = {1}
  Thresholds = {0}
  MaxRoots = 1
  MaxPins = 0
INVARIANT
  StaleHandleDetected
CHECK_DEADLOCK FALSE
