\* Two strings of up to three characters.
SPECIFICATION Spec
CONSTANTS
  Values <- MCValues
  Numbers <- MCNumbers
  Counts <- MCCounts
  HalfRange = 32
  MaxLen = 3
INVARIANTS
  StringsAgree
  WellFormed
  OrderOfBytes
  NumbersReadBack
CHECK_DEADLOCK FALSE
