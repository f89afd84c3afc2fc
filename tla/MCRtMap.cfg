\* Four keys and long histories of insertions and deletions of one value.
SPECIFICATION Spec
CONSTANTS
  a = a
  b = b
  c = c
  d = d
  Keys = {a, b, c, d}
  Vals = {1}
  HashFns <- MCHashFns
  FirstIcap = 4
  FirstEcap = 2
  MaxNent = 5
INVARIANTS
  TypeOK
  IndexExact
  ProbePathUnbroken
  PutEnds
  ReadsAgree
PROPERTIES
  ImplementsOrderedMap
CHECK_DEADLOCK FALSE
