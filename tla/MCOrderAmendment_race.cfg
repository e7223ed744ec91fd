CONSTANTS
  a = a
  b = b
  r1 = r1
  r2 = r2
  NoRequest = NoRequest
  Amenders <- Both
  Requests <- OneRequest
  Qty = 2
  Others = "always"
  MaxSends = 2
  MaxFaults = 1
SYMMETRY Twins
SPECIFICATION Spec
INVARIANTS
  TypeOK
  AckIsTrue
PROPERTIES
  NothingForgotten
CHECK_DEADLOCK FALSE
