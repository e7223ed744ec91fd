CONSTANTS
  a = a
  b = b
  r1 = r1
  r2 = r2
  NoRequest = NoRequest
  Amenders <- Both
  Requests <- OneRequest
  Qty = 1
  Others = "never"
  MaxSends = 2
  MaxFaults = 0
SPECIFICATION Spec
INVARIANT
  AmendAtMostOnce
CHECK_DEADLOCK FALSE
