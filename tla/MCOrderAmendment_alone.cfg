CONSTANTS
  a = a
  b = b
  r1 = r1
  r2 = r2
  NoRequest = NoRequest
  Amenders <- OnlyA
  Requests <- TwoRequests
  Qty = 2
  Others = "between"
  MaxSends = 3
  MaxFaults = 2
SPECIFICATION Spec
INVARIANTS
  AmendAtMostOnce
  RowTracksOrder
CHECK_DEADLOCK FALSE
