CONSTANTS
  a = a
  b = b
  NoOne = NoOne
  Executors <- OnlyA
  Workers <- None
  Scanners <- OnlyB
  Cancelers <- Both
  Invalidators <- None
  Qty = 2
  Venue = "exchangeId"
  StaleReads = TRUE
  LateFills = TRUE
  MaxFaults = 1
SPECIFICATION Spec
INVARIANTS
  FillsBacked
  CancelAtMostOnce
PROPERTIES
  TerminalIsFinal
  KeepsPromise
  WritesAreAtomic
CHECK_DEADLOCK FALSE
