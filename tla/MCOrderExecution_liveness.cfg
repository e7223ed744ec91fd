CONSTANTS
  a = a
  b = b
  NoOne = NoOne
  Executors <- OnlyA
  Workers <- OnlyB
  Scanners <- None
  Cancelers <- OnlyA
  Invalidators <- None
  Qty = 2
  Venue = "openOrders"
  StaleReads = FALSE
  LateFills = FALSE
  MaxFaults = 1
SPECIFICATION LiveSpec
PROPERTIES
  OutcomeLearned
  SubmissionSettled
CHECK_DEADLOCK FALSE
