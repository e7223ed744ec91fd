CONSTANTS
  a = a
  b = b
  NoOne = NoOne
  Executors <- Both
  Workers <- Both
  Scanners <- None
  Cancelers <- None
  Invalidators <- OnlyB
  Qty = 2
  Venue = "clientId"
  StaleReads = TRUE
  LateFills = FALSE
  MaxFaults = 1
SPECIFICATION Spec
INVARIANTS
  TypeOK
  AtMostOnePost
  PostBehindIntent
  NoFalseRejection
PROPERTIES
  EvidenceNeverLost
  ManualReviewStands
CHECK_DEADLOCK FALSE
