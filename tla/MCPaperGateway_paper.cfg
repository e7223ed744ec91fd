CONSTANTS
  a = a
  b = b
  p = p
  q = q
  NoKey = NoKey
  Keys <- AllKeys
  Entries <- EntryKeys
  Calls <- TwoCalls
  Lots = 2
  Price <- Prices
  Equities <- SomeEquities
  InitialLimit = 100
  MaxSteps = 2
  Ahead = 0
  MaxTime = 1
  MaxSettlements = 2
  MaxFaults = 1
SPECIFICATION Spec
INVARIANTS
  TypeOK
  SubmittedOnce
  DoneIsDurable
  ReservedOnce
PROPERTIES
  AdmittedWithinCapital
SYMMETRY Symmetry
CHECK_DEADLOCK FALSE
