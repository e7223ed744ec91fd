CONSTANTS
  a = a
  b = b
  c = c
  NoStart = NoStart
  Starts <- ThreeStarts
  MaxAttempts = 2
  MaxFaults = 1
SPECIFICATION FairSpec
INVARIANTS
  TypeOK
  RunnerHoldsLock
PROPERTY
  NoLockout
CHECK_DEADLOCK FALSE
