SPECIFICATION Spec
CONSTANTS
  c = c
  w = w
  a = a
  i = i
  s = s
  NoOne = NoOne
  Composers <- Composer
  Workers <- Worker
  Approvers <- Approver
  Invalidators <- Invalidator
  Stoppers <- Stopper
  MaxFaults = 1
INVARIANTS
  TypeOK
  SubmissionIsApproved
  SoleExecutor
PROPERTIES
  StopHolds
  SignalKept
