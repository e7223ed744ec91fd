CONSTANTS
  m = m
  n = n
  g = g
  coin = coin
  Members <- OneMember
  Guards <- OneGuard
  Markets <- OnlyCoin
  Live <- OnlyCoin
  MaxFaults = 1
SPECIFICATION Spec
INVARIANTS
  TypeOK
  SerialStopStands
  LiveAcknowledged
PROPERTY
  StopClearedKnowingly
