CONSTANTS
  m = m
  n = n
  g = g
  coin = coin
  Members <- TwoMembers
  Guards <- NoGuard
  Markets <- OnlyCoin
  Live <- OnlyCoin
  MaxFaults = 0
SYMMETRY Symmetry
SPECIFICATION Spec
INVARIANT
  StopStands
