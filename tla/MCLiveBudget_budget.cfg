CONSTANTS
  a = a
  b = b
  old = old
  p = p
  q = q
  NoOrder = NoOrder
  Orders <- AllOrders
  Legacy <- OldOrders
  Executors <- TwoExecutors
  Amount <- Amounts
  Instrument <- Instruments
  Caps <- Limits
SPECIFICATION Spec
INVARIANTS
  TypeOK
  OneEntryPerInstrument
  HoldStands
PROPERTIES
  ReservationFitsCap
  PostFitsCap
SYMMETRY Symmetry
