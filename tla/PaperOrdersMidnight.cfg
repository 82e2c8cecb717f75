SPECIFICATION Spec
CONSTANTS
  a = a
  b = b
  c = c
  NoOrder = NoOrder
  Ids = {a, b}
  Gated = {a, b}
  Shape <- TwinShape
  MaxDay = 2
  MaxDailyOrders = 1
  DailyLossCheck = TRUE
  MaxCrashes = 1
SYMMETRY Twins
INVARIANTS
  DailyOrderCap
PROPERTIES
  NoNewRiskInDoubt
CHECK_DEADLOCK FALSE
