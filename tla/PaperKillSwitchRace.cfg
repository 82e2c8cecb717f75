SPECIFICATION Spec
CONSTANTS
  a = a
  b = b
  c = c
  NoOrder = NoOrder
  Ids = {a}
  Gated = {a}
  Shape <- TwinShape
  MaxDay = 1
  MaxDailyOrders = 1
  DailyLossCheck = TRUE
  MaxCrashes = 0
PROPERTIES
  KillSwitchFirst
CHECK_DEADLOCK FALSE
