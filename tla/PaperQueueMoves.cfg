SPECIFICATION FairSpec
CONSTANTS
  a = a
  b = b
  c = c
  NoOrder = NoOrder
  Ids = {a, c}
  Gated = {a}
  Shape <- TwinShape
  MaxDay = 1
  MaxDailyOrders = 1
  DailyLossCheck = TRUE
  MaxCrashes = 1
PROPERTIES
  QueueMoves
CHECK_DEADLOCK FALSE
