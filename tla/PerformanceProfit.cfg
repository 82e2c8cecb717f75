SPECIFICATION FillsSpec
CONSTANTS
  LastOrder = 2
  Buys = {1}
  Prices = {2, 4}
  MaxQuantity = 2
  HeldBefore = 0
  MaxExecutions = 4
  ResetTimes = {0}
INVARIANTS
  ProfitIsReal
CHECK_DEADLOCK FALSE
