SPECIFICATION Spec
CONSTANTS
  buy1 = buy1
  buy2 = buy2
  cancel1 = cancel1
  sale = sale
  None = None
  Ids = {buy1, buy2, cancel1}
  Foreign = {sale}
  Operation <- MCOperation
  Original <- MCOriginal
  Signed <- MCSigned
  Shape <- MCShape
  OpeningPosition = 1
  MaxDailyOrders = 2
  MaxCommands = 2
  MaxTroubles = 1
CHECK_DEADLOCK FALSE
INVARIANTS
  OneOutOfSight
  BaselineRight
PROPERTIES
  ImplementsLedger
  LatchHolds
