SPECIFICATION FairSpec
CONSTANTS
  a = a
  b = b
  fund = fund
  u1 = u1
  u2 = u2
  u3 = u3
  Callers = {"scanner", "workspace"}
  Interval = 1
  RetryCount = 1
  RetryBase = 1
  Stocks = {a, b}
  Others = {fund}
  Filed = {a}
  MaxEnriched = 2
  Snapshots = {"disconnected", "strong"}
  NoState = NoState
  Symbols = {a, b}
  Users = {u1, u2, u3}
  NoSymbol = NoSymbol
  MaxSwitches = 2
  MaxOrders = 4
INVARIANTS
  BacklogBounded
  ReadyIsCurrent
PROPERTIES
  ReadAfterOrder
  MarketCatchesUp
CHECK_DEADLOCK FALSE
