SPECIFICATION Spec
CONSTANTS
  InitialCash = 297
  MaxOrderQuantity = 2
  MaxPosition = 3
  MaxNotional = 300
  TickSize = 1
  SlippageTicks = 1
  FeeBps = 100
  TaxBps = 100
  Markets <- SmallMarkets
  UserOrders <- SmallOrders
  EntryQuantity = 1
  LossOutcomes = {TRUE, FALSE}
  MaxOrders = 3
  MaxOrderEvents = 3
  MaxRequests = 2
  MaxFailures = 1
  MaxEffort = 4
INVARIANTS
  AccountHolds
  ApprovalsDecideOnce
  JournalKept
PROPERTIES
  FifoFills
CHECK_DEADLOCK FALSE
