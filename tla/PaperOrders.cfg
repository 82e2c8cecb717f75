SPECIFICATION Spec
CONSTANTS
  a = a
  b = b
  c = c
  NoOrder = NoOrder
  Ids = {a, b, c}
  Gated = {a, b}
  Shape <- TwinShape
  MaxDay = 1
  MaxDailyOrders = 2
  DailyLossCheck = FALSE
  MaxCrashes = 1
SYMMETRY Twins
INVARIANTS
  UnresolvedBlocks
  JournalTellsTheTruth
  OneOrderOneCommand
  LatchSurvives
PROPERTIES
  ImplementsLedger
  ExternalMeansUnknown
CHECK_DEADLOCK FALSE
