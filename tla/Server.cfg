SPECIFICATION Spec
CONSTANTS
  p1 = p1
  p2 = p2
  p3 = p3
  Pids = {p1, p2, p3}
  Nobody = Nobody
  MaxLines = 2
  Parts = {"settings", "limits"}
  Values = {"a", "b", "c"}
  Default = "a"
  Enabled = {"b"}
  Unset = "unset"
  MaxChanges = 4
  LastOrder = 4
  Buys = {1, 3}
  Prices = {2, 4}
  MaxQuantity = 2
  HeldBefore = 1
  MaxExecutions = 4
  ResetTimes = {0, 3}
  Sizes = {1, 2}
  MaxBatchEvents = 3
  MaxQueueEvents = 4
  MaxFileBytes = 8
  Torn = 0
  MaxOffered = 8
  MaxEvents = 6
  MaxStops = 3
  FailurePoints = {"open", "write", "fsync", "close"}
  Fragments = {"torn", "bare"}
INVARIANTS
  JournalWhole
  SettingsKept
  HistoryKept
  FillsOnce
  TradesAreFifo
  ResearchWhole
  AckedDurable
  NothingForgotten
  StartsAgain
PROPERTIES
  ImplementsLog
CHECK_DEADLOCK FALSE
