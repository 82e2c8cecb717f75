SPECIFICATION MCFairSpec
CONSTANTS
  reader1 = reader1
  reader2 = reader2
  trader = trader
  Callers = {reader1, reader2, trader}
  Asks <- MCAsks
  None = None
  OrderEnabled = TRUE
  MaxPages = 2
  MaxPosts = 1
INVARIANTS
  FreshHistory
  PostOnce
PROPERTIES
  CallsEnd
