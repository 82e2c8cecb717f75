SPECIFICATION FairSpec
CONSTANTS
  s1 = s1
  s2 = s2
  s3 = s3
  bad = bad
  Items = {s1, s2, s3, bad}
  Malformed = {bad}
  Lists <- MCLists
  Slots = {1, 2}
  None = None
  MaxAttempt = 1
  MaxStops = 1
  MaxSymbols = 2
INVARIANTS
  SessionKept
  HeldWatched
PROPERTIES
  TriesAgain
