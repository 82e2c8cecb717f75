SPECIFICATION TraderSpec
CONSTANTS
  s1 = s1
  s2 = s2
  Symbols = {s1, s2}
  MaxPositions = 2
  Grace = 2
  Cooldown = 1
SYMMETRY StocksAlike
INVARIANTS
  OneBuyPerSymbol
  NoSellTwice
  NoReentry
CHECK_DEADLOCK FALSE
