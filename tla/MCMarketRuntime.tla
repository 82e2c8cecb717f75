--------------------------- MODULE MCMarketRuntime ---------------------------
(* A small market of two snapshots.  A buy at 99 rests in the middle one    *)
(* and meets the asks of the lower one; a sell at 99 the other way round.   *)
(* The lower one is so low that a position can be cheap and the orders     *)
(* resting after it dear: the limit on shares binds as well as the cash.   *)
EXTENDS MarketRuntime

Level(price, size) == [price |-> price, size |-> size]

Middle == [last |-> 100, bids |-> <<Level(99, 1), Level(98, 1)>>,
           asks |-> <<Level(101, 1), Level(102, 2)>>]
Below == [last |-> 39, bids |-> <<Level(38, 1)>>, asks |-> <<Level(40, 1)>>]

SmallMarkets == {Middle, Below}

User(side, type, limit, quantity) ==
  [side |-> side, type |-> type, limit |-> limit, quantity |-> quantity]

SmallOrders ==
  {User("BUY", "MARKET", 0, 2), User("BUY", "LIMIT", 99, 2), User("BUY", "LIMIT", 99, 1),
   User("SELL", "LIMIT", 99, 1)}
=============================================================================
