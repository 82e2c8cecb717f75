----------------------------- MODULE PaperTrader -----------------------------
(***************************************************************************)
(* The simulated account of the internal market: orders, reservations,     *)
(* matching against the displayed book, fills and their costs.  Every      *)
(* method runs to its end without an await, so each is an operator from    *)
(* an account to the next; MarketRuntime calls them.                       *)
(*                                                                         *)
(* Prices are multiples of TickSize and rates whole basis points.  Ids,    *)
(* times and reasons are left out: orders stand in the order they were     *)
(* created.  The average price of a position is left out too, and with it  *)
(* the realized profit: whether the loss limit is reached may change with  *)
(* every sale.                                                             *)
(***************************************************************************)
EXTENDS Integers, Sequences, SequencesExt, FiniteSetsExt, Functions

CONSTANTS
  InitialCash,
  MaxOrderQuantity, MaxPosition, MaxNotional,     \* this.limits
  TickSize,
  SlippageTicks, FeeBps, TaxBps                   \* this.costModel

ASSUME TraderAssumption ==
  /\ {InitialCash, MaxOrderQuantity, MaxPosition, MaxNotional, TickSize} \subseteq Nat \ {0}
  /\ {SlippageTicks, FeeBps, TaxBps} \subseteq Nat

Sides == {"BUY", "SELL"}
OpenStatuses == {"ACCEPTED", "PARTIALLY_FILLED"}
Statuses == OpenStatuses \cup {"REJECTED", "FILLED", "CANCELLED"}

(* A simulated bid a few ticks above nothing has no positive price. *)
BookLevel == [price : Int, size : Nat]

EmptyAccount ==
  [cash |-> InitialCash, fees |-> 0, position |-> 0, lossReached |-> FALSE,
   orders |-> <<>>]

(* createOrder: `value` is averageFilledPrice times filledQuantity.        *)
NewOrder(request) ==
  [side |-> request.side, type |-> request.type, limit |-> request.limit,
   source |-> request.source, approval |-> request.approval,
   requested |-> request.quantity, filled |-> 0, remaining |-> request.quantity,
   cancelled |-> 0, rejected |-> 0, value |-> 0,
   status |-> "PENDING_SUBMIT", open |-> FALSE, events |-> 0]

(***************************************************************************)
(* getReservations()                                                       *)
(***************************************************************************)
Total(orders, Amount(_)) == SumFunction([i \in DOMAIN orders |-> Amount(orders[i])])

OpenQuantity(orders, side) ==
  Total(orders, LAMBDA o : IF o.open /\ o.side = side THEN o.remaining ELSE 0)

(* A market order is never open when reservations are counted. *)
ReservedCash(orders) ==
  Total(orders, LAMBDA o : IF o.open /\ o.side = "BUY" THEN o.limit * o.remaining ELSE 0)

(***************************************************************************)
(* matchOrder() and applyFill()                                            *)
(***************************************************************************)
Opposing(side) == IF side = "BUY" THEN "asks" ELSE "bids"

Priced(level) == level.price > 0

Executable(o, level) ==
  /\ Priced(level)
  /\ \/ o.type = "MARKET"
     \/ o.side = "BUY" /\ level.price <= o.limit
     \/ o.side = "SELL" /\ level.price >= o.limit

(* How many levels the walk reaches before it breaks off. *)
Reach(o, levels) ==
  Max({0} \cup {n \in DOMAIN levels : \A k \in 1..n : Executable(o, levels[k])})

Depth(levels, n) == SumFunction([k \in 1..n |-> levels[k].size])

(* What an order takes from each level: the best level first. *)
Taken(o, levels) ==
  [n \in DOMAIN levels |->
     IF n > Reach(o, levels) THEN 0
     ELSE Min({levels[n].size, Max({0, o.remaining - Depth(levels, n - 1)})})]

LevelsLeft(levels, taken) ==
  [n \in DOMAIN levels |-> [levels[n] EXCEPT !.size = @ - taken[n]]]

ExecutionPrice(o, price) ==
  IF o.type = "LIMIT" THEN price
  ELSE IF o.side = "BUY" THEN price + SlippageTicks * TickSize
       ELSE Max({0, price - SlippageTicks * TickSize})

(* Math.round of a share in basis points. *)
Share(value, bps) == (2 * value * bps + 10000) \div 20000

Costs(side, value) ==
  Share(value, FeeBps) + (IF side = "SELL" THEN Share(value, TaxBps) ELSE 0)

(* The order after its walk: an order filled in part gets a transition    *)
(* event at every walk, whether it was filled further or not.              *)
Walked(o, taken, value) ==
  LET quantity == SumFunction(taken)
      left == o.remaining - quantity
      filled == o.filled + quantity
  IN [o EXCEPT
        !.filled = filled, !.remaining = left, !.value = @ + value,
        !.open = left > 0,
        !.status = CASE left = 0 -> "FILLED"
                     [] filled > 0 -> "PARTIALLY_FILLED"
                     [] OTHER -> @,
        !.events = @ + Cardinality({n \in DOMAIN taken : taken[n] > 0})
                     + (IF left = 0 \/ filled > 0 THEN 1 ELSE 0)]

Match(acct, i, levels, loss) ==
  LET o == acct.orders[i]
      taken == Taken(o, levels)
      values == [n \in DOMAIN levels |-> ExecutionPrice(o, levels[n].price) * taken[n]]
      value == SumFunction(values)
      costs == SumFunction([n \in DOMAIN levels |-> Costs(o.side, values[n])])
      quantity == SumFunction(taken)
      bought == o.side = "BUY"
  IN [acct EXCEPT
        !.cash = @ - costs + (IF bought THEN -value ELSE value),
        !.fees = @ + costs,
        !.position = @ + (IF bought THEN quantity ELSE -quantity),
        !.lossReached = IF ~bought /\ quantity > 0 THEN loss ELSE @,
        !.orders[i] = Walked(@, taken, value)]

(***************************************************************************)
(* validate(): why an order is refused.                                    *)
(***************************************************************************)
Estimate(asks, quantity) ==
  LET taken == Taken([type |-> "MARKET", remaining |-> quantity], asks)
  IN [filled |-> SumFunction(taken),
      cost |-> SumFunction([n \in DOMAIN asks |-> asks[n].price * taken[n]])]

OverPosition(acct, o) ==
  acct.position + OpenQuantity(acct.orders, "BUY") + o.requested > MaxPosition

OverNotional(acct, o, market) ==
  LET held == acct.position * market.last + ReservedCash(acct.orders)
      estimate == Estimate(market.asks, o.requested)
  IN IF o.type = "LIMIT"
     THEN held + o.requested * o.limit > MaxNotional
     ELSE held * estimate.filled + o.requested * estimate.cost > MaxNotional * estimate.filled

OverCash(acct, o, market) ==
  acct.cash - ReservedCash(acct.orders)
    < (IF o.type = "LIMIT" THEN o.limit * o.requested
       ELSE Estimate(market.asks, o.requested).cost)

(* Mutant: what open sell orders reserve is sold again. *)
OverHoldings(acct, o) == o.requested > acct.position

OverSellable(acct, o) ==
  o.requested > acct.position - OpenQuantity(acct.orders, "SELL")

Liquid(levels) == \E n \in DOMAIN levels : Priced(levels[n]) /\ levels[n].size > 0

Refused(acct, o, market, killSwitch) ==
  \/ killSwitch
  \/ o.requested > MaxOrderQuantity
  \/ acct.lossReached
  \/ o.type = "MARKET" /\ ~Liquid(market[Opposing(o.side)])
  \/ o.side = "SELL" /\ OverSellable(acct, o)
  \/ o.side = "BUY" /\ ( \/ OverPosition(acct, o)
                         \/ OverNotional(acct, o, market)
                         \/ OverCash(acct, o, market))

(***************************************************************************)
(* submit(), cancel(), processOpenOrders()                                 *)
(***************************************************************************)
Rejected(o) ==
  [o EXCEPT !.rejected = o.remaining, !.remaining = 0, !.status = "REJECTED", !.events = @ + 1]

(* The rest of a market order is cancelled at once. *)
RestCancelled(o) ==
  IF o.type = "LIMIT" \/ o.remaining = 0 THEN o
  ELSE [o EXCEPT !.cancelled = @ + o.remaining, !.remaining = 0, !.open = FALSE,
                 !.status = IF o.filled > 0 THEN "PARTIALLY_FILLED" ELSE "CANCELLED",
                 !.events = @ + 1]

Submit(acct, request, market, killSwitch, loss) ==
  LET o == NewOrder(request)
      i == Len(acct.orders) + 1
      With(order) == [acct EXCEPT !.orders = Append(@, order)]
      accepted == [o EXCEPT !.status = "ACCEPTED", !.open = TRUE, !.events = @ + 1]
      matched == Match(With(accepted), i, market[Opposing(o.side)], loss)
  IN IF Refused(acct, o, market, killSwitch) THEN With(Rejected(o))
     ELSE [matched EXCEPT !.orders[i] = RestCancelled(@)]

Cancelled(o) ==
  IF ~o.open THEN o
  ELSE [o EXCEPT !.cancelled = @ + o.remaining, !.remaining = 0, !.open = FALSE,
                 !.status = "CANCELLED", !.events = @ + 1]

Cancel(acct, i) == [acct EXCEPT !.orders[i] = Cancelled(@)]

(* Mutant: every order meets the whole book, whatever others took. *)
MatchEach(acct, market, loss) ==
  FoldLeftDomain(
    LAMBDA a, i : IF a.orders[i].open
                  THEN Match(a, i, market[Opposing(a.orders[i].side)], loss) ELSE a,
    acct, acct.orders)

(* The open orders, oldest first, share one working copy of the book. *)
MatchOpen(acct, market, loss) ==
  LET Step(s, i) ==
        LET o == s.acct.orders[i]
            levels == s.book[Opposing(o.side)]
        IN IF ~o.open THEN s
           ELSE [acct |-> Match(s.acct, i, levels, loss),
                 book |-> [s.book EXCEPT ![Opposing(o.side)] =
                             LevelsLeft(levels, Taken(o, levels))]]
  IN FoldLeftDomain(Step, [acct |-> acct, book |-> market], acct.orders).acct

(***************************************************************************)
(* What an account keeps                                                   *)
(***************************************************************************)
Filled(orders, side) == Total(orders, LAMBDA o : IF o.side = side THEN o.filled ELSE 0)

Worth(orders, side) == Total(orders, LAMBDA o : IF o.side = side THEN o.value ELSE 0)

Slipped(orders) ==
  Total(orders, LAMBDA o : IF o.type = "MARKET" THEN SlippageTicks * TickSize * o.filled ELSE 0)

(* The position is what the orders bought less what they sold, and the     *)
(* cash what they paid and received less the fees and taxes: the fills of  *)
(* submit and of every tick reach the account and the order alike.         *)
AccountBalances(acct) ==
  /\ acct.position = Filled(acct.orders, "BUY") - Filled(acct.orders, "SELL")
  /\ acct.cash = InitialCash - acct.fees + Worth(acct.orders, "SELL") - Worth(acct.orders, "BUY")

(* No sequence of orders, fills and cancels sells more than is held: the   *)
(* open sell orders never ask for more than the position.                  *)
SharesReserved(acct) == OpenQuantity(acct.orders, "SELL") <= acct.position

(* The cash that open buy orders reserve is there, but for what fees,      *)
(* taxes and slippage took: validate() counts none of the three.           *)
CashReserved(acct) == acct.cash + acct.fees + Slipped(acct.orders) >= ReservedCash(acct.orders)

(* The position stays within its limit even if every open buy order fills. *)
PositionCapped(acct) == acct.position + OpenQuantity(acct.orders, "BUY") <= MaxPosition
=============================================================================
