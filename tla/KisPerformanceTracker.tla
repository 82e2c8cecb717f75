------------------------ MODULE KisPerformanceTracker ------------------------
(* What the services know of executions: kisPaperPerformance.js (the live       *)
(* tracker has the same record, replay and matching). Each reconciliation round *)
(* hands record() the order history of the day; what an order has executed      *)
(* beyond what was seen of it is written to the journal as a fill, and the      *)
(* profits and losing streaks that stop trading are computed from the fills.    *)
(* One symbol; an order's number is the time it was placed at, and none is used *)
(* again on another day, as if the code's key, which has no day, had one.       *)
EXTENDS Integers, Sequences, SequencesExt

CONSTANTS
    LastOrder,      \* orders are numbered 1..LastOrder
    Buys,           \* the orders that buy
    Prices,         \* of an execution: each a multiple of 1..MaxQuantity,
    MaxQuantity,    \* bound: shares of an order, so that averages are whole
    HeldBefore,     \* shares held when the tracking began
    MaxExecutions,  \* bound: executions at the exchange
    ResetTimes      \* what resetAt may be: 0 counts every order

ASSUME TrackerAssumption ==
    /\ LastOrder \in Nat /\ Buys \subseteq 1..LastOrder
    /\ 0 \in ResetTimes /\ ResetTimes \subseteq Nat
    /\ MaxQuantity \in Nat /\ HeldBefore \in Nat /\ MaxExecutions \in Nat
    /\ \A p \in Prices, n \in 1..MaxQuantity : p \in Nat /\ p % n = 0

VARIABLES
    executions, \* at the exchange: the prices of each order's shares
    history,    \* the order history record() goes through: orders left, with totals
    seen,       \* observedExecutedQuantity
    fills,      \* the BROKER_FILL_OBSERVED events of the journal
    resetAt,    \* resetAt: older orders do not count
    unwritten   \* the journal has refused a fill

fillVars == <<executions, history, seen, fills, resetAt, unwritten>>

Orders == 1..LastOrder

FillsInit ==
    /\ executions = [o \in Orders |-> <<>>]
    /\ fills = <<>> /\ history = {}
    /\ seen = [o \in Orders |-> 0]
    /\ resetAt = 0 /\ unwritten = FALSE

Total(seq) == FoldLeft(LAMBDA sum, n : sum + n, 0, seq)

Executed(o) == Len(executions[o])

ExecutedIn(orders) == Total([o \in Orders |-> IF o \in orders THEN Executed(o) ELSE 0])

Amount(orders) == Total([o \in Orders |-> IF o \in orders THEN Total(executions[o]) ELSE 0])

(* The account is never short.                                                  *)
Execute(o, p) ==
    /\ ExecutedIn(Orders) < MaxExecutions /\ Executed(o) < MaxQuantity
    /\ o \notin Buys => ExecutedIn(Orders \ Buys) < HeldBefore + ExecutedIn(Buys)
    /\ executions' = [executions EXCEPT ![o] = Append(@, p)]
    /\ UNCHANGED <<history, seen, fills, resetAt, unwritten>>

(* A round has ended well. The history gives the executed quantity and the      *)
(* average price of the whole of it; record() asks what is new of each order.   *)
BeginRecord ==
    /\ history = {}
    /\ history' = {[order |-> o, quantity |-> Executed(o), price |-> Amount({o}) \div Executed(o)] :
                      o \in {o \in Orders : Executed(o) > seen[o]}}
    /\ UNCHANGED <<executions, seen, fills, resetAt, unwritten>>

(* The event that adds the new part of an order, at the order's average price.  *)
FillOf(entry) ==
    [order |-> entry.order, delta |-> entry.quantity - seen[entry.order],
     price |-> entry.price, cumulative |-> entry.quantity]

RecordFill ==
    \E entry \in history :
        /\ fills' = Append(fills, FillOf(entry))
        /\ seen' = [seen EXCEPT ![entry.order] = entry.quantity]
        /\ history' = history \ {entry}
        /\ UNCHANGED <<executions, resetAt, unwritten>>

(* append throws: the quantity was noted before, the rest of the history is     *)
(* left for the next round.                                                     *)
AppendFails ==
    \E entry \in history :
        /\ seen' = [seen EXCEPT ![entry.order] = entry.quantity]
        /\ history' = {} /\ unwritten' = TRUE
        /\ UNCHANGED <<executions, fills, resetAt>>

FillsOf(o) == {i \in DOMAIN fills : fills[i].order = o}

(* Mutant: the size of an event is replayed for the quantity it reached. *)
ReplayedDeltas == [o \in Orders |-> Max({0} \cup {fills[i].delta : i \in FillsOf(o)})]

(* replayJournal.                                                               *)
Replayed == [o \in Orders |-> Max({0} \cup {fills[i].cumulative : i \in FillsOf(o)})]

(* The server starts again, wherever it was.                                    *)
Restart ==
    /\ seen' = Replayed /\ history' = {}
    /\ UNCHANGED <<executions, fills, resetAt, unwritten>>

(* setResetAt: the statistics begin with the orders of a later time.            *)
SetResetAt ==
    /\ resetAt' \in ResetTimes \ {resetAt}
    /\ UNCHANGED <<executions, history, seen, fills, unwritten>>

FillsNext ==
    \/ \E o \in Orders, p \in Prices : Execute(o, p)
    \/ BeginRecord \/ RecordFill \/ AppendFails \/ Restart \/ SetResetAt

FillsSpec == FillsInit /\ [][FillsNext]_fillVars

-----------------------------------------------------------------------------
(* computePerformanceReport: the fills since resetAt, by the time of their      *)
(* order, each buy a lot, each sell taken from the oldest lots.                 *)
CountedOf(o) ==
    FlattenSeq([i \in DOMAIN fills |->
        IF fills[i].order = o /\ o >= resetAt THEN <<fills[i]>> ELSE <<>>])

Counted == FlattenSeq([o \in Orders |-> CountedOf(o)])

Take(lot, left) == IF lot.quantity < left THEN lot.quantity ELSE left

(* Mutant: a lot that is sold in part is gone. *)
LotsForgotten(lot, taken) == <<>>

LotsLeft(lot, taken) == IF lot.quantity = taken THEN <<>> ELSE <<[lot EXCEPT !.quantity = @ - taken]>>

Matched(lots, quantity) ==
    FoldLeft(LAMBDA m, lot :
                LET taken == Take(lot, m.left)
                IN  [left |-> m.left - taken, cost |-> m.cost + taken * lot.price,
                     lots |-> m.lots \o IF taken = 0 THEN <<lot>> ELSE LotsLeft(lot, taken)],
             [left |-> quantity, cost |-> 0, lots |-> <<>>], lots)

NoTrades == [lots |-> <<>>, trades |-> <<>>, incomplete |-> 0]

Sold(report, fill) ==
    LET m == Matched(report.lots, fill.delta)
        quantity == fill.delta - m.left
    IN  [lots |-> m.lots, incomplete |-> report.incomplete + m.left,
         trades |-> IF quantity = 0 THEN report.trades
                    ELSE Append(report.trades, [quantity |-> quantity, cost |-> m.cost,
                                                proceeds |-> quantity * fill.price])]

Bought(report, fill) == [report EXCEPT !.lots = Append(@, [quantity |-> fill.delta, price |-> fill.price])]

Report ==
    FoldLeft(LAMBDA report, f : IF f.order \in Buys THEN Bought(report, f) ELSE Sold(report, f),
             NoTrades, Counted)

TotalRealizedPnl == Total([i \in DOMAIN Report.trades |-> Report.trades[i].proceeds - Report.trades[i].cost])

-----------------------------------------------------------------------------
(* Through restarts, refused events and rounds that stop in the middle: no      *)
(* execution is in two fills, and none is missed but by a refused event         *)
(* (record notes the quantity before it appends, replayJournal).                *)
FillsOnce ==
    /\ \A i, j \in DOMAIN fills :
          i < j /\ fills[i].order = fills[j].order =>
              fills[i].cumulative <= fills[j].cumulative - fills[j].delta
    /\ \A o \in Orders :
          /\ seen[o] <= Executed(o)
          /\ ~unwritten => seen[o] = Total([i \in DOMAIN fills |-> IF fills[i].order = o THEN fills[i].delta ELSE 0])

(* The shares of the counted buys, oldest first, at the price of their fill.    *)
SharesBought ==
    LET counted == Counted
    IN  FlattenSeq([i \in DOMAIN counted |->
            IF counted[i].order \in Buys THEN [n \in 1..counted[i].delta |-> counted[i].price] ELSE <<>>])

SharesSoldIn(trades) == Total([i \in DOMAIN trades |-> trades[i].quantity])

(* Matching by lots is matching share by share: the shares of every trade cost  *)
(* what the next shares cost that were bought, no share is sold twice, and      *)
(* every sold share is in a trade or counted as incomplete.                     *)
TradesAreFifo ==
    LET report == Report
        counted == Counted
        shares == SharesBought
    IN  /\ \A i \in DOMAIN report.trades :
              LET before == SharesSoldIn(SubSeq(report.trades, 1, i - 1))
              IN  report.trades[i].cost = Total(SubSeq(shares, before + 1, before + report.trades[i].quantity))
        /\ SharesSoldIn(report.trades) + Total([i \in DOMAIN report.lots |-> report.lots[i].quantity]) = Len(shares)
        /\ SharesSoldIn(report.trades) + report.incomplete =
              Total([i \in DOMAIN counted |-> IF counted[i].order \in Buys THEN 0 ELSE counted[i].delta])

(* docs/KIS_PAPER_TRADING.md:90 and 107: with every execution recorded, nothing *)
(* held before or now and nothing left out, the realized profit is what the     *)
(* sales brought less what the purchases cost.                                  *)
ProfitIsReal ==
    (/\ HeldBefore = 0 /\ resetAt = 0 /\ ~unwritten
     /\ \A o \in Orders : seen[o] = Executed(o) /\ history = {}
     /\ Report.lots = <<>> /\ Report.incomplete = 0)
        => TotalRealizedPnl = Amount(Orders \ Buys) - Amount(Buys)
=============================================================================
