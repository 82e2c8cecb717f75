-------------------------- MODULE KisPaperAutoTrader --------------------------
(* The automatic paper trader: domain/kisPaperAutoTrader.js and the cycle of    *)
(* app.js that feeds it. Two callers submit orders: the evaluation cycle, one   *)
(* at a time, from a balance read before it waits, and realtime ticks, each a   *)
(* call of its own that nobody awaits. Code between two awaits is one action.   *)
(* The order service serves its queue in order and the broker's balance shows  *)
(* a purchase late; both are the environment here, the service's own rules     *)
(* being KisPaperOrderService's. Prices only decide whether an exit is due, so *)
(* that is a choice; one entry is one unit, filled whole, and a second one of  *)
(* a symbol makes the same unit. Times are ages, counted in ticks of Clock;    *)
(* how long the balance, the candidates, the service and the broker take is    *)
(* not bounded, and the process may end and start again at any moment.         *)
EXTENDS Integers, Sequences, FiniteSets, SequencesExt

CONSTANTS
    Symbols,
    MaxPositions,   \* settings.maxConcurrentPositions
    Grace,          \* settings.settlementGraceMs, from 0 on
    Cooldown        \* settings.cooldownMs, from 0 on

ASSUME TraderAssumption == MaxPositions \in Nat \ {0} /\ Cooldown \in Nat /\ Grace \in Nat

VARIABLES
    enabled,    \* settings.enabled
    trader,     \* the maps and flags of KisPaperAutoTrader
    cycle,      \* runAutoTradingCycle and evaluate: where they wait, what they hold
    queue,      \* submissions waiting in the order service, oldest first
    service,    \* its status: "ok", "waiting" (PENDING, UNAVAILABLE), "stopped"
    held,       \* symbols the account really holds
    buys,       \* symbols with an open purchase at the broker
    sells,      \* symbols with an open sale the trader knows was accepted
    doubtful,   \* symbols with an open sale whose answer, or whose process, was lost
    sold,       \* symbols with a sale accepted today, as this process was told
    shown,      \* symbols the broker's balance shows
    unseen      \* the age, since the trader submitted it, of each accepted purchase
                \* that no balance the trader read has shown

traderVars == <<enabled, trader, cycle, queue, service, held, buys, sells, doubtful, sold, shown, unseen>>
broker == <<held, buys, sells, doubtful, sold, shown, unseen>>

ServiceStates == {"ok", "waiting", "stopped"}
Results == {"ACCEPTED", "REJECTED", "UNKNOWN_RESULT", "THROWN"}

Older(age, bound) == IF age < bound THEN age + 1 ELSE age

(* From here on an age makes no difference.                                     *)
MaxAge == IF Grace < Cooldown THEN Cooldown ELSE Grace

NoCycle == [stage |-> "idle", seen |-> {}, todo |-> {}, waits |-> FALSE, cooled |-> FALSE, age |-> 0]

(* The constructor: nothing of an earlier process.                              *)
NewTrader == [halted |-> FALSE, holdings |-> {}, exiting |-> {}, exited |-> {},
              pending |-> <<>>, since |-> Cooldown]

TraderInit ==
    /\ enabled \in BOOLEAN
    /\ trader = NewTrader
    /\ cycle = NoCycle
    /\ queue = <<>>
    /\ service = "ok"
    /\ held = {} /\ buys = {} /\ sells = {} /\ doubtful = {} /\ sold = {} /\ shown = {}
    /\ unseen = <<>>

-----------------------------------------------------------------------------
(* submit, up to its await. A step of the trader maps what it works on, a       *)
(* record of trader, cycle and queue, to the set of records it may leave.       *)
Working == [trader |-> trader, cycle |-> cycle, queue |-> queue]

Awaited(w) == DOMAIN w.trader.pending

(* A cycle sets lastOrderAt to its own time, and a cooldown of 0 is over at     *)
(* once; a tick sets it to the time of the tick, later than that of the cycle.  *)
Submitted(w, by, side, s) ==
    [w EXCEPT !.trader.since = w.cycle.age,
              !.cycle.cooled = Cooldown = 0 /\ (by = "cycle" \/ w.cycle.age = 0),
              !.queue = Append(@, [by |-> by, side |-> side, symbol |-> s])]

Selling(w, by, s) == [Submitted(w, by, "SELL", s) EXCEPT !.trader.exiting = @ \cup {s}]

Buying(w, s) ==
    [Submitted(w, "cycle", "BUY", s) EXCEPT
        !.trader.pending = [x \in Awaited(w) \cup {s} |-> IF x = s THEN w.cycle.age ELSE @[x]],
        !.cycle.stage = "entry"]

(* resolvePositions and prunePendingOrders: what the new balance makes of the  *)
(* trader's maps. A waiting purchase leaves its map when the balance shows it  *)
(* or its grace is over; a sale leaves when the balance shows nothing.         *)
(* Mutant: no purchase waits for the balance. *)
ResolvedForgetting(t, seen) ==
    [t EXCEPT !.pending = <<>>, !.holdings = @ \cap seen, !.exiting = @ \cap seen]

Resolved(t, seen) ==
    LET left == {s \in DOMAIN t.pending : t.pending[s] < Grace} \ seen
    IN  [t EXCEPT !.pending = [s \in left |-> t.pending[s]],
                  !.holdings = @ \cap seen,
                  !.exiting = @ \cap seen]

(* The entry of a cycle: with the balance and the guard of its start, but the  *)
(* halt and the maps as they are now.                                          *)
MayEnter(w) ==
    /\ ~w.trader.halted /\ ~w.cycle.waits /\ w.cycle.cooled
    /\ Cardinality(w.cycle.seen \cup Awaited(w)) < MaxPositions

Enterable(w) == Symbols \ (w.cycle.seen \cup Awaited(w) \cup w.trader.exited)

Entries(w) ==
    {[w EXCEPT !.cycle = NoCycle]}
        \cup (IF MayEnter(w) THEN {Buying(w, s) : s \in Enterable(w)} ELSE {})

(* The positions of a cycle are evaluated one after the other: some are held   *)
(* (without a price, if not in `priced'), until one is due and not already     *)
(* being sold. After the last comes the entry.                                 *)
Passed(w, some, priced) ==
    [w EXCEPT !.cycle.todo = @ \ some, !.trader.holdings = @ \cup priced]

SoldAfter(w, some, priced, s) ==
    [Selling(Passed(w, some \cup {s}, priced \cup {s}), "cycle", s) EXCEPT !.cycle.stage = "exits"]

Due(w, some) == (w.cycle.todo \ some) \ w.trader.exiting

Walks(w) ==
    (UNION {{SoldAfter(w, some, priced, s) : priced \in SUBSET some, s \in Due(w, some)}
               : some \in SUBSET w.cycle.todo})
        \cup UNION {Entries(Passed(w, w.cycle.todo, priced)) : priced \in SUBSET w.cycle.todo}

Becomes(w) == trader' = w.trader /\ cycle' = w.cycle /\ queue' = w.queue

-----------------------------------------------------------------------------
(* runAutoTradingCycle: one at a time; the balance is read, the candidates may *)
(* still be on their way, and either may fail.                                 *)
StartCycle ==
    /\ enabled /\ cycle.stage = "idle"
    /\ cycle' = [NoCycle EXCEPT !.stage = "collecting"]
    /\ UNCHANGED <<enabled, trader, queue, service, broker>>

(* A balance read while no order of a symbol is open or waits to be sent, and   *)
(* that shows what is held of it, leaves nothing of its purchase unseen.        *)
Orders(s) == {i \in DOMAIN queue : queue[i].symbol = s}

Shows(s) == s \notin buys \cup sells \cup doubtful /\ Orders(s) = {} /\ (s \in held => s \in shown)

ReadBalance ==
    /\ cycle.stage = "collecting"
    /\ cycle' = [NoCycle EXCEPT !.stage = "collected", !.seen = shown]
    /\ unseen' = [s \in {x \in DOMAIN unseen : ~Shows(x)} |-> unseen[s]]
    /\ UNCHANGED <<enabled, trader, queue, service, held, buys, sells, doubtful, sold, shown>>

CollectFails ==
    /\ cycle.stage \in {"collecting", "collected"}
    /\ cycle' = NoCycle
    /\ UNCHANGED <<enabled, trader, queue, service, broker>>

(* evaluateOnce up to its first await: the guard of the service, the maps, the *)
(* positions and, when none is sold, the entry.                                *)
Evaluating ==
    [Working EXCEPT
        !.trader = [Resolved(trader, cycle.seen) EXCEPT !.halted = @ \/ service = "stopped"],
        !.cycle = [cycle EXCEPT !.todo = cycle.seen, !.waits = service # "ok",
                                !.cooled = trader.since >= Cooldown, !.age = 0]]

Evaluate ==
    /\ cycle.stage = "collected"
    /\ IF enabled
       THEN \E w \in Walks(Evaluating) : Becomes(w)
       ELSE cycle' = NoCycle /\ UNCHANGED <<trader, queue>>
    /\ UNCHANGED <<enabled, service, broker>>

(* handleRealtimeTick: a price of a symbol evaluated before makes an exit due.  *)
RealtimeTick(s) ==
    /\ enabled /\ s \in trader.holdings \ trader.exiting
    /\ LET w == Selling(Working, "tick", s)
       IN  Becomes([w EXCEPT !.trader.since = 0])
    /\ UNCHANGED <<enabled, service, broker>>

(* submit after its await: only an accepted sale stays in exitingSymbols, and  *)
(* a throw or an unknown result halts, whoever submitted.                      *)
(* Mutant: an accepted sale is released too. *)
AnsweredReleasing(t, o, result) ==
    [t EXCEPT !.halted = @ \/ result \in {"THROWN", "UNKNOWN_RESULT"},
              !.exiting = @ \ {o.symbol},
              !.exited = IF result = "ACCEPTED" THEN @ \cup {o.symbol} ELSE @]

(* Mutant: exitedSymbolsToday is not kept. *)
AnsweredForgetting(t, o, result) ==
    [t EXCEPT !.halted = @ \/ result \in {"THROWN", "UNKNOWN_RESULT"},
              !.exiting = IF result = "ACCEPTED" THEN @ ELSE @ \ {o.symbol}]

Answered(t, o, result) ==
    LET selling == o.side = "SELL"
        accepted == result = "ACCEPTED"
    IN  [t EXCEPT !.halted = @ \/ result \in {"THROWN", "UNKNOWN_RESULT"},
                  !.exiting = IF selling /\ ~accepted THEN @ \ {o.symbol} ELSE @,
                  !.exited = IF selling /\ accepted THEN @ \cup {o.symbol} ELSE @]

(* The caller goes on: a tick is forgotten, a cycle goes to its next position  *)
(* after a sale and ends after its purchase.                                   *)
Resume(o, result) ==
    LET w == [Working EXCEPT !.trader = Answered(trader, o, result), !.queue = Tail(queue)]
    IN  \E next \in IF o.by = "tick" THEN {w}
                    ELSE IF o.side = "SELL" THEN Walks(w) ELSE {[w EXCEPT !.cycle = NoCycle]} :
            Becomes(next)

(* The broker takes an order, except a sale of what is not there to sell.      *)
Sellable(s) == s \in held \ (sells \cup doubtful)

Takes(o, known) ==
    IF o.side = "BUY"
    THEN /\ buys' = buys \cup {o.symbol}
         /\ unseen' = IF o.symbol \in held \cup buys \cup shown THEN unseen
                      ELSE [s \in DOMAIN unseen \cup {o.symbol} |->
                              IF s = o.symbol THEN cycle.age ELSE unseen[s]]
         /\ UNCHANGED <<held, sells, doubtful, sold, shown>>
    ELSE /\ Sellable(o.symbol)
         /\ sells' = IF known THEN sells \cup {o.symbol} ELSE sells
         /\ doubtful' = IF known THEN doubtful ELSE doubtful \cup {o.symbol}
         /\ sold' = IF known THEN sold \cup {o.symbol} ELSE sold
         /\ UNCHANGED <<held, buys, shown, unseen>>

ServeAccepted ==
    /\ queue # <<>> /\ service = "ok"
    /\ Takes(Head(queue), TRUE)
    /\ Resume(Head(queue), "ACCEPTED")
    /\ UNCHANGED <<enabled, service>>

(* Refused by the broker, or by the service before anything is sent: the kill  *)
(* switch, reconciliation, a limit or the journal make it throw.               *)
ServeRefused(result) ==
    /\ queue # <<>> /\ result \in {"REJECTED", "THROWN"}
    /\ result = "REJECTED" => service = "ok"
    /\ Resume(Head(queue), result)
    /\ UNCHANGED <<enabled, service, broker>>

(* The answer is lost, or an accepted one cannot be journalled: the order may  *)
(* be at the broker, and the service stops until a person resolves it.         *)
ServeLost(result) ==
    /\ queue # <<>> /\ service = "ok" /\ result \in {"UNKNOWN_RESULT", "THROWN"}
    /\ Takes(Head(queue), FALSE)
    /\ Resume(Head(queue), result)
    /\ service' = "stopped"
    /\ UNCHANGED enabled

ServeNothingSent ==
    /\ queue # <<>> /\ service = "ok"
    /\ Resume(Head(queue), "UNKNOWN_RESULT")
    /\ service' = "stopped"
    /\ UNCHANGED <<enabled, broker>>

-----------------------------------------------------------------------------
(* The user: settings may change while a cycle waits; a halt ends only here.   *)
UpdateSettings ==
    /\ enabled' = ~enabled
    /\ UNCHANGED <<trader, cycle, queue, service, broker>>

ClearHalt ==
    /\ trader.halted
    /\ trader' = [trader EXCEPT !.halted = FALSE]
    /\ UNCHANGED <<enabled, cycle, queue, service, broker>>

ServiceChanges ==
    /\ service' \in ServiceStates \ {service}
    /\ UNCHANGED <<enabled, trader, cycle, queue, broker>>

(* The broker: orders fill or die, the balance follows.                        *)
BuyFills(s) ==
    /\ s \in buys
    /\ buys' = buys \ {s} /\ held' = held \cup {s}
    /\ UNCHANGED <<enabled, trader, cycle, queue, service, sells, doubtful, sold, shown, unseen>>

SellFills(s) ==
    /\ s \in sells \cup doubtful
    /\ sells' = sells \ {s} /\ doubtful' = doubtful \ {s} /\ held' = held \ {s}
    /\ UNCHANGED <<enabled, trader, cycle, queue, service, buys, sold, shown, unseen>>

OrderDies(s) ==
    /\ \/ s \in buys /\ buys' = buys \ {s} /\ UNCHANGED <<sells, doubtful>>
       \/ /\ s \in sells \cup doubtful
          /\ sells' = sells \ {s} /\ doubtful' = doubtful \ {s} /\ UNCHANGED buys
    /\ UNCHANGED <<enabled, trader, cycle, queue, service, held, sold, shown, unseen>>

BalanceFollows(s) ==
    /\ s \in held <=> s \notin shown
    /\ shown' = IF s \in held THEN shown \cup {s} ELSE shown \ {s}
    /\ UNCHANGED <<enabled, trader, cycle, queue, service, held, buys, sells, doubtful, sold, unseen>>

(* Time passes.                                                                 *)
Clock ==
    /\ cycle' = IF cycle.stage \in {"exits", "entry"}
                THEN [cycle EXCEPT !.age = Older(@, MaxAge)] ELSE cycle
    /\ trader' = [trader EXCEPT
                    !.pending = [s \in DOMAIN @ |-> Older(@[s], Grace)],
                    !.since = Older(@, Cooldown)]
    /\ unseen' = [s \in DOMAIN unseen |-> Older(unseen[s], Grace)]
    /\ UNCHANGED <<enabled, queue, service, held, buys, sells, doubtful, sold, shown>>

(* A night: the market is closed, nothing runs, open orders expire. The first  *)
(* evaluation of the day drops what exitedSymbolsToday holds of the day before *)
(* (resolvePositions), before anything reads it.                               *)
NextDay ==
    /\ cycle.stage = "idle" /\ queue = <<>>
    /\ buys' = {} /\ sells' = {} /\ doubtful' = {} /\ sold' = {}
    /\ shown' = held
    /\ unseen' = <<>>
    /\ trader' = [trader EXCEPT !.exited = {}, !.since = Cooldown,
                                !.pending = [s \in DOMAIN @ |-> Grace]]
    /\ UNCHANGED <<enabled, cycle, queue, service, held>>

(* The process ends and starts again. Only the settings are kept: what the      *)
(* trader had in memory is gone, the submissions that waited are gone, and the  *)
(* one the service was working on may have reached the broker, which then       *)
(* leaves the new process a command without an outcome. An earlier process's    *)
(* purchases count as old: nothing waits for them.                              *)
Restart ==
    /\ \E head \in {{}, {queue[i] : i \in DOMAIN queue \cap {1}}} :
          LET bought == {o.symbol : o \in {x \in head : x.side = "BUY"}}
              onSale == {o.symbol : o \in {x \in head : x.side = "SELL" /\ Sellable(x.symbol)}}
          IN  /\ head # {} => service = "ok"
              /\ service' \in IF head = {} THEN ServiceStates ELSE {"stopped"}
              /\ buys' = buys \cup bought
              /\ doubtful' = doubtful \cup sells \cup onSale
              /\ unseen' = [s \in DOMAIN unseen \cup bought |-> Grace]
    /\ trader' = NewTrader /\ cycle' = NoCycle /\ queue' = <<>>
    /\ sells' = {} /\ sold' = {}
    /\ UNCHANGED <<enabled, held, shown>>

ServiceAnswers ==
    \/ ServeAccepted
    \/ \E result \in Results : ServeRefused(result)
    \/ \E result \in Results : ServeLost(result)
    \/ ServeNothingSent

(* A day of one process.                                                        *)
Running ==
    \/ StartCycle
    \/ ReadBalance
    \/ CollectFails
    \/ Evaluate
    \/ \E s \in Symbols : RealtimeTick(s)
    \/ ServiceAnswers
    \/ UpdateSettings
    \/ ClearHalt
    \/ ServiceChanges
    \/ \E s \in Symbols : BuyFills(s)
    \/ \E s \in Symbols : SellFills(s)
    \/ \E s \in Symbols : OrderDies(s)
    \/ \E s \in Symbols : BalanceFollows(s)
    \/ Clock

TraderNext == Running \/ NextDay \/ Restart

TraderSpec == TraderInit /\ [][TraderNext]_traderVars

-----------------------------------------------------------------------------
OnTheWay(side) == {o.symbol : o \in {x \in ToSet(queue) : x.side = side}}

(* Symbols out of the trader's sight: of a purchase that was accepted the whole *)
(* settlement grace has passed, or the process that made it has ended, and no   *)
(* balance has shown it. What becomes of such a symbol the code leaves open.    *)
OutOfSight == {s \in DOMAIN unseen : unseen[s] >= Grace}

(* A symbol held or being bought is not bought again, however late the balance  *)
(* is and although the cycle works on an even older one, unless it is out of    *)
(* sight: within the grace no purchase is on its way for a symbol that already  *)
(* has one (the entry of 042700 bought twice: comment of `evaluating';          *)
(* pendingOrders, prunePendingOrders).                                          *)
OneBuyPerSymbol == OnTheWay("BUY") \cap (held \cup buys) \subseteq OutOfSight

(* A cycle and the ticks of a symbol never have two sales of it under way: one  *)
(* in the queue, or one accepted and open (the rejected second sale of 356680,  *)
(* comment of exitingSymbols). The exceptions: a sale whose answer was lost is  *)
(* released for another try; exitingSymbols is in memory, so a process knows    *)
(* nothing of the sales an earlier one left open; a symbol out of sight.        *)
NoSellTwice ==
    /\ \A i, j \in DOMAIN queue :
           queue[i].side = "SELL" /\ queue[j] = [queue[i] EXCEPT !.by = queue[j].by] =>
               i = j \/ queue[i].symbol \in OutOfSight
    /\ OnTheWay("SELL") \cap sells \subseteq OutOfSight

(* A symbol whose sale was accepted today is not bought again today by the same *)
(* process, although the cycle that would buy it may have read everything       *)
(* before the sale, unless it is out of sight. (exitedSymbolsToday is in        *)
(* memory: a process that starts has forgotten what was sold.)                  *)
NoReentry == OnTheWay("BUY") \cap sold \subseteq OutOfSight
=============================================================================
