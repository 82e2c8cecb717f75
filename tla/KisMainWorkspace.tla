-------------------------- MODULE KisMainWorkspace ---------------------------
(* The main screen's data: kisMainWorkspace.js. A market refresh makes three    *)
(* requests in turn and reads the selection before each; the selection may      *)
(* change between them, and the switch joins the refresh under way. An account  *)
(* refresh asks for the balance and, when due or forced, the order history.     *)
(* Manual orders go through here: each waits for a forced account refresh       *)
(* before it answers. Prices and books are reduced to the stock they belong to, *)
(* the history to the moment KIS was asked for it: which of the orders accepted *)
(* by then KIS already lists is up to KIS (kisPaperReconciler.js:230-236 waits  *)
(* for an order to become visible).                                             *)
EXTENDS KisRecommendationDataClient

CONSTANTS
    Symbols,        \* what can be selected
    Users,          \* manual orders: each browser has one at a time
    NoSymbol,       \* no data
    MaxSwitches,    \* bound: changes of the selection
    MaxOrders       \* bound: orders accepted

ASSUME WorkspaceAssumption ==
    /\ NoSymbol \notin Symbols \cup Users /\ MaxSwitches \in Nat /\ MaxOrders \in Nat
    /\ "workspace" \in Callers

VARIABLES
    selection,      \* selection.symbol
    market,         \* the stock quote, restOrderBook and realtimeSnapshot belong to
    candles,        \* the stocks the chart's candles come from
    refresh,        \* marketRefreshPromise: what is asked for, what was answered
    switches,       \* switchInstrument calls
    accepted,       \* orders KIS accepted
    readAt,         \* orders accepted when orderHistory was read at KIS
    account,        \* accountRefreshPromise: asked for, with the history or without
    trouble,        \* the last account refresh left an error
    order           \* the manual order of each user

marketVars == <<selection, market, candles, refresh, switches>>
accountVars == <<accepted, readAt, account, trouble, order>>

NoRefresh == [step |-> "none", quote |-> NoSymbol, book |-> NoSymbol, bars |-> NoSymbol]
NoAccount == [step |-> "none", history |-> FALSE, from |-> 0]
NoOrder == [at |-> "none", number |-> 0]

(* The constructor; selectionQuote makes a quote from what was saved.           *)
WorkspaceInit ==
    /\ selection \in Symbols
    /\ market = [quote |-> selection, book |-> NoSymbol, live |-> NoSymbol]
    /\ candles = {} /\ refresh = NoRefresh /\ switches = 0
    /\ accepted = 0 /\ readAt = 0 /\ account = NoAccount /\ trouble = FALSE
    /\ order = [u \in Users |-> NoOrder]

-----------------------------------------------------------------------------
(* The market.                                                                  *)

BeginMarket(symbol) ==
    /\ refresh' = [NoRefresh EXCEPT !.step = "quote", !.quote = symbol]
    /\ Call("workspace", "bare")

(* refreshMarket joins the refresh under way.                                   *)
RefreshMarket(symbol) ==
    IF refresh.step = "none" THEN BeginMarket(symbol) ELSE UNCHANGED <<refresh, requestVars>>

(* refreshDue, every marketRefreshMs; POST /api/kis/main/refresh.               *)
MarketDue ==
    /\ refresh.step = "none"
    /\ BeginMarket(selection)
    /\ UNCHANGED <<selection, market, candles, switches, accountVars>>

(* switchInstrument forgets what was received for the old selection.            *)
LiveAfter(symbol) == NoSymbol

SwitchInstrument ==
    /\ switches < MaxSwitches
    /\ \E symbol \in Symbols :
          /\ selection' = symbol
          /\ market' = [quote |-> symbol, book |-> NoSymbol, live |-> LiveAfter(symbol)]
          /\ candles' = {}
          /\ RefreshMarket(symbol)
    /\ switches' = switches + 1
    /\ UNCHANGED accountVars

(* performMarketRefresh between its awaits: the next request asks for the       *)
(* selection of now.                                                            *)
QuoteFound ==
    /\ refresh.step = "quote" /\ call["workspace"].at = "ok"
    /\ refresh' = [refresh EXCEPT !.step = "book", !.book = selection]
    /\ Enter("workspace", NoCall)
    /\ UNCHANGED <<selection, market, candles, switches, accountVars>>

BookFound ==
    /\ refresh.step = "book" /\ call["workspace"].at = "ok"
    /\ refresh' = [refresh EXCEPT !.step = "bars", !.bars = selection]
    /\ Enter("workspace", NoCall)
    /\ UNCHANGED <<selection, market, candles, switches, accountVars>>

(* The three answers are taken over together, whoever is selected now.          *)
BarsFound ==
    /\ refresh.step = "bars" /\ call["workspace"].at = "ok"
    /\ market' = [market EXCEPT !.quote = refresh.quote, !.book = refresh.book]
    /\ candles' = {refresh.bars}
    /\ refresh' = NoRefresh
    /\ Return("workspace")
    /\ UNCHANGED <<selection, switches, accountVars>>

(* Mutant: after a failure the refresh counts as still under way. *)
RefreshKept == refresh

RefreshOver == NoRefresh

MarketFails ==
    /\ refresh.step # "none" /\ call["workspace"].at = "failed"
    /\ refresh' = RefreshOver
    /\ Return("workspace")
    /\ UNCHANGED <<selection, market, candles, switches, accountVars>>

(* onMarketData: only the selection's.                                          *)
Taken(symbol) == symbol = selection

(* A tick, with its trade (captureTrade) or without one. Ticks of the old       *)
(* selection come until KIS has ended their subscription.                       *)
MarketDataOf(symbol) ==
    /\ Taken(symbol)
    /\ market' = [market EXCEPT !.live = symbol]
    /\ candles' \in {candles, candles \cup {symbol}}
    /\ UNCHANGED <<selection, refresh, switches, accountVars, requestVars>>

-----------------------------------------------------------------------------
(* The account and the manual orders.                                           *)

Asked(history, now) == [step |-> "asked", history |-> history, from |-> now]

(* refreshDue, every accountRefreshMs, and the forced refreshes of a switch and *)
(* of POST /api/kis/main/refresh: the history with it when its time has come.   *)
AccountDue ==
    /\ account.step = "none"
    /\ \E due \in BOOLEAN : account' = Asked(due, accepted)
    /\ UNCHANGED <<accepted, readAt, trouble, order, marketVars, requestVars>>

Queued == {u \in Users : order[u].at = "queued"}

(* The refresh ends. In the same run whoever waited for it goes on: an order    *)
(* whose own refresh this was answers its user, and of the orders that queued   *)
(* the first begins the next refresh. The history is read no earlier than the   *)
(* call that asked for it (KisPaperTradingClient: FreshHistory); without a      *)
(* balance the rest of the answers is thrown away.                              *)
AccountAnswered ==
    /\ account.step = "asked"
    /\ \/ trouble' = TRUE /\ UNCHANGED readAt
       \/ /\ trouble' = FALSE
          /\ IF account.history THEN readAt' \in account.from..accepted ELSE UNCHANGED readAt
    /\ \E first \in IF Queued = {} THEN {NoSymbol} ELSE Queued :
          /\ account' = IF Queued = {} THEN NoAccount ELSE Asked(TRUE, accepted)
          /\ order' = [u \in Users |->
                CASE order[u].at = "joined" -> NoOrder
                  [] u = first -> [order[u] EXCEPT !.at = "joined"]
                  [] OTHER -> order[u]]
    /\ UNCHANGED <<accepted, marketVars, requestVars>>

(* submitOrder: the service decides.                                            *)
Submit(u) ==
    /\ order[u].at = "none" /\ accepted < MaxOrders
    /\ order' = [order EXCEPT ![u].at = "sent"]
    /\ UNCHANGED <<accepted, readAt, account, trouble, marketVars, requestVars>>

(* Mutant: an order joins the account refresh under way. *)
JoinsAny == "joined"

(* refreshAccount({forceOrderHistory: true}) waits for the end of the refresh   *)
(* under way, then begins one of its own.                                       *)
WaitsForOwn == "queued"

(* The service refuses and the user is told at once, or it accepts.             *)
OrderAnswered(u) ==
    /\ order[u].at = "sent"
    /\ \/ order' = [order EXCEPT ![u] = NoOrder] /\ UNCHANGED <<accepted, account>>
       \/ /\ accepted < MaxOrders /\ accepted' = accepted + 1
          /\ IF account.step = "none"
             THEN /\ account' = Asked(TRUE, accepted')
                  /\ order' = [order EXCEPT ![u] = [at |-> "joined", number |-> accepted']]
             ELSE /\ order' = [order EXCEPT ![u] = [at |-> WaitsForOwn, number |-> accepted']]
                  /\ UNCHANGED account
    /\ UNCHANGED <<readAt, trouble, marketVars, requestVars>>

MarketProgress == QuoteFound \/ BookFound \/ BarsFound \/ MarketFails

MarketStep ==
    \/ MarketDue \/ SwitchInstrument \/ MarketProgress
    \/ \E s \in Symbols : MarketDataOf(s)

AccountStep ==
    \/ AccountDue \/ AccountAnswered
    \/ \E u \in Users : Submit(u) \/ OrderAnswered(u)

-----------------------------------------------------------------------------

(* Everything on the screen is the selection's (switchInstrument, README.md:38).*)
MarketOfSelection ==
    /\ market.quote = selection
    /\ market.book \in {selection, NoSymbol} /\ market.live \in {selection, NoSymbol}
    /\ candles \subseteq {selection}

(* A refresh that was under way at a switch may bring the old selection back;   *)
(* it does not stay, and nothing of the old ticks does: if KIS answers now and  *)
(* then, the screen is the selection's in the end (refreshDue, onMarketData).   *)
MarketCatchesUp == <>[]MarketOfSelection

(* When an accepted order's answer reaches the user, the history on the screen  *)
(* was read after KIS accepted the order, or an error is on the screen: no      *)
(* history from before the order passes for what became of it. That KIS already *)
(* lists the order is not claimed (submitOrder: await refreshAccount with       *)
(* forceOrderHistory).                                                          *)
ReadAfterOrder ==
    [][\A u \in Users :
          order[u].at = "joined" /\ order'[u].at = "none" => readAt' >= order[u].number \/ trouble']_order
=============================================================================
