---------------------------- MODULE MarketRuntime ----------------------------
(***************************************************************************)
(* The internal market: a timer's ticks, the simulated account, the auto   *)
(* strategy with its approvals, the kill switch and the recording of it    *)
(* all in the execution journal.                                           *)
(*                                                                         *)
(* Every handler runs to its end without an await, so each is one action.  *)
(* An append to the journal can throw anywhere in a handler: the rest of   *)
(* the handler is skipped and what it did before stays.  A request's       *)
(* handler answers with the error; the timer's callback ends the process.  *)
(* Handlers are therefore written as the set of states of the process's    *)
(* memory they can end in.                                                 *)
(*                                                                         *)
(* Signals, settings and the age of an approval are choices of the         *)
(* environment.  The server runs the runtime on its simulator only, so     *)
(* there is always market data.                                            *)
(***************************************************************************)
EXTENDS PaperTrader, JournalRecorder

CONSTANTS
  Markets,            \* snapshots of the market: last price, bids and asks
  UserOrders,         \* side, type, limit and quantity of what users order
  EntryQuantity,      \* strategySettings.orderQuantity
  LossOutcomes,       \* what a sale may do to the loss limit
  MaxOrders,          \* bound: orders of one account
  MaxOrderEvents,     \* bound: events of an open order before a tick
  MaxRequests,        \* bound: approvals requested
  MaxFailures,        \* bound: appends that throw
  MaxEffort           \* bound: orders, requests and throws together

ASSUME RuntimeAssumption ==
  /\ Markets # {}
  /\ Markets \subseteq [last : Nat \ {0}, bids : Seq(BookLevel), asks : Seq(BookLevel)]
  /\ \A k \in Markets : \A n \in DOMAIN k.asks : Priced(k.asks[n])
  /\ UserOrders \subseteq [side : Sides, type : {"MARKET", "LIMIT"}, limit : Nat,
                           quantity : Nat \ {0}]
  /\ \A u \in UserOrders : u.limit = 0 <=> u.type = "MARKET"
  /\ EntryQuantity \in 1..MaxOrderQuantity
  /\ LossOutcomes # {} /\ LossOutcomes \subseteq BOOLEAN
  /\ {MaxOrders, MaxOrderEvents, MaxRequests, MaxFailures, MaxEffort} \subseteq Nat

VARIABLES
  acct,               \* trader.account
  tracks,             \* the recorder, and what the journal holds of the orders
  requests,           \* pendingApprovals: the status of each request
  killSwitch,
  autoPaperTrading,
  market,             \* the last snapshot
  timer,              \* the 200 ms timer runs
  up,                 \* the process runs
  failures            \* appends that threw so far

vars == <<acct, tracks, requests, killSwitch, autoPaperTrading, market, timer, up, failures>>

Init ==
  /\ market \in Markets
  /\ acct = EmptyAccount
  /\ tracks = <<>>
  /\ requests = <<>>
  /\ killSwitch = FALSE
  /\ autoPaperTrading = FALSE
  /\ timer = TRUE
  /\ up = TRUE
  /\ failures = 0

(***************************************************************************)
(* The memory of the process while a handler runs.                         *)
(***************************************************************************)
Memory ==
  [acct |-> acct, tracks |-> tracks, requests |-> requests, killSwitch |-> killSwitch,
   auto |-> autoPaperTrading, failures |-> failures, threw |-> FALSE]

Keep(m) ==
  /\ acct' = m.acct
  /\ tracks' = m.tracks
  /\ requests' = m.requests
  /\ killSwitch' = m.killSwitch
  /\ autoPaperTrading' = m.auto
  /\ failures' = m.failures

(* What comes next in a handler is skipped after a throw. *)
Then(memories, Continue(_)) ==
  UNION {IF m.threw THEN {m} ELSE Continue(m) : m \in memories}

Spent(m) == Len(m.acct.orders) + Len(m.requests) + m.failures >= MaxEffort

Thrown(m) ==
  IF m.failures = MaxFailures \/ Spent(m) THEN {}
  ELSE {[m EXCEPT !.failures = @ + 1, !.threw = TRUE]}

(* haltForExecutionJournalError() *)
Halted(m) == [m EXCEPT !.killSwitch = TRUE, !.auto = FALSE]

(* captureExecutionJournal() *)
Capture(m) ==
  LET orders == m.acct.orders
  IN {[m EXCEPT !.tracks = Captured(orders, m.tracks)]}
       \cup {[Halted(t) EXCEPT !.tracks = cut] :
               t \in Thrown(m), cut \in CaptureFails(orders, m.tracks)}

(* recordStrategyApproval(): a throw here turns nothing off. *)
RecordApproval(m) == {m} \cup Thrown(m)

(***************************************************************************)
(* submitOrder(), executeStrategyIntent(), the approvals                   *)
(***************************************************************************)
SubmitOrder(m, mkt, request) ==
  IF Len(m.acct.orders) = MaxOrders \/ Spent(m) THEN {}
  ELSE UNION {Capture([m EXCEPT !.acct = Submit(@, request, mkt, m.killSwitch, loss)]) :
                loss \in LossOutcomes}

StrategyOrder(side, quantity, approval) ==
  [side |-> side, type |-> "MARKET", limit |-> 0, quantity |-> quantity,
   source |-> "STRATEGY", approval |-> approval]

PendingRequests(m) == {i \in DOMAIN m.requests : m.requests[i] = "PENDING"}

(* The request that waits may be overdue. *)
Expire(m) ==
  {m} \cup UNION {RecordApproval([m EXCEPT !.requests[i] = "EXPIRED"]) :
                    i \in PendingRequests(m)}

RequestApproval(m) ==
  IF PendingRequests(m) # {} THEN {m}
  ELSE IF Len(m.requests) = MaxRequests \/ Spent(m) THEN {}
  ELSE RecordApproval([m EXCEPT !.requests = Append(@, "PENDING")])

(***************************************************************************)
(* maybeRunStrategy(): no intent, an entry or an exit.                     *)
(***************************************************************************)
Enter(m, mkt) ==
  IF m.acct.position # 0 THEN {}
  ELSE RequestApproval(m) \cup SubmitOrder(m, mkt, StrategyOrder("BUY", EntryQuantity, 0))

OpenOrdersCancelled(m) ==
  [m EXCEPT !.acct.orders = [i \in DOMAIN @ |-> Cancelled(@[i])]]

Exit(m, mkt) ==
  IF m.acct.position = 0 THEN {}
  ELSE Then(Capture(OpenOrdersCancelled(m)),
            LAMBDA c : SubmitOrder(c, mkt, StrategyOrder("SELL", c.acct.position, 0)))

RunStrategy(m, mkt) ==
  IF ~m.auto \/ m.killSwitch THEN {m}
  ELSE Then(Expire(m), LAMBDA e : {e} \cup Enter(e, mkt) \cup Exit(e, mkt))

(***************************************************************************)
(* Actions                                                                 *)
(***************************************************************************)
(* Bound: ticks add events to open orders that are partly filled. *)
RoomForEvents ==
  \A i \in DOMAIN acct.orders :
    acct.orders[i].open => acct.orders[i].events <= MaxOrderEvents

Matched(mkt) ==
  {[Memory EXCEPT !.acct = MatchOpen(@, mkt, loss)] : loss \in LossOutcomes}

(* advance(): a throw in the timer's callback ends the process. *)
Tick ==
  /\ up
  /\ timer
  /\ RoomForEvents
  /\ market' \in Markets
  /\ \E m \in Then(UNION {Capture(t) : t \in Matched(market')},
                   LAMBDA c : RunStrategy(c, market')) :
       /\ Keep(m)
       /\ up' = ~m.threw
  /\ UNCHANGED timer

(* applyVerificationMarketTick(): stops the timer for good, and matches    *)
(* the open orders without recording it.                                   *)
VerificationTick ==
  /\ up
  /\ RoomForEvents
  /\ market' \in Markets
  /\ timer' = FALSE
  /\ \E m \in Then(Matched(market'), LAMBDA c : RunStrategy(c, market')) : Keep(m)
  /\ UNCHANGED up

(* A request served on the market as it is. *)
Serve(memories) ==
  /\ up
  /\ \E m \in memories : Keep(m)
  /\ UNCHANGED <<market, timer, up>>

ManualOrder(u) ==
  Serve(SubmitOrder(Memory, market,
          [side |-> u.side, type |-> u.type, limit |-> u.limit, quantity |-> u.quantity,
           source |-> "MANUAL", approval |-> 0]))

CancelOrder(i) ==
  /\ i \in DOMAIN acct.orders
  /\ acct.orders[i].open
  /\ Serve(Capture([Memory EXCEPT !.acct = Cancel(@, i)]))

(* A resent order, or the cancel of a closed one, changes no order; what   *)
(* is still due is recorded.                                               *)
Replay ==
  /\ acct.orders # <<>>
  /\ Serve(Capture(Memory))

(* Mutant: a request already decided is carried out again. *)
ApproveWhatever(m, i) ==
  LET approved == [m EXCEPT !.requests[i] = "APPROVED"]
  IN Then(RecordApproval(approved),
          LAMBDA r : SubmitOrder(r, market, StrategyOrder("BUY", EntryQuantity, i)))

(* approveOrder(): the order is executed on the market of the approval,    *)
(* whether the strategy is on or off.                                      *)
Approve(m, i) ==
  IF m.requests[i] # "PENDING" THEN {m}
  ELSE LET approved == [m EXCEPT !.requests[i] = "APPROVED"]
       IN Then(RecordApproval(approved),
               LAMBDA r : SubmitOrder(r, market, StrategyOrder("BUY", EntryQuantity, i)))

ApproveOrder(i) ==
  /\ i \in DOMAIN requests
  /\ Serve(Then(Expire(Memory), LAMBDA m : Approve(m, i)))

Reject(m, i) ==
  IF m.requests[i] # "PENDING" THEN {m}
  ELSE RecordApproval([m EXCEPT !.requests[i] = "REJECTED"])

RejectOrder(i) ==
  /\ i \in DOMAIN requests
  /\ Serve(Then(Expire(Memory), LAMBDA m : Reject(m, i)))

SetKillSwitch(enabled) ==
  Serve({[Memory EXCEPT !.killSwitch = enabled, !.auto = @ /\ ~enabled]})

SetAutoPaperTrading(enabled) ==
  Serve({[Memory EXCEPT !.auto = enabled /\ ~killSwitch]})

(* ACCOUNT_RESET is recorded before the account is emptied. *)
ResetPaperAccount ==
  Serve({[Memory EXCEPT !.acct = EmptyAccount, !.tracks = <<>>]}
          \cup {Halted(t) : t \in Thrown(Memory)})

SwitchInstrument ==
  /\ up
  /\ ~autoPaperTrading
  /\ acct.position = 0
  /\ acct.orders = <<>>
  /\ market' \in Markets
  /\ UNCHANGED <<acct, tracks, requests, killSwitch, autoPaperTrading, timer, up, failures>>

Stop ==
  /\ up
  /\ up' = FALSE
  /\ UNCHANGED <<acct, tracks, requests, killSwitch, autoPaperTrading, market, timer, failures>>

(* A new process restores nothing but the settings. *)
Start ==
  /\ ~up
  /\ acct' = EmptyAccount
  /\ tracks' = <<>>
  /\ requests' = <<>>
  /\ killSwitch' = FALSE
  /\ autoPaperTrading' = FALSE
  /\ market' \in Markets
  /\ timer' = TRUE
  /\ up' = TRUE
  /\ UNCHANGED failures

Next ==
  \/ Tick
  \/ VerificationTick
  \/ \E u \in UserOrders : ManualOrder(u)
  \/ \E i \in 1..MaxOrders : CancelOrder(i)
  \/ Replay
  \/ \E i \in 1..MaxRequests : ApproveOrder(i)
  \/ \E i \in 1..MaxRequests : RejectOrder(i)
  \/ \E enabled \in BOOLEAN : SetKillSwitch(enabled)
  \/ \E enabled \in BOOLEAN : SetAutoPaperTrading(enabled)
  \/ ResetPaperAccount
  \/ SwitchInstrument
  \/ Stop
  \/ Start

Spec == Init /\ [][Next]_vars

(***************************************************************************)
(* Properties                                                              *)
(***************************************************************************)
(* The account adds up, and what validate() promised the open orders when  *)
(* it took them is still there after every fill, cancel and later order.   *)
AccountHolds ==
  /\ AccountBalances(acct)
  /\ SharesReserved(acct)
  /\ CashReserved(acct)
  /\ PositionCapped(acct)

(* An order is filled from a tick's book only after every older order of   *)
(* its side that asks for no better price has been filled completely.      *)
FifoFills ==
  [][\A j \in DOMAIN acct.orders : \A i \in 1..(j - 1) :
       LET older == acct.orders[i]
           younger == acct.orders[j]
       IN /\ older.open /\ younger.open
          /\ older.side = younger.side
          /\ IF older.side = "BUY" THEN older.limit >= younger.limit
                                   ELSE older.limit <= younger.limit
          /\ j \in DOMAIN acct'.orders
          /\ acct'.orders[j].filled > younger.filled
          => acct'.orders[i].remaining = 0]_vars

(* Every request is decided once: one waits at a time, an order stands for *)
(* an approved request, and no two orders for the same.                    *)
ApprovalsDecideOnce ==
  LET approved == {i \in DOMAIN acct.orders : acct.orders[i].approval # 0}
  IN /\ Cardinality(PendingRequests(Memory)) <= 1
     /\ \A i \in approved : requests[acct.orders[i].approval] = "APPROVED"
     /\ \A i, j \in approved : acct.orders[i].approval = acct.orders[j].approval => i = j

(* As long as no append failed, the journal holds the events of each order *)
(* in their order and once; while the timer runs, all of them whenever no  *)
(* handler is running.                                                     *)
JournalFollows ==
  failures = 0 =>
    \A i \in DOMAIN acct.orders :
      LET written == Track(tracks, i).written
      IN /\ written = [k \in DOMAIN written |-> k - 1]
         /\ timer => Len(written) = acct.orders[i].events + 1

(* Whatever failed, an event is in the journal only after those before it, *)
(* and what the recorder counts as seen is there.                          *)
NothingSkipped ==
  \A i \in DOMAIN tracks :
    LET written == tracks[i].written
    IN /\ \A k \in DOMAIN written : \A n \in 0..(written[k] - 1) :
            \E h \in 1..(k - 1) : written[h] = n
       /\ tracks[i].seen > 0 => tracks[i].seen \in Range(written)

(* Through any failed append, handler and tick, the journal holds each     *)
(* order's events in order, and all of them if no append failed.           *)
JournalKept == JournalFollows /\ NothingSkipped
=============================================================================
