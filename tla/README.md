# PulseHFT in TLA+

A model of PulseHFT: a Node.js server that trades brokerage accounts at 한국투자증권
(KIS), a paper one and a live one, through order services with a write-ahead
journal, runs an automatic trader and a screen for a person beside them, and keeps
a simulated market with an account of its own. The modules here describe the parts
of the server that decide whether an order is sent, recorded and accounted for, what
it is decided from, and what survives a restart; TLC checks them on small instances
and TLAPS proves the main results for every instance.

## The system

One process, one event loop. "Concurrent" below means interleaved at `await`s,
timers and socket callbacks; handlers that do not await are atomic.

| part | source (under `src/server`) | state | operations |
|---|---|---|---|
| KIS paper order service | `integrations/kis/kisPaperOrderService.js` | commands by client order id, kill switch, unknown flag, queue, risk baselines, reconciliation in flight | submit, revise, cancel, resolve unknown, kill switch, balance poll, replay at start |
| KIS paper reconciler | `domain/kisPaperReconciler.js` | current report, latched days | reconcile, acknowledge, mark unavailable, replay |
| KIS live order service, reconciler | `integrations/kis/kisLiveOrderService.js`, `domain/kisLiveReconciler.js` | as the paper twins, with a baseline of positions and a limit of one share | as the paper twins |
| KIS trading clients, token store | `integrations/kis/kisPaperTradingClient.js`, `kisLiveTradingClient.js`, `kisTokenStore.js` | request queue, balance and order-history caches, requests under way, token file | read balance and history, submit, revise, cancel |
| performance trackers | `domain/kisPaperPerformance.js`, `kisLivePerformanceTracker.js` | executed quantity seen of each order | record fills, replay, report, reset |
| execution journal | `domain/executionJournal.js` | the file, next sequence number; the recorder's seen orders and events | append, read all at start; capture, account reset |
| paper trader | `domain/paperTrader.js` | cash, position, orders, fills | submit, match, cancel, reset |
| market runtime | `domain/runtime.js`, `strategyPolicy.js`, `positionRiskTracker.js`, `simulator.js` | snapshot, kill switch, auto flag, pending approvals | tick, submit, cancel, approve, reject, switch instrument, reset |
| KIS paper auto trader | `domain/kisPaperAutoTrader.js`, the cycle in `app.js` | halt, pending buys, holdings, exits in flight, symbols exited today | evaluate, realtime tick, halt, clear halt |
| KIS realtime client and coordinator | `integrations/kis/kisRealtime*.js` | socket, state, desired symbols, block, back-off | watch, start, stop, connect, messages, block, clear |
| KIS data client | `integrations/kis/kisRecommendationDataClient.js`, `kisProdReadOnlyClient.js` | next request time | spaced reads with retries |
| recommendation scanner | `domain/recommendationScanner.js`, `realtimeConfirmationEngine.js` | candidates, their realtime states, refresh under way | refresh, ticks, expiry |
| main workspace | `domain/kisMainWorkspace.js` | selection, quote, book, candles, order history, refreshes under way | refresh, switch instrument, manual orders |
| server process | `app.js` | lock file, timers | start, shut down, routes |
| settings | `strategySettingsStore.js`, `selectedInstrumentStore.js`, `paperAutoTradingConfigStore.js` | one file each, the strategy's with a history | load, save, restore a version |
| research journal | `domain/realtimeResearchJournal.js` | queue of events, file | record, flush, stop |
| LS feed, news, filings, browser, scripts | see `PROJECT.json` | display and research data | reads |

How they interact. The browser and the auto trader call the order services over HTTP
routes or directly; a service calls its client, the client calls KIS. Every command
is appended to the journal before the client posts it and its outcome after; at
start the service replays the journal. Every command that adds risk (SUBMIT, REVISE)
first forces a reconciliation of the account, which a balance poll may already have
in flight, in which case the command joins it. Each reconciliation hands the order
history to the performance tracker, whose losses and losing streaks the service's
gate reads. The auto trader takes its candidates from the scanner, its positions
from the paper balance and its ticks from the realtime client, which it shares with
the main screen and the recommendations through the coordinator. The scanner and
the main screen share one data client and its rate limit. The market runtime drives
the paper trader from ticks and journals its events through the recorder; it shares
nothing with the KIS accounts. All files lie in one data directory, which the
instance lock gives to one process.

What is hard here:

* an order is a sequence of awaits (reconciliation, balance, POST) between which the
  kill switch, the latch, the report and the calendar day change;
* a request to KIS may be answered, refused, lost, or accepted with its answer lost;
  it shows in the order history some time later and in the balance later still;
* caches, joined requests and refreshes under way hand data to callers that asked
  for it after something changed;
* the cycle of the auto trader and the ticks both decide on symbols, the cycle on a
  balance that does not show yet what was bought;
* the process may end between any two system calls, and any append, write or rename
  may fail or be cut short; files may be torn, synced halfway or numbered twice;
* sockets close, open and time out in any order while users stop, start and rewatch;
* long sequences of legal calls meet limits that were checked under other conditions.

What makes each part correct: an id is sent at most once and only when journaled; an
outcome in the journal is what the broker did; what is doubtful blocks new risk until
a person settles it; the safety switches come before every new order; an acknowledged
event is never lost; nothing is bought or sold twice on old data; one session streams
what is wanted; every wait ends; the simulated account adds up; what a person saved
is what a restart finds; one process writes the journal.

## Modules

| module | role |
|---|---|
| `OrderLedger` | abstract: what a client of an order service may rely on, per client order id |
| `KisPaperOrderService` | the paper order service with its reconciler, the client's request queue, the broker, the journal as replay sees it, crashes and the calendar |
| `KisPaperOrderService_proofs` | its inductive invariant and theorems |
| `KisLiveReconciler` | verdict, baseline and latch of the live account, without a state machine of its own |
| `KisLiveOrderService` | the live order service over it, a second implementation of `OrderLedger`; a round reads balance and history at moments of their own |
| `KisLiveOrderService_proofs` | its inductive invariant and theorems |
| `KisPaperTradingClient` | the HTTP client: token, queue, caches, joined requests, pages, retries |
| `KisLiveTradingClient` | the live client: which of those actions it restricts or replaces |
| `KisLiveTradingClient_proofs` | the inductive invariant and theorems of both clients |
| `KisPerformanceTracker` | executions observed, their events, and the FIFO report |
| `EventLog` | abstract: the append-only log the services take the journal for |
| `ExecutionJournal` | the JSON-lines file: open, write, fsync, close, kills, power loss, start |
| `ExecutionJournal_proofs` | its inductive invariant and theorems |
| `PaperTrader` | the simulated account: an operator from account to account per method |
| `JournalRecorder` | the recorder that copies order events to the journal |
| `MarketRuntime` | ticks, users, strategy, approvals, kill switch, over `PaperTrader` and `JournalRecorder` |
| `MarketRuntime_proofs` | the inductive invariant and theorems of these three |
| `KisPaperAutoTrader` | the evaluation cycle and the ticks, in front of a service that answers in order and a balance that lags; its process ends at any moment |
| `KisRealtimeMarketDataClient` | one socket over connect, stop, block, reconnect and back-off |
| `KisRealtimeSubscriptionCoordinator` | three watchers' lists merged into its limit |
| `RealtimeTrading_proofs` | two inductive invariants that share nothing, and their theorems: of the auto trader, and of client and coordinator |
| `KisRecommendationDataClient` | the spacing of requests and their retries |
| `RecommendationScanner` | refresh, candidates and what realtime data says of them, over that client |
| `KisMainWorkspace` | market and account of the main screen and its manual orders, over the same client |
| `MarketScreen_proofs` | the inductive invariant and theorems of these three |
| `ServerProcess` | the instance lock and shutdown of several processes over one journal |
| `SettingsStores` | what a user sets, in memory, in files and in the history |
| `RealtimeResearchJournal` | queue and file of the research recorder |
| `Server_proofs` | inductive invariants and theorems of `ServerProcess`, `SettingsStores`, `RealtimeResearchJournal` and the fills and the report of `KisPerformanceTracker` |
| `MC...` | small instances, and the compositions the runs check |

### KisPaperOrderService

State. `disk` is the journal as `replayJournal` reads it: for each client order id
the command and its last outcome; `diskLatched` the days with a
`BROKER_RECONCILIATION_MISMATCH` and no later acknowledgement, `riskBaselines` the
days with a baseline. `mem`, `killSwitch`, `unknownResult`, `latched`, `report` are
the fields of the service and of the reconciler. `rp` is `reconciliationPromise`,
`task` the head of `this.queue` with the point it has reached. `sent` and `broker`
are the environment: how often a request left, and what became of it.

Steps of a command, each up to the next await:

    BeginGated -> (JoinRound) -> gate -> [GateAwaitsBalance -> balance] ->
      JournalCommand -> calling -> Post -> posted -> Answer -> idle
    BeginCancel -> JournalCommand -> ...
    BeginResolve -> evidence -> Resolve -> (JoinRound) resolved -> idle

`Wake` is the continuation of a task that awaited a round. A reconciliation is two
steps: `FetchHistory` (what KIS lists at that moment) and `FinishRound` (the verdict
against the commands at that moment), or `FailRound`. `ClientFree` is the client's
serial request queue: a read cannot be answered while a POST waits for its answer.
A round fails when a request fails, when its mismatch cannot be journaled, or when
`performanceTracker.record` throws after it was: the latch stays in each case but the first.
`Verdict` follows `evaluateState` for everything that depends on commands and orders;
positions, fills, prices and grace periods are the choices `ledger` and `overdue`.
Broker order numbers are named by the id that caused them.

The environment may lose a request, refuse it, or accept it at any time after it was
posted (also after the client gave up or the process ended), and lists it later, on
the day it was accepted. Duplicate submissions of an id return the recorded result
and change nothing, so they are no action. A failing append leaves nothing in this
module; what really happens then is the subject of `ExecutionJournal`, whose clean
case is proved to implement the `EventLog` this module relies on.

### KisLiveOrderService and KisLiveReconciler

The same protocol with the stages of its own file: `reconcile`, `gate`, `balance`,
`calling`, `posted`, `evidence`, `resolved`. What the paper module leaves to a choice
is a mechanism here. Orders are accepted, listed, filled, shown in the balance and
canceled in steps of the broker, and a round (`GetBalance` or `JoinRound`, then
`ReadPosition` and `ReadHistory` in either order, `FinishRound` or `FailRound`)
compares the two reads with the commands and with the day's `baseline`, which the
first round derives from them. The user may place orders
elsewhere (`PlacedElsewhere`). One day, one symbol, one share an order, as the canary
limit has it. Whether a limit on value, quantity or loss ends a
task early is a choice; the daily count is counted.

### The trading clients

A caller runs from `Begin` to `answered`; `stage` says where it waits: joined to a
request another caller began (`on`), for the token, in the queue, for the answer, in
the pause before a retry. An answer is known by `asOf`, how many mutations the broker
had accepted when its oldest page was read. A cache or the token may expire at any
time. `Invalidated` forgets the history's cache and requests and moves its generation
on; the balance has no generation, and `FetchEnds` shows it. The live client asks for
each balance anew and refuses submissions locally when they are switched off
(`OrderEnabled`); `MCKisTradingClients` chooses one of the two clients at the start.

### ExecutionJournal

The file is a sequence of pieces, one per write: a whole line, an event whose newline
is missing (`bare`), or the beginning of an event (`torn`). `synced` pieces survive a
loss of power. `AppendEvent` is an append that returns; `AppendThrows` one that throws
at open, write, fsync or close; `ExitInAppend` and `PowerLoss` cut one short. `OpenJournal`
is the constructor with `readAll`'s validation, disabled on a file it refuses. `clean`,
chosen once, says whether appends fail only before they write. The entry of a newly
created file in its directory is taken to be durable, and one process at a time writes
the file, which is what `ServerProcess` is about.

### PaperTrader, JournalRecorder and MarketRuntime

No handler of the runtime awaits, so each is one action. `acct` is `trader.account`:
an order's `value` is its average price times its filled quantity, `events` the number
of its events. Matching walks the levels in closed form: `Taken` says what an order
takes from each level up to the first it cannot execute; sums over levels and orders are
`SumFunction`s; `MatchOpen` folds it over the
open orders, oldest first, on one working copy of the book. The average price of the
position needs fractions and is left out: whether the loss limit is reached is a choice
(`LossOutcomes`) at each sale.

`tracks` holds, per order, what the recorder has seen and what the journal holds. An
append can throw at any event of any order (`CaptureFails`) and at any approval
(`RecordApproval`). Handlers are sets of the memories they can end in; `Then` skips the
rest after a throw, as the exception does. A throw in the timer's callback ends the
process (`app.js` installs no handler for it); in a request it is the answer. A failed
capture turns the kill switch on, a failed approval record does not.

A tick chooses a snapshot, matches, records, and, with the strategy on, makes an entry,
an exit, or nothing; whether it asks for approval is the setting's choice, and whether
a waiting request is overdue the clock's. A verification tick stops the timer and
matches without recording. `Start` restores nothing, as `STRATEGY_SETTINGS.md` says.

### KisPaperAutoTrader

`trader` holds the maps and flags of the class, `cycle` where `runAutoTradingCycle`
waits and the balance it has read (`seen`), `queue` the submissions waiting in the
order service. `Evaluate` is everything `evaluateOnce` does up to its first await:
guard, `Resolved` (which drops what the new balance settles), then `Walks` over the
positions and the entry; after each answer `Resume` goes on from there. A
`RealtimeTick` of a known holding submits a sale of its own at any time. `held`,
`buys`, `sells`, `doubtful` are the truth at the broker, `shown` what its balance
shows. Times are ages in ticks of `Clock`. Nothing bounds how long a balance, an answer or
the broker takes, and the settlement grace is any number from 0 on, as the settings allow.
`unseen` is the age of each accepted purchase that no balance the trader read has shown;
past the grace the symbol is `OutOfSight`: the code gives it up, because the order may have
been rejected, and may then buy it a second time. `Restart` ends the process at any moment
and starts the next: the settings are kept, everything the constructor makes is new, the
submission the service was working on may have reached the broker. `enabled` is kept, so
the new cycle trades on with empty `pendingOrders`, `exitingSymbols` and
`exitedSymbolsToday` and without its halt.

### Realtime client and coordinator

A slot is one run of `connect()` with the socket it opens; `phase` is the socket's,
`settled` the runs that are over. `Stop` leaves the awaited approval and the open timer
of a socket running, as the code does, so events of an abandoned run come later. A send
may fail for any part of a list. `SetGroup` keeps the list before the client looks at it
and merges all lists by the priorities of `app.js`.

### Data client, scanner and main workspace

Time is ticks from now: `ahead` is how far `nextRequestAt` lies in the future. A caller
decides how long to sleep before it sleeps (`Enter`) and takes its slot when it wakes
(`Wake`), as the code does. `RecommendationScanner` follows one refresh from the
rankings over filings, price, book and bars of each candidate to the new value; ticks
change `known` at any point between. `KisMainWorkspace` reads the selection before each
of its three requests; a switch joins the refresh under way. Manual orders wait for the
end of the account refresh under way and then for one of their own. `MCMarketScreen`
puts both over one data client; they share nothing else, so a behaviour moves the
scanner whole, the market of the screen whole, both for the slots of the client, or the
account (`part`, chosen at the start).

### ServerProcess, SettingsStores, KisPerformanceTracker, RealtimeResearchJournal

`ServerProcess`: `existsSync`, `readFileSync`, the liveness test, and `writeFileSync`
as truncation and write are steps of their own; a process may be killed between any two,
numbers are given again, to other programs too. The journal is its last number: a
process counts on from what it read. `raced` remembers that two starts overlapped.

`SettingsStores`: a change goes from `Begin` over `Save` (or `SaveFails`, or
`RemoveOld` and another try) and for the strategy `RecordVersion` to `Answer`; `Kill`
and failures between. `acked` and `tried` are what the user was told and has asked for.

`KisPerformanceTracker`: KIS gives quantity and average price of an order so far; what
exceeds the quantity seen becomes a fill. A reported profit is compared with one
computed from `executions`, what the exchange did.

`RealtimeResearchJournal`: a batch may be written in part; it is then written again as a
whole. Events have sizes, the file a limit.

The code tells orders apart by organisation and number and not by day, so an order whose
number was used on an earlier day would go on where that one stopped; here the numbers are
unique.

These four and `ExecutionJournal` meet only in that a server runs or does not;
`MCServer` moves one of them in a behaviour (`part`).

## Runs

| run | question | bounds | result |
|---|---|---|---|
| `paper_orders` | are ids sent once, outcomes true, doubts blocking, latches kept, own orders known, over crashes and failed appends? | two orders of one shape and a cancel, one day, one crash; symmetry of the two orders | holds |
| `paper_orders_midnight` | do the daily cap and the block on doubt hold when the day changes anywhere? | two orders, cap 1, two days, one crash, balance await | holds |
| `paper_queue_moves` | does the task at the head always end? | an order and a cancel, one crash | holds under `FairSpec` |
| `paper_kill_switch_race` | does the kill switch come before every new order? | one order, balance await | violated |
| `live_orders` | does the live service keep the ledger's promises, one order out of sight, the latch, a true baseline? | two of three commands (two purchases alike, a cancel of one), a crash or a sale placed elsewhere | holds |
| `trading_clients` | is what a client answers fresh, a mutation sent once, every call answered, in either client? | a reader, a caller that cancels, one that submits; two pages, one acceptance | holds under `MCFairSpec` |
| `runtime` | do orders, cash, shares and limits stay consistent, approvals and journal with them? | three orders, two requests for approval, one throwing append, two snapshots | holds |
| `realtime` | is there one session with what is wanted, or a wake-up ahead, and another try? | two runs of `connect()`, one stop, three items and a malformed one, limit 2 | holds under `FairSpec` |
| `market_screen` | who waits how long, what is called ready, what the screen shows in the end, when is an order answered? | two stocks and a fund, one retry; two switches; three users, four orders | holds under `FairSpec` |
| `server` | one writer, settings and history over restarts, fills once and FIFO, research whole; is the journal safe under every failure, and with clean failures the log its callers assume? | three process numbers, two lines; four changes of two parts, strategy and selection; four orders, four executions; eight events; six appends, three stops, one throwing or cut at any call | holds |
| `auto_trader` | is a symbol bought, sold or entered again while it should not be, whatever is late and whenever the process ends? | two symbols for two positions, grace 2, cooldown 1; symmetry of the symbols | holds |
| `performance_profit` | is the reported profit what the account made? | a purchase in two parts, a sale | violated |

Deadlock is checked in `realtime` and `trading_clients`, whose parts never stop. The
other runs say `CHECK_DEADLOCK FALSE`: their models are bounded (events, orders, stops,
days, crashes) and end where the bound is reached, and a server that was told nothing
has nothing to do.

Why the bounds are enough. Two orders of one shape are what it takes to link a doubtful
command to another's order; a third task, the cancel, is the only kind that skips the
gate. One crash reaches every point of a command, and a restart may fail any number of
times. A midnight matters between two awaits of one task, so two days suffice. In
`live_orders` two commands are one under way and one before it; a crash and a foreign
order are each possible at every point, though not both in one behaviour. For the
clients, one acceptance is what can lie between a fetch and its end, two pages what can
lie on both sides of it, and three callers one that fetches, one that joins, one that
mutates. For the journal, a damaged piece, one after it and one more append show every
way a line can be shared, and three stops allow power loss, failed and successful start
in any order. For the account, three orders are a holding, a resting order and the order
that must not use what it reserves; books of one and two levels show full, partial and
empty fills; cash, notional and share limits are set so that each is the one that
refuses in some state; an open order that has `MaxOrderEvents` events meets no more
ticks, and `MaxEffort` caps the sum of orders, requests and failures in a behaviour, so
that each appears with the others but not all at their most. For the recorder, one
failure cuts a capture before, between and within orders. Two runs of `connect()` are
the current one and one abandoned; the slots are not reused before they are over, so a
third cannot be alive unless `stop` is called twice. For the screen, two switches bring
the selection back to where it was while a refresh for another is under way; three users
are one whose refresh runs and two that queue. For the lock, three numbers are a server,
a start and one more number to read or reuse. Four changes are a value, its change, a
failure between and a restore. Four orders of one symbol are two purchases and two sales
matched across each other. For the trader, two symbols are the one a cycle sells and one
it may buy after it, grace 2 lets a purchase be younger than the grace, at it and between,
and ages are cut off where they make no difference. What the theorems cover does not depend on these bounds.

What the violations show, with the lines quoted in `PROJECT.json`:

* `KillSwitchFirst`: with a daily loss limit, `enforceSafety` reads the kill switch, then
  awaits the balance, and the order goes out without a second look. Without the await
  (`paper_orders`) there is no such gap.
* `ProfitIsReal`: each newly observed part of an order is booked at the average price of
  the whole order so far, so an order seen in parts at different prices has a wrong cost.

Fairness. `paper_queue_moves`: weak fairness of the steps of a reconciliation and of the
task at the head of the queue: the event loop runs every continuation that is ready, and
each request of the client is aborted after its timeout; the body of an answer has only
the runtime's own timeout. `trading_clients`: the same for the token request, the queue,
retries and answers of each caller. `realtime`: due timers run, approval requests and
handshakes end by their timeouts, a closing socket closes. `market_screen`: ticks pass,
sleeps and requests of the screen end, the refresh that is due begins; and strong
fairness says that a request that leaves again and again is now and then not failed
before and answered in the end, because no code can promise a fresh screen on a broker
that never answers. Users, the broker otherwise, the calendar and restarts are not
obliged to act.

## Where code and documents part, without a run

In the models, at the action named; stated here because the property that would show it
holds for no constants worth running, or is another's consequence.

* A round that begins before midnight judges the old day's history as the new day's:
  the service's own orders are called external and latch a mismatch (`FinishRound`).
  `ExternalMeansUnknown` holds on one day (`ExternalWithinADay`) and fails on two; what
  holds over midnight too is that an order under way is never called external (`InFlight`).
* An order dismissed, or taken by hand for another that looks alike, may still appear: the
  live service then has a second one out of sight (`OneOutOfSight` names the exceptions).
* `AppendThrows` at fsync or close leaves the line in the file but not the number in
  memory: the next append repeats it and the next start refuses the file, against
  `docs/ARCHITECTURE.md:122` and `docs/EXECUTION_JOURNAL.md:46`. `StartsAgain` therefore
  asks for clean failures.
* `BROKER_RECONCILIATION_UNAVAILABLE`, `AUTO_TRADER_HALTED` and
  `AUTO_TRADER_HALT_CLEARED` are appended by their services but not registered in the
  journal; the refusal is swallowed (`AppendUnregistered`).
* A strategy exit of more than one order's maximum quantity, or past the daily loss limit,
  is refused at every tick (`Refused`), where `docs/STRATEGY_SETTINGS.md:45` and `:94` say
  that exits sell the whole position and at once.
* A balance request in flight when an order is accepted fills the paper client's balance
  cache again with the older balance (`FetchEnds`); the history has a generation against
  it. The test "a fresh order invalidates the balance cache" has no request in flight.
* A balance without a total evaluation, or a midnight during its await, lets the first
  order of a day go without that day's risk baseline (`RiskBaseline`), against
  `docs/ARCHITECTURE.md:81`.
* A doubtful command of an earlier day is settled from today's history, where it cannot be
  (`Resolve`). Its dismissal says that no order was accepted.
* A kill switch is in memory only; after a restart orders flow unless a command is doubtful
  or a latch replayed.
* An accepted sale that dies, or fills in part, keeps its symbol from every later exit as
  long as any of it is held (`OrderDies`): the stop loss of the rest does not run.
* A failed record of an approval does not turn the kill switch on (`RecordApproval`),
  against `docs/EXECUTION_JOURNAL.md:55`.
* A fill of an order placed elsewhere, between the two reads of the first live round,
  falsifies the day's baseline, and no later round corrects it: `BaselineRight` names the
  exception. A live order filled between the two reads may latch a mismatch that is none.
* `getCurrentPrice` of the main screen passes the data client's spacing by (`bare`), while
  `docs/BUY_RECOMMENDATION_SCANNER.md:21` describes REST calls one after the other, 1000 ms
  apart. The scanner and the screen may have a request under way each.
* A refresh under way at a switch writes the old instrument's data under the new one until
  the next refresh (`BarsFound`); `MarketCatchesUp` says it does not stay.
* Two starts that overlap between the look at the lock and its writing both run, which the
  comment at `app.js:59-65` is meant to exclude. `JournalWhole` says what holds without one.
* Once the settlement grace of a purchase is over, the trader may buy the symbol again while
  the first purchase is still open or not yet shown (`Resolved`). The comment at
  `kisPaperAutoTrader.js:48-49` says that it does not enter until the balance shows it; the
  one at `:323-325` explains why it may. `OutOfSight` names these symbols.
* `exitedSymbolsToday` is in memory only: after a restart a symbol sold the same day may be
  bought again (`Restart`), while the comment at `kisPaperAutoTrader.js:58` says that it is
  not bought again within the same trading day. `NoReentry` is about one process.
* `exitingSymbols` is in memory only: a process that starts while a sale is open submits a
  second one (`Restart`), which the broker refuses as long as nothing is left to sell.
* Two orders on one snapshot of the simulated market are each shown its whole size.

## Proofs

All theorems hold for any values of the constants that satisfy the assumptions of the
module, which TLC evaluates in the runs.

`KisPaperOrderService_proofs`, for any sets of ids, shapes, days, caps and crashes, from
`ServiceAssumption` alone. The properties are not inductive: that an id is not sent twice
depends on what the stage of the task says about `disk`, and that depends on what memory
knows of the journal. `IInv` adds, in this order,

* `MemoryMirrors`: what memory says of an id is what the journal says, but for the command
  being executed and for UNKNOWN events that could not be written;
* `TaskStages`: what each stage has established (journaled, posted once, not seen);
* `BrokerAgrees`: what the journal and the broker know of each other;
* `OrdersApart`: order numbers in memory and journal agree, none is used twice;
* `LatchSurvives`.

Each part has a lemma of its own, one step per action, and uses the earlier parts only.
From `IInv`: `TypeOK`, `UnresolvedBlocks`, `JournalTellsTheTruth`, `OneOrderOneCommand`,
`LatchSurvives`, the action property `NoNewRiskInDoubt`, and that every step is a step of
`OrderLedger` or leaves it unchanged (`ImplementsLedger`).

`DailyCap` counts. The gate compares the number of the day's commands with the limit, then
awaits the balance, so the count at the commit is an older one. `DaysKept` says that the
command that awaits the balance still fits (nothing else is committed while it is at the
head of the queue), that memory and journal agree on the day of each command, that none is
of a day to come, and that finitely many are journaled, so that ids need not be finite.
`HistorySettled` says that a history a round has fetched lists nothing that is under way: a
read waits behind a POST in the client's queue, and the next command behind the round. From
it `InFlight`, for any number of days, and `ExternalWithinADay`, which assumes `MaxDay = 1`
because that is where the property holds.

`KisLiveOrderService_proofs`, for any commands, foreign orders and crashes, from
`LiveAssumption`. Its `MemoryMirrors`, `TaskStages`, `BrokerAgrees` and `LatchKnown` are
the paper service's argument over the stages of its own file, and give `ImplementsLedger`
and the action property `LatchHolds`. Two parts are about rounds. `Sight`: what a history
lists the broker has listed, and with a command that adds risk at a gate that finds the
report consistent, or past it and not yet sent, nothing is out of sight; so at most one
order ever is, over lost answers and restarts (`OneOutOfSight`). The proof attempt showed the
exception
that the property now names: a doubtful order that was linked by hand to one of the user's
own that looks alike. `BaselineKept`: until there is a baseline no order that adds risk
has left, so a round's two reads can only differ by orders placed elsewhere
(`BaselineRight`).

`RealtimeTrading_proofs`, first part: the auto trader, for any symbols, limits and grace,
from `TraderAssumption` alone. The decisions of a cycle are made on a balance that is old,
while the queue, the ticks and the broker go on; `TraderInv` relates all five. A purchase is
`Young` while it is unseen and within its grace, and everything said of purchases is said of
young ones:

* `BrokerBooks`: what is being sold is held; what is being bought, or held and not shown,
  is unseen;
* `YoungUntouched`: a young purchase is awaited in `pending`, with no more than its age, and
  no other order of its symbol is anywhere;
* `BalanceRead`: what the balance of the cycle misses is unseen; past the evaluation
  everything held or bought is seen, awaited or out of sight;
* `SalesKnown`, `SalesMarked`: an accepted sale is marked in the trader's maps until it is
  over; one in the queue is marked, or its symbol is gone or out of sight;
* `QueueInOrder`, `PurchasesNew`: one order of the cycle, and a purchase only of a symbol
  its balance did not show and of which no sale is known, unless it is out of sight.

`WalkKeeps` shows that a walk over the positions keeps them all, whichever position it stops
at, and `RestartKeeps` that a new process begins in them: it knows nothing, and every
purchase nobody has seen is out of its sight. From it `OneBuyPerSymbol`, `NoSellTwice`,
`NoReentry`, each with the exceptions it names.

`KisLiveTradingClient_proofs`, of both clients, for any number of callers, pages and
mutations, from `ClientAssumption`. `FreshHistory` alone says nothing of a fetch under way.
`Waits`: who is joined waits for a fetch that runs and is of the same kind. `Entries`: the
request that a new caller may join is of the generation that counts. `Reads`: the pages read
so far are as new as what had been reported when any of the waiting callers began; those of
the generation that counts, and the cache, as new as what is reported now. An acceptance
moves the generation on in the step that reports it, which is what keeps the last part.
`Turns`: each caller is in the queue at most once, and the one post counted is the one under
way; from it `PostOnce`. The live client's steps are the paper client's but for balances,
where `OwnBalances` (no balance is shared) is added.

`RealtimeTrading_proofs`, second part: the realtime session, for any number of runs of
`connect()`, stops, lists and any limit, from the two modules' assumptions. After a stop several runs may be
alive, and one whose socket opens beside the current one ends without a timer; what makes
`NeverStranded` inductive is that such a run is never the only unresolved one behind a
promise (`Promised`, `Aside`). `Orderly`: before any stop all unresolved runs are the
promised one, and a live socket is the current one. `Merges`: what the client wants is the
merge of the lists unless something malformed was refused. `HeldWatched` counts: the place of
a held symbol in the merged list is an injection of the symbols before it, which are of the
main screen or held.

`ExecutionJournal_proofs`, from `JournalAssumption`: `AckedDurable` and `NothingForgotten`
are inductive with the bounds on numbers and order of events (`Bounds`); with clean
failures the file is orderly (`Orderly`), so it can always be read (`StartsAgain`) and the
journal implements `EventLog`.

`MarketScreen_proofs`, for any callers, interval, stocks, users and selections, from the three
modules' assumptions. Slots are handed out when a caller wakes, so several may sleep towards
the same one and a bound on the number of sleepers says nothing. `Spaced` counts for every
`t`: what is taken lies at most `t` ahead plus one interval for each caller that is not due
within `t`. Then whoever wakes either finds nothing taken or leaves the callers that are due,
which pays for the slot it takes; `BacklogBounded` is the case `t = 0`. `ReadyIsCurrent` is
inductive with the types of what a refresh has judged so far. For `ReadAfterOrder`, `OwnRefresh`: the refresh a joined order
waits for asks for the history after the order was accepted, which is why the forced refresh
may not be the one that was already running. What KIS shows in that history is not part of
it: an order may be listed later.

`Server_proofs` has five parts; the last two are about one component, and sums are shared.

The server processes, for any process numbers and any number of lines, from
`ServerAssumption`. `JournalWhole` alone says nothing of a process that has looked at the
lock and not yet written it. As long as no two starts overlap, `Sound` adds what each stage
knows: who has read the lock holds the number of the server, if there is one
(`ReaderKnows`); past the check there is none (`PastMeansNoServer`); a server's number
stays in the lock until the end (`LockNamesServer`), so two servers would be one; and who
writes counts on from the last line (`CountsOn`). `OneWriter` states the property.

The settings, for any parts, values and number of changes, from `StoresAssumption`. What
makes `SettingsKept` and `HistoryKept` inductive is what the steps behind a change have
done: past the save the file holds the new value (`FileWritten`), past the history the last
version does (`VersionWritten`), and from its beginning on the value counts as tried
(`ChangeTyped`). `SettingsSurvive` and `HistorySurvives` state the properties.

The research record, for any sizes and limits, from `ResearchAssumption`. The file's limit is
about a sum of the queue's sizes. `TotalAppend` and `BytesQueue` say what such a sum is: the
library defines a fold by a function over sets of positions, and that this function exists
and gives the sum of the first `k` is shown by the least length that would be an exception,
so without an induction theorem. `Numbered` is inductive because a file that holds the
numbers does not end in a torn line (`NotTorn`), so a batch follows it as it is.
`ResearchRecorded` states the property.

The fills, for any orders, prices and quantities, from `TrackerAssumption`. `Reached`: of
every order the journal reaches some quantity, that of its last fill or none; it is never
more than was seen of the order, and equal to it and to the sum of the fills as long as no
fill was refused. A restart goes back to just that quantity (`ReplayedIs`), and the next fill
begins at or behind it. `FilledOnce` states the property.

The report of trades, for any orders, prices, quantities and begin of the statistics, is
`TradesAlwaysFifo`. The report folds over the fills, and each sale in it folds over the lots.
The library's theorems about folds take the step as an operator, which the provers cannot
instantiate, so the proof begins with what such a fold is:

* Folds. `StepsExist`: a fold by a step function that stays in a set exists. `RunningExists`
  and `TotalBetween`: the sum of any stretch is the difference of two running sums.
  `FlattenIs`: each piece of a flattened sequence has its place, where the lengths before it
  end. Each is shown by the least length that would be an exception.
* Lots. `StockOf(lots, prices, a, b)`: the lots, in their order, are the shares `a + 1..b` of
  all the shares bought, each lot at the one price these shares have. A buy adds a lot behind
  `b` (`StockMore`).
* One sale. `Met` holds of a sale that has met the lots up to `b`: it took the shares that
  follow `a`, what it took cost the difference of the running sums of their prices, the rest
  of these lots are the shares behind, and a sale that wants more has left none.
  `MatchLotIs` carries it over one lot (untouched, sold in part or sold out), `MatchedIs`
  over all.
* The report. `Reported`: the trades cut the shares sold so far into stretches, one after the
  other, each at its cost (`Trades`); the lots are all the other shares bought; and what the
  trades lack of what was sold is counted as incomplete. `BoughtIs` and `SoldIs` carry it over
  one fill, `ReportIs` over all that are counted, and `FifoOf` reads the property off it.

This needs that no fill is empty, since an empty fill would make an empty lot. `FillsAdd` says
so and is inductive with `FillsInv`: an entry of the history goes beyond what was seen of its
order (`HistoryNew`). The report therefore never meets the `deltaQuantity <= 0` that
`computePerformanceReport` passes over.

`MarketRuntime_proofs`, for any snapshots, users' orders, limits, cost rates, sizes of an entry,
numbers of orders, requests and failed appends, from `TraderAssumption` and
`RuntimeAssumption`. The latter says of a snapshot what `createOrderBook` and
`createVerificationMarketTick` make true: a positive last price, and positive prices on every
ask (a bid a few ticks above nothing has none). The argument has five parts.

* Sums. Reservations, fills and costs are sums over orders or levels in an order the library
  leaves open. `SumIs` turns them into running sums, by the least index that would be an
  exception, and `SumBut` says what a sum does when one term changes.
* One order against one book. `TakenIs`: what is taken from the levels is no more than each
  holds and in total no more than what remains; `WalkedIs`, `MatchIs`: what order and account
  look like after it. A buy never pays more than its limit for a share, slippage aside, so
  what it pays comes out of what it had reserved (`Afforded`).
* The account. `AccountHolds` alone is inductive for matching only with what an accepted
  order has been checked against: `FitsWhenTaken` says that an order that `validate()` lets
  through fits beside those that are open, in shares, cash and position, and `Resting` that
  a market order is never open when a handler ends, so that reservations count every open
  order at its limit. `MatchOpenHolds` carries it along the fold over the open orders.
* The handlers. Each is a set of memories it can end in, and each lemma says that from
  `Consistent` memory every one of them is `Consistent`, and `Full` (everything recorded, or
  an append failed) where the handler captures. `Consistent` joins the account, the tracks,
  the requests and what the orders know of them: `OrdersApproved` (an order carries an
  approved request, no two the same) is why a request found pending has no order yet, and
  `TrackKept` (what is written is closed, and covers everything before the next event due) is
  what an append that throws in the middle of an order leaves.
* The order of fills. `Dry` says of a book that it has nothing within an order's limit.
  A walk over the book leaves it dry for its order or the order filled (`DryAfter`), later
  walks only take away (`DryStays`), and what is dry for an order is dry for one that offers
  no better price (`DryStarves`): `Served` carries this along the fold. What a handler does
  before or after the book is met fills nothing and can only close (`Later`).

`RuntimeInv` says `Consistent` at every state, `Full` while the timer runs: a verification
tick stops the timer for good and records nothing of what it matched. `AccountAlwaysHolds`,
`ApprovalsAlwaysDecideOnce` and `JournalAlwaysKept` follow, and with `FairStep`, which every
step satisfies from it, the action property in `FillsAlwaysFifo`.

Only model-checked. Liveness (`QueueMoves`, `CallsEnd`, `TriesAgain`, `MarketCatchesUp`),
which the prover does not do under fairness. Every other property that a passing run checks
is stated by a theorem.

## Not modelled, and why

Within the modelled parts: order sizes, prices and profits (the limits on them are choices
of the environment); `setLimits` and `setPerformanceResetAt` (limits are constants); settings
that change during a refresh of the scanner; the wording of messages; the average price of
the simulated position; the clock's part in the runtime's ids (a strategy order in the same
millisecond as another of the same reason is taken for its duplicate); the external market
source of the runtime, which `app.js` never configures; the strategy's signals and the
scanner's scores; equity snapshots and the comparison of fill models (display); a loss of
power under the settings files, which are never synced; the HTTP port, on which a second
server fails too, but after it has read the journal.

Whole parts: the LS feed (an alternative quote source of a mode the server is not started in
by default), news and filings (HTTP reads; that filings may fail is in the scanner), replay
and backtest (offline analysis of the research file), the instrument catalogue (a download
parsed into a table), the browser interface (no order state) and the operator scripts
(command lines over the HTTP interface). They are listed with their sources in
`PROJECT.json`.

## Plan

The safety properties are proved. What is left is to model more: the hazards in `PROJECT.json`
that have a note instead of a property, first what an accepted sale that does not fill leaves
in the trader's `exitingSymbols`, then a kill switch that a restart of the server forgets.
