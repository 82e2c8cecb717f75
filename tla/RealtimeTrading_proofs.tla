------------------------ MODULE RealtimeTrading_proofs ------------------------
(* The realtime session and the automatic trader that acts on its ticks.  They  *)
(* share no variable: the trader's part comes first, the session's second.      *)
EXTENDS KisPaperAutoTrader, KisRealtimeSubscriptionCoordinator, FiniteSetTheorems,
        WellFoundedInduction, TLAPS

(********************************************************************************)
(******************************************************************************)
(* The automatic trader for any symbols and any limits, however late the      *)
(* balance is, whenever ticks arrive and whenever the process ends: within    *)
(* its grace and within one process no symbol is bought twice, none is sold   *)
(* twice, and none is bought again the day it was sold.                       *)
(******************************************************************************)
Stages == {"idle", "collecting", "collected", "exits", "entry"}
Order == [by : {"cycle", "tick"}, side : {"BUY", "SELL"}, symbol : Symbols]
Maps == UNION {[D -> Nat] : D \in SUBSET Symbols}
Trader == [halted : BOOLEAN, holdings : SUBSET Symbols, exiting : SUBSET Symbols,
           exited : SUBSET Symbols, pending : Maps, since : Nat]
Cycle == [stage : Stages, seen : SUBSET Symbols, todo : SUBSET Symbols, waits : BOOLEAN,
          cooled : BOOLEAN, age : Nat]
Work == [trader : Trader, cycle : Cycle, queue : Seq(Order)]

WorldTypes ==
    /\ held \subseteq Symbols /\ buys \subseteq Symbols /\ sells \subseteq Symbols
    /\ doubtful \subseteq Symbols /\ sold \subseteq Symbols /\ shown \subseteq Symbols
    /\ unseen \in Maps

TraderTypeOK == Working \in Work /\ WorldTypes /\ enabled \in BOOLEAN /\ service \in ServiceStates

(* The broker: what is on sale is held, and what the account has without the    *)
(* balance showing it no balance has shown.                                     *)
BrokerBooks ==
    /\ sells \cup doubtful \subseteq held
    /\ buys \cup (held \ shown) \subseteq DOMAIN unseen

(* The rest is about what the trader works on, w, against the broker.           *)
Sale(w, i) == w.queue[i].side = "SELL"
Purchase(w, i) == w.queue[i].side = "BUY"
OfCycle(w, i) == w.queue[i].by = "cycle"
SameSymbol(w, i, j) == w.queue[i].symbol = w.queue[j].symbol

(* The one order a cycle may wait for; purchases are a cycle's; no sale is      *)
(* behind a purchase of its symbol.                                             *)
QueueInOrder(w) ==
    /\ \A i \in DOMAIN w.queue :
         /\ Purchase(w, i) => OfCycle(w, i)
         /\ OfCycle(w, i) => w.cycle.stage = IF Sale(w, i) THEN "exits" ELSE "entry"
    /\ \A i, j \in DOMAIN w.queue : OfCycle(w, i) /\ OfCycle(w, j) => i = j
    /\ \A i, j \in DOMAIN w.queue : Purchase(w, i) /\ Sale(w, j) /\ SameSymbol(w, i, j) => j < i

(* A purchase accepted within its grace that no balance has shown: the trader *)
(* waits for it, has no other business with the symbol, and neither has the   *)
(* broker.                                                                    *)
Young == DOMAIN unseen \ OutOfSight

Known(w) == w.trader.holdings \cup w.trader.exiting

HasRead(w) == w.cycle.stage \in {"collected", "exits", "entry"}

AwaitedFor(w, s, bound) == s \in Awaited(w) /\ w.trader.pending[s] <= bound

YoungUntouched(w) ==
    \A s \in Young :
        /\ AwaitedFor(w, s, unseen[s])
        /\ s \notin Known(w) /\ (HasRead(w) => s \notin w.cycle.seen)
        /\ \A i \in DOMAIN w.queue : w.queue[i].symbol # s
        /\ s \notin sells \cup doubtful /\ (s \in buys => s \notin held \cup shown)

(* What the balance of a cycle misses no balance has shown.                     *)
BalanceRead(w) ==
    /\ HasRead(w) => held \cup buys \cup shown \subseteq w.cycle.seen \cup DOMAIN unseen
    /\ w.cycle.stage \in {"exits", "entry"} => Known(w) \cup w.cycle.todo \subseteq w.cycle.seen

(* What is sold stays in the trader's books.                                    *)
SalesKnown(w) == sells \ OutOfSight \subseteq w.trader.exiting /\ sold \subseteq w.trader.exited

(* A sale in the queue is the only one of its symbol and is marked as being     *)
(* sold, or the symbol is gone for good before the sale is served.              *)
Gone(w, s) ==
    /\ s \notin w.trader.holdings \cup held \cup buys \cup shown
    /\ w.cycle.stage \in {"collected", "exits"} => s \notin w.cycle.seen

Marked(w, s) == s \notin sells /\ (s \in w.trader.exiting \/ Gone(w, s))

OneSale(w) ==
    \A i, j \in DOMAIN w.queue :
        Sale(w, i) /\ Sale(w, j) /\ SameSymbol(w, i, j) => i = j \/ w.queue[i].symbol \in OutOfSight

SalesMarked(w) ==
    /\ OneSale(w)
    /\ \A i \in DOMAIN w.queue :
           Sale(w, i) => w.queue[i].symbol \in OutOfSight \/ Marked(w, w.queue[i].symbol)

(* A purchase in the queue is of a symbol the balance of its cycle did not show *)
(* and of which no sale is known.                                               *)
PurchasesNew(w) ==
    \A i \in DOMAIN w.queue : Purchase(w, i) =>
        LET s == w.queue[i].symbol
        IN  s \notin w.cycle.seen /\ AwaitedFor(w, s, w.cycle.age) /\ s \notin sold \ OutOfSight

WorkInv(w) ==
    /\ QueueInOrder(w) /\ YoungUntouched(w) /\ BalanceRead(w) /\ SalesKnown(w)
    /\ SalesMarked(w) /\ PurchasesNew(w)

TraderInv == TraderTypeOK /\ BrokerBooks /\ WorkInv(Working)
-----------------------------------------------------------------------------
(* What the steps of the trader make of a record it works on.                   *)
SameMaps(w, n) ==
    n.trader.exited = w.trader.exited /\ n.trader.pending = w.trader.pending

SameCycle(w, n) ==
    /\ n.cycle.stage = w.cycle.stage /\ n.cycle.seen = w.cycle.seen
    /\ n.cycle.todo = w.cycle.todo /\ n.cycle.age = w.cycle.age

Sells(w, n, by, s) ==
    /\ n.queue = Append(w.queue, [by |-> by, side |-> "SELL", symbol |-> s])
    /\ n.trader.exiting = w.trader.exiting \cup {s}
    /\ SameMaps(w, n)

LEMMA MapTypes ==
  /\ \A m \in Maps : DOMAIN m \subseteq Symbols /\ \A s \in DOMAIN m : m[s] \in Nat
  /\ \A D \in SUBSET Symbols : \A m \in [D -> Nat] : m \in Maps
BY DEF Maps

LEMMA SubmittedShape ==
  ASSUME NEW w \in Work, NEW by \in {"cycle", "tick"}, NEW side \in {"BUY", "SELL"},
         NEW s \in Symbols, NEW m, m = Submitted(w, by, side, s)
  PROVE  /\ m \in Work
         /\ m.queue = Append(w.queue, [by |-> by, side |-> side, symbol |-> s])
         /\ SameMaps(w, m) /\ m.trader.exiting = w.trader.exiting
         /\ m.trader.holdings = w.trader.holdings
         /\ SameCycle(w, m)
<1> DEFINE Cooled == Cooldown = 0 /\ (by = "cycle" \/ w.cycle.age = 0)
<1> HIDE DEF Cooled
<1>1. PICK x : x = [w.trader EXCEPT !.since = w.cycle.age]
  OBVIOUS
<1>2. PICK y : \E b \in BOOLEAN : y = [w.cycle EXCEPT !.cooled = b] /\ b = Cooled
  <2>1. Cooled \in BOOLEAN
    BY Zenon DEF Cooled
  <2>2. QED
    BY <2>1, Zenon
<1>3. PICK z : z = Append(w.queue, [by |-> by, side |-> side, symbol |-> s])
  OBVIOUS
<1>4. x \in Trader
  BY <1>1 DEF Work, Trader, Cycle
<1>5. y \in Cycle
  BY <1>2 DEF Work, Cycle
<1>6. z \in Seq(Order)
  BY <1>3 DEF Work, Order
<1>7. m = [w EXCEPT !.trader = x, !.cycle = y, !.queue = z]
  BY <1>1, <1>2, <1>3 DEF Submitted, Work, Cooled
<1>8. m \in Work /\ m.trader = x /\ m.cycle = y /\ m.queue = z
  BY <1>4, <1>5, <1>6, <1>7 DEF Work
<1>9. /\ x.exited = w.trader.exited /\ x.pending = w.trader.pending
      /\ x.exiting = w.trader.exiting /\ x.holdings = w.trader.holdings
  BY <1>1 DEF Work, Trader
<1>10. y.stage = w.cycle.stage /\ y.seen = w.cycle.seen /\ y.todo = w.cycle.todo /\ y.age = w.cycle.age
  BY <1>2 DEF Work, Cycle
<1>11. QED
  BY <1>3, <1>8, <1>9, <1>10 DEF SameMaps, SameCycle

LEMMA SellingShape ==
  ASSUME NEW w \in Work, NEW by \in {"cycle", "tick"}, NEW s \in Symbols,
         NEW n, n = Selling(w, by, s)
  PROVE  /\ n \in Work
         /\ Sells(w, n, by, s)
         /\ n.trader.holdings = w.trader.holdings
         /\ SameCycle(w, n)
<1>1. PICK m : m = Submitted(w, by, "SELL", s)
  OBVIOUS
<1>2. /\ m \in Work
      /\ m.queue = Append(w.queue, [by |-> by, side |-> "SELL", symbol |-> s])
      /\ SameMaps(w, m) /\ m.trader.exiting = w.trader.exiting
      /\ m.trader.holdings = w.trader.holdings
      /\ SameCycle(w, m)
  BY <1>1, SubmittedShape
<1>3. PICK x : x = [m.trader EXCEPT !.exiting = @ \cup {s}]
  OBVIOUS
<1>4. x \in Trader
  BY <1>2, <1>3 DEF Work, Trader
<1>5. n = [m EXCEPT !.trader = x]
  BY <1>1, <1>2, <1>3 DEF Selling, Work
<1>6. n \in Work /\ n.trader = x /\ n.cycle = m.cycle /\ n.queue = m.queue
  BY <1>2, <1>4, <1>5 DEF Work
<1>7. /\ x.exiting = m.trader.exiting \cup {s} /\ x.holdings = m.trader.holdings
      /\ x.exited = m.trader.exited /\ x.pending = m.trader.pending
  BY <1>2, <1>3 DEF Work, Trader
<1>8. QED
  BY <1>2, <1>6, <1>7 DEF Sells, SameMaps, SameCycle

(* The three ways a walk over the positions ends.                               *)
WalkSells(w, n, s) ==
    /\ Sells(w, n, "cycle", s)
    /\ n.trader.holdings \subseteq w.trader.holdings \cup w.cycle.todo
    /\ n.cycle.stage = "exits" /\ n.cycle.seen = w.cycle.seen /\ n.cycle.age = w.cycle.age
    /\ n.cycle.todo \subseteq w.cycle.todo

WalkBuys(w, n, s) ==
    /\ n.queue = Append(w.queue, [by |-> "cycle", side |-> "BUY", symbol |-> s])
    /\ n.trader.exiting = w.trader.exiting /\ n.trader.exited = w.trader.exited
    /\ n.trader.holdings \subseteq w.trader.holdings \cup w.cycle.todo
    /\ n.trader.pending = [x \in Awaited(w) \cup {s} |-> IF x = s THEN w.cycle.age
                                                       ELSE w.trader.pending[x]]
    /\ n.cycle.stage = "entry" /\ n.cycle.seen = w.cycle.seen /\ n.cycle.age = w.cycle.age
    /\ n.cycle.todo \subseteq w.cycle.todo

WalkEnds(w, n) ==
    /\ n.queue = w.queue /\ n.cycle = NoCycle
    /\ SameMaps(w, n) /\ n.trader.exiting = w.trader.exiting
    /\ n.trader.holdings \subseteq w.trader.holdings \cup w.cycle.todo

Passes(w, n, some, priced) ==
    /\ n.queue = w.queue
    /\ SameMaps(w, n) /\ n.trader.exiting = w.trader.exiting
    /\ n.trader.holdings = w.trader.holdings \cup priced
    /\ n.cycle.seen = w.cycle.seen /\ n.cycle.age = w.cycle.age
    /\ n.cycle.todo = w.cycle.todo \ some

LEMMA PassedShape ==
  ASSUME NEW w \in Work, NEW some \in SUBSET Symbols, NEW priced \in SUBSET Symbols,
         NEW n, n = Passed(w, some, priced)
  PROVE  /\ n \in Work
         /\ Passes(w, n, some, priced)
<1>1. PICK x : x = [w.trader EXCEPT !.holdings = @ \cup priced]
  OBVIOUS
<1>2. PICK y : y = [w.cycle EXCEPT !.todo = @ \ some]
  OBVIOUS
<1>3. x \in Trader
  BY <1>1 DEF Work, Trader
<1>4. y \in Cycle
  BY <1>2 DEF Work, Cycle
<1>5. n = [w EXCEPT !.trader = x, !.cycle = y]
  BY <1>1, <1>2 DEF Passed, Work
<1>6. n \in Work /\ n.trader = x /\ n.cycle = y /\ n.queue = w.queue
  BY <1>3, <1>4, <1>5 DEF Work
<1>7. /\ x.exited = w.trader.exited /\ x.pending = w.trader.pending
      /\ x.exiting = w.trader.exiting /\ x.holdings = w.trader.holdings \cup priced
  BY <1>1 DEF Work, Trader
<1>8. /\ y.stage = w.cycle.stage /\ y.seen = w.cycle.seen
      /\ y.todo = w.cycle.todo \ some /\ y.age = w.cycle.age
  BY <1>2 DEF Work, Cycle
<1>9. QED
  BY <1>6, <1>7, <1>8 DEF Passes, SameMaps

LEMMA WalkSale ==
  ASSUME NEW w \in Work, NEW some \in SUBSET w.cycle.todo, NEW priced \in SUBSET some,
         NEW s \in Due(w, some), NEW n, n = SoldAfter(w, some, priced, s)
  PROVE  n \in Work /\ s \in w.cycle.todo \ w.trader.exiting /\ WalkSells(w, n, s)
<1>1. /\ some \cup {s} \in SUBSET Symbols /\ priced \cup {s} \in SUBSET Symbols /\ s \in Symbols
      /\ priced \cup {s} \subseteq w.cycle.todo
      /\ s \in w.cycle.todo \ w.trader.exiting
  BY DEF Work, Cycle, Due
<1>2. PICK q : q = Passed(w, some \cup {s}, priced \cup {s})
  OBVIOUS
<1>3. PICK m : m = Selling(q, "cycle", s)
  OBVIOUS
<1>4. q \in Work /\ Passes(w, q, some \cup {s}, priced \cup {s})
  BY <1>1, <1>2, PassedShape
<1>5. /\ m \in Work /\ Sells(q, m, "cycle", s) /\ m.trader.holdings = q.trader.holdings
      /\ SameCycle(q, m)
  BY <1>1, <1>3, <1>4, SellingShape
<1>6. PICK c : c = [m.cycle EXCEPT !.stage = "exits"]
  OBVIOUS
<1>7. /\ c \in Cycle /\ c.stage = "exits" /\ c.seen = m.cycle.seen /\ c.todo = m.cycle.todo
      /\ c.age = m.cycle.age
  BY <1>5, <1>6 DEF Work, Cycle, Stages
<1>8. n = [m EXCEPT !.cycle = c]
  BY <1>2, <1>3, <1>5, <1>6 DEF Work, SoldAfter
<1>9. n \in Work /\ n.trader = m.trader /\ n.queue = m.queue /\ n.cycle = c
  BY <1>5, <1>7, <1>8 DEF Work
<1>10. /\ q.queue = w.queue /\ SameMaps(w, q) /\ q.trader.exiting = w.trader.exiting
       /\ q.trader.holdings \subseteq w.trader.holdings \cup w.cycle.todo
       /\ q.cycle.seen = w.cycle.seen /\ q.cycle.age = w.cycle.age
       /\ q.cycle.todo \subseteq w.cycle.todo
  BY <1>1, <1>4 DEF Passes, SameMaps
<1>11. Sells(w, n, "cycle", s)
  BY <1>5, <1>9, <1>10 DEF Sells, SameMaps
<1>12. QED
  BY <1>1, <1>5, <1>7, <1>9, <1>10, <1>11 DEF WalkSells, SameCycle

LEMMA BuyingShape ==
  ASSUME NEW w \in Work, NEW s \in Symbols, NEW n, n = Buying(w, s)
  PROVE  n \in Work /\ WalkBuys(w, n, s)
<1>1. PICK m : m = Submitted(w, "cycle", "BUY", s)
  OBVIOUS
<1>2. /\ m \in Work
      /\ m.queue = Append(w.queue, [by |-> "cycle", side |-> "BUY", symbol |-> s])
      /\ SameMaps(w, m) /\ m.trader.exiting = w.trader.exiting
      /\ m.trader.holdings = w.trader.holdings
      /\ SameCycle(w, m)
  BY <1>1, SubmittedShape
<1>3. PICK g : g = [x \in Awaited(w) \cup {s} |-> IF x = s THEN w.cycle.age ELSE w.trader.pending[x]]
  OBVIOUS
<1>4. g \in Maps
  <2>1. w.trader.pending \in Maps /\ w.cycle.age \in Nat
    BY DEF Work, Trader, Cycle
  <2>2. Awaited(w) \cup {s} \in SUBSET Symbols
    BY <2>1, MapTypes DEF Awaited
  <2>3. g \in [Awaited(w) \cup {s} -> Nat]
    BY <1>3, <2>1, MapTypes DEF Awaited
  <2>4. QED
    BY <2>2, <2>3, MapTypes
<1>5. PICK x : x = [m.trader EXCEPT !.pending = g]
  OBVIOUS
<1>6. PICK y : y = [m.cycle EXCEPT !.stage = "entry"]
  OBVIOUS
<1>7. x \in Trader /\ y \in Cycle
  BY <1>2, <1>4, <1>5, <1>6 DEF Work, Trader, Cycle, Stages
<1>8. n = [m EXCEPT !.trader = x, !.cycle = y]
  <2>1. m.trader.pending = w.trader.pending
    BY <1>2 DEF SameMaps
  <2>2. n = [m EXCEPT !.trader.pending = g, !.cycle.stage = "entry"]
    BY <1>1, <1>3, <2>1 DEF Buying
  <2>3. QED
    BY <1>2, <1>5, <1>6, <2>2 DEF Work
<1>9. n \in Work /\ n.trader = x /\ n.cycle = y /\ n.queue = m.queue
  BY <1>2, <1>7, <1>8 DEF Work
<1>10. /\ x.pending = g /\ x.exiting = m.trader.exiting /\ x.exited = m.trader.exited
       /\ x.holdings = m.trader.holdings
  BY <1>2, <1>5 DEF Work, Trader
<1>11. /\ y.stage = "entry" /\ y.seen = m.cycle.seen /\ y.age = m.cycle.age
       /\ y.todo = m.cycle.todo
  BY <1>2, <1>6 DEF Work, Cycle
<1>12. QED
  BY <1>2, <1>3, <1>9, <1>10, <1>11 DEF WalkBuys, SameMaps, SameCycle

LEMMA NoCycleType == NoCycle \in Cycle
BY DEF NoCycle, Cycle, Stages

LEMMA WalkShape ==
  ASSUME NEW w \in Work, NEW n \in Walks(w)
  PROVE  /\ n \in Work
         /\ \/ \E s \in w.cycle.todo \ w.trader.exiting : WalkSells(w, n, s)
            \/ \E s \in Symbols \ (w.cycle.seen \cup Awaited(w) \cup w.trader.exited) :
                   WalkBuys(w, n, s)
            \/ WalkEnds(w, n)
<1>1. ASSUME NEW some \in SUBSET w.cycle.todo, NEW priced \in SUBSET some,
             NEW s \in Due(w, some), n = SoldAfter(w, some, priced, s)
      PROVE  n \in Work /\ \E x \in w.cycle.todo \ w.trader.exiting : WalkSells(w, n, x)
  BY <1>1, WalkSale
<1>2. ASSUME NEW priced \in SUBSET w.cycle.todo, NEW p, p = Passed(w, w.cycle.todo, priced),
             n \in Entries(p)
      PROVE  /\ n \in Work
             /\ \/ \E s \in Symbols \ (w.cycle.seen \cup Awaited(w) \cup w.trader.exited) :
                       WalkBuys(w, n, s)
                \/ WalkEnds(w, n)
  <2>1. w.cycle.todo \in SUBSET Symbols /\ priced \in SUBSET Symbols
    BY DEF Work, Cycle
  <2>2. p \in Work /\ Passes(w, p, w.cycle.todo, priced)
    BY <1>2, <2>1, PassedShape
  <2>3. Awaited(p) = Awaited(w)
    BY <2>2 DEF Passes, SameMaps, Awaited
  <2>4. CASE n = [p EXCEPT !.cycle = NoCycle]
    <3>1. n \in Work /\ n.cycle = NoCycle /\ n.queue = p.queue /\ n.trader = p.trader
      BY <2>2, <2>4, NoCycleType DEF Work
    <3>2. WalkEnds(w, n)
      BY <2>2, <3>1 DEF WalkEnds, Passes, SameMaps
    <3>3. QED
      BY <3>1, <3>2
  <2>5. ASSUME NEW s \in Enterable(p), n = Buying(p, s)
        PROVE  /\ n \in Work
               /\ \E x \in Symbols \ (w.cycle.seen \cup Awaited(w) \cup w.trader.exited) :
                       WalkBuys(w, n, x)
    <3>1. s \in Symbols \ (w.cycle.seen \cup Awaited(w) \cup w.trader.exited)
      BY <2>2, <2>3 DEF Enterable, Passes, SameMaps
    <3>2. n \in Work /\ WalkBuys(p, n, s)
      BY <2>2, <2>5, <3>1, BuyingShape
    <3>3. WalkBuys(w, n, s)
      BY <2>2, <2>3, <3>2 DEF WalkBuys, Passes, SameMaps
    <3>4. QED
      BY <3>1, <3>2, <3>3
  <2>6. QED
    BY <1>2, <2>4, <2>5 DEF Entries
<1>3. \/ \E some \in SUBSET w.cycle.todo : \E priced \in SUBSET some : \E s \in Due(w, some) :
              n = SoldAfter(w, some, priced, s)
      \/ \E priced \in SUBSET w.cycle.todo : n \in Entries(Passed(w, w.cycle.todo, priced))
  BY DEF Walks
<1>4. QED
  BY <1>1, <1>2, <1>3, Zenon

-----------------------------------------------------------------------------
(* What a walk needs to find to leave everything in order: the balance is read  *)
(* and resolved, and the cycle has no order in the queue.                       *)
OnlyTicks(w) == \A i \in DOMAIN w.queue : Sale(w, i) /\ ~OfCycle(w, i)

Ready(w) ==
    /\ OnlyTicks(w) /\ w.cycle.stage \in {"collected", "exits"}
    /\ Known(w) \cup w.cycle.todo \subseteq w.cycle.seen
    /\ held \cup buys \cup shown \subseteq w.cycle.seen \cup DOMAIN unseen
    /\ YoungUntouched(w) /\ SalesKnown(w) /\ SalesMarked(w)

LEMMA AppendShape ==
  ASSUME NEW q \in Seq(Order), NEW o \in Order, NEW r, r = Append(q, o)
  PROVE  /\ Len(q) \in Nat /\ DOMAIN q = 1 .. Len(q)
         /\ DOMAIN r = 1 .. (Len(q) + 1)
         /\ r[Len(q) + 1] = o
         /\ \A i \in DOMAIN q : i \in DOMAIN r /\ i # Len(q) + 1 /\ r[i] = q[i]
         /\ \A i \in DOMAIN r : i = Len(q) + 1 \/ i \in DOMAIN q
OBVIOUS

LEMMA OrderShape ==
  ASSUME NEW q \in Seq(Order)
  PROVE  \A i \in DOMAIN q : /\ q[i] \in Order /\ q[i].by \in {"cycle", "tick"}
                             /\ q[i].side \in {"BUY", "SELL"} /\ q[i].symbol \in Symbols
<1>1. \A i \in DOMAIN q : q[i] \in Order
  OBVIOUS
<1>2. QED
  BY <1>1 DEF Order

LEMMA WalkKeeps ==
  ASSUME NEW w \in Work, NEW n \in Walks(w), Ready(w)'
  PROVE  n \in Work /\ WorkInv(n)'
<1>1. w.queue \in Seq(Order) /\ w.cycle.age \in Nat /\ w.cycle.todo \subseteq Symbols
  BY DEF Work, Cycle
<1>2. /\ OnlyTicks(w) /\ w.cycle.stage \in {"collected", "exits"}
      /\ Known(w) \cup w.cycle.todo \subseteq w.cycle.seen
      /\ (held \cup buys \cup shown)' \subseteq w.cycle.seen \cup DOMAIN unseen'
      /\ YoungUntouched(w)' /\ SalesKnown(w)' /\ SalesMarked(w)'
  BY DEF Ready, OnlyTicks, Known, Sale, OfCycle
<1>3. ASSUME NEW x, x \in Young'
      PROVE  /\ x \in Awaited(w) /\ w.trader.pending[x] <= unseen'[x]
             /\ x \notin Known(w) /\ x \notin w.cycle.seen
             /\ \A i \in DOMAIN w.queue : w.queue[i].symbol # x
             /\ x \notin (sells \cup doubtful)' /\ (x \in buys' => x \notin (held \cup shown)')
  BY <1>2, <1>3 DEF YoungUntouched, HasRead, AwaitedFor, Awaited, Known
<1>4. ASSUME NEW i \in DOMAIN w.queue, NEW x, x = w.queue[i].symbol, x \notin OutOfSight'
      PROVE  /\ x \notin sells'
             /\ \/ x \in w.trader.exiting
                \/ x \notin w.trader.holdings \cup (held \cup buys \cup shown)' \cup w.cycle.seen
  BY <1>2, <1>4 DEF OnlyTicks, SalesMarked, Marked, Gone, Sale
<1>5. ASSUME NEW s \in w.cycle.todo \ w.trader.exiting, WalkSells(w, n, s)
      PROVE  WorkInv(n)'
  <2> DEFINE o == [by |-> "cycle", side |-> "SELL", symbol |-> s]
  <2>1. o \in Order /\ n.queue = Append(w.queue, o)
    BY <1>1, <1>5 DEF Order, WalkSells, Sells
  <2> HIDE DEF o
  <2>2. /\ Len(w.queue) \in Nat /\ DOMAIN w.queue = 1 .. Len(w.queue)
        /\ DOMAIN n.queue = 1 .. (Len(w.queue) + 1)
        /\ n.queue[Len(w.queue) + 1] = o
        /\ \A i \in DOMAIN w.queue : /\ i \in DOMAIN n.queue /\ i # Len(w.queue) + 1
                                     /\ n.queue[i] = w.queue[i]
        /\ \A i \in DOMAIN n.queue : i = Len(w.queue) + 1 \/ i \in DOMAIN w.queue
    BY <1>1, <2>1, AppendShape
  <2>3. o.by = "cycle" /\ o.side = "SELL" /\ o.symbol = s
    BY DEF o
  <2>4. /\ n.trader.exiting = w.trader.exiting \cup {s}
        /\ n.trader.exited = w.trader.exited /\ n.trader.pending = w.trader.pending
        /\ n.trader.holdings \subseteq w.trader.holdings \cup w.cycle.todo
        /\ n.cycle.stage = "exits" /\ n.cycle.seen = w.cycle.seen /\ n.cycle.age = w.cycle.age
        /\ n.cycle.todo \subseteq w.cycle.todo
    BY <1>5 DEF WalkSells, Sells, SameMaps
  <2>5. s \in w.cycle.seen /\ s \notin Young' /\ Known(n) \subseteq w.cycle.seen
    BY <1>2, <1>3, <2>4 DEF Known
  <2>6. \A i \in DOMAIN w.queue : w.queue[i].symbol = s => s \in OutOfSight'
    BY <1>4, <2>5
  <2>7. QueueInOrder(n)'
    <3>1. \A i \in DOMAIN n.queue : OfCycle(n, i) \/ Purchase(n, i) => i = Len(w.queue) + 1
      BY <1>2, <2>2 DEF OnlyTicks, OfCycle, Purchase, Sale
    <3>2. LET k == Len(w.queue) + 1
          IN  OfCycle(n, k) /\ Sale(n, k) /\ ~Purchase(n, k)
      BY <2>2, <2>3 DEF OfCycle, Purchase, Sale
    <3>3. \A i \in DOMAIN n.queue : i <= Len(w.queue) + 1
      BY <2>2
    <3>4. QED
      BY <2>2, <2>4, <3>1, <3>2, <3>3 DEF QueueInOrder
  <2>8. YoungUntouched(n)'
    <3>1. ASSUME NEW x, x \in Young'
          PROVE  \A i \in DOMAIN n.queue : n.queue[i].symbol # x
      BY <1>3, <2>2, <2>3, <2>5, <3>1
    <3>2. QED
      BY <1>3, <2>4, <2>5, <3>1 DEF YoungUntouched, AwaitedFor, Awaited
  <2>9. BalanceRead(n)' /\ SalesKnown(n)'
    BY <1>2, <2>4, <2>5 DEF BalanceRead, SalesKnown
  <2>10. OneSale(n)'
    BY <1>2, <2>2, <2>3, <2>6 DEF SalesMarked, OneSale, Sale, SameSymbol
  <2>11. s \notin sells' \/ s \in OutOfSight'
    BY <1>2 DEF SalesKnown
  <2>12. SalesMarked(n)'
    BY <1>2, <1>4, <2>2, <2>3, <2>4, <2>10, <2>11 DEF SalesMarked, Marked, Gone
  <2>13. PurchasesNew(n)'
    BY <1>2, <2>2, <2>3 DEF OnlyTicks, PurchasesNew, Purchase, Sale
  <2>14. QED
    BY <2>7, <2>8, <2>9, <2>12, <2>13 DEF WorkInv
<1>6. ASSUME NEW s \in Symbols \ (w.cycle.seen \cup Awaited(w) \cup w.trader.exited),
             WalkBuys(w, n, s)
      PROVE  WorkInv(n)'
  <2> DEFINE o == [by |-> "cycle", side |-> "BUY", symbol |-> s]
  <2>1. o \in Order /\ n.queue = Append(w.queue, o)
    BY <1>1, <1>6 DEF Order, WalkBuys
  <2> HIDE DEF o
  <2>2. /\ Len(w.queue) \in Nat /\ DOMAIN w.queue = 1 .. Len(w.queue)
        /\ DOMAIN n.queue = 1 .. (Len(w.queue) + 1)
        /\ n.queue[Len(w.queue) + 1] = o
        /\ \A i \in DOMAIN w.queue : /\ i \in DOMAIN n.queue /\ i # Len(w.queue) + 1
                                     /\ n.queue[i] = w.queue[i]
        /\ \A i \in DOMAIN n.queue : i = Len(w.queue) + 1 \/ i \in DOMAIN w.queue
    BY <1>1, <2>1, AppendShape
  <2>3. o.by = "cycle" /\ o.side = "BUY" /\ o.symbol = s
    BY DEF o
  <2>4. /\ n.trader.exiting = w.trader.exiting /\ n.trader.exited = w.trader.exited
        /\ n.trader.holdings \subseteq w.trader.holdings \cup w.cycle.todo
        /\ n.cycle.stage = "entry" /\ n.cycle.seen = w.cycle.seen /\ n.cycle.age = w.cycle.age
        /\ n.cycle.todo \subseteq w.cycle.todo
    BY <1>6 DEF WalkBuys
  <2>5. /\ Awaited(n) = Awaited(w) \cup {s}
        /\ n.trader.pending[s] = w.cycle.age
        /\ \A x \in Awaited(w) : n.trader.pending[x] = w.trader.pending[x]
    BY <1>6 DEF WalkBuys, Awaited
  <2>6. s \notin Young' /\ s \notin sold' /\ Known(n) \subseteq w.cycle.seen
    BY <1>2, <1>3, <2>4 DEF SalesKnown, Known
  <2>7. QueueInOrder(n)'
    <3>1. \A i \in DOMAIN n.queue : OfCycle(n, i) \/ Purchase(n, i) => i = Len(w.queue) + 1
      BY <1>2, <2>2 DEF OnlyTicks, OfCycle, Purchase, Sale
    <3>2. LET k == Len(w.queue) + 1
          IN  OfCycle(n, k) /\ Purchase(n, k) /\ ~Sale(n, k)
      BY <2>2, <2>3 DEF OfCycle, Purchase, Sale
    <3>3. \A i \in DOMAIN n.queue : i <= Len(w.queue) + 1
      BY <2>2
    <3>4. \A i, j \in DOMAIN n.queue : Purchase(n, i) /\ Sale(n, j) => j < i
      <4>1. SUFFICES ASSUME NEW i \in DOMAIN n.queue, NEW j \in DOMAIN n.queue,
                            Purchase(n, i), Sale(n, j)
                     PROVE  j < i
        OBVIOUS
      <4>2. i = Len(w.queue) + 1 /\ j # Len(w.queue) + 1
        BY <3>1, <3>2, <4>1
      <4>3. j \in 1 .. (Len(w.queue) + 1)
        BY <2>2
      <4>4. QED
        BY <2>2, <4>2, <4>3
    <3>5. QED
      BY <2>2, <2>4, <3>1, <3>2, <3>4 DEF QueueInOrder
  <2>8. YoungUntouched(n)'
    <3>1. ASSUME NEW x, x \in Young'
          PROVE  \A i \in DOMAIN n.queue : n.queue[i].symbol # x
      BY <1>3, <2>2, <2>3, <2>6, <3>1
    <3>2. QED
      BY <1>3, <2>4, <2>5, <2>6, <3>1 DEF YoungUntouched, AwaitedFor
  <2>9. BalanceRead(n)' /\ SalesKnown(n)'
    BY <1>2, <2>4, <2>6 DEF BalanceRead, SalesKnown
  <2>10. OneSale(n)'
    BY <1>2, <2>2, <2>3 DEF SalesMarked, OneSale, Sale, SameSymbol
  <2>11. SalesMarked(n)'
    BY <1>2, <1>4, <2>2, <2>3, <2>4, <2>10 DEF SalesMarked, Marked, Gone, Sale
  <2>12. PurchasesNew(n)'
    BY <1>1, <1>2, <2>2, <2>3, <2>4, <2>5, <2>6
       DEF OnlyTicks, PurchasesNew, Purchase, Sale, AwaitedFor
  <2>13. QED
    BY <2>7, <2>8, <2>9, <2>11, <2>12 DEF WorkInv
<1>7. ASSUME WalkEnds(w, n)
      PROVE  WorkInv(n)'
  <2>1. /\ n.queue = w.queue /\ n.cycle.stage = "idle"
        /\ n.trader.exiting = w.trader.exiting
        /\ n.trader.exited = w.trader.exited /\ n.trader.pending = w.trader.pending
        /\ n.trader.holdings \subseteq w.trader.holdings \cup w.cycle.todo
    BY <1>7 DEF WalkEnds, SameMaps, NoCycle
  <2>2. QueueInOrder(n)' /\ PurchasesNew(n)'
    BY <1>2, <2>1 DEF OnlyTicks, QueueInOrder, Sale, Purchase, OfCycle, SameSymbol, PurchasesNew
  <2>3. Known(n) \subseteq w.cycle.seen
    BY <1>2, <2>1 DEF Known
  <2>4. YoungUntouched(n)' /\ BalanceRead(n)' /\ SalesKnown(n)'
    BY <1>2, <1>3, <2>1, <2>3 DEF YoungUntouched, HasRead, AwaitedFor, Awaited, BalanceRead, SalesKnown
  <2>5. OneSale(n)'
    BY <1>2, <2>1 DEF SalesMarked, OneSale, Sale, SameSymbol
  <2>6. SalesMarked(n)'
    BY <1>2, <1>4, <2>1, <2>5 DEF SalesMarked, Marked, Gone
  <2>7. QED
    BY <2>2, <2>4, <2>6 DEF WorkInv
<1>8. QED
  BY <1>5, <1>6, <1>7, WalkShape

-----------------------------------------------------------------------------
(* The trader's record of its work, before and after a step.                    *)
LEMMA WorkingFields ==
  /\ Working.trader = trader /\ Working.cycle = cycle /\ Working.queue = queue
  /\ Working' = [trader |-> trader', cycle |-> cycle', queue |-> queue']
  /\ Working'.trader = trader' /\ Working'.cycle = cycle' /\ Working'.queue = queue'
  /\ Working \in Work <=> trader \in Trader /\ cycle \in Cycle /\ queue \in Seq(Order)
  /\ Working' \in Work <=> trader' \in Trader /\ cycle' \in Cycle /\ queue' \in Seq(Order)
BY DEF Working, Work

LEMMA BecomesIt ==
  ASSUME NEW n \in Work, Becomes(n)
  PROVE  Working' = n
<1>1. n = [trader |-> n.trader, cycle |-> n.cycle, queue |-> n.queue]
  BY DEF Work
<1>2. QED
  BY <1>1, WorkingFields DEF Becomes

LEMMA InitHolds ==
  ASSUME TraderInit
  PROVE  TraderInv
<1> USE WorkingFields, TraderAssumption
<1>1. TraderTypeOK
  <2>1. <<>> \in Maps
    <3>1. <<>> \in [{} -> Nat]
      OBVIOUS
    <3>2. QED
      BY <3>1, MapTypes
  <2>2. trader \in Trader /\ cycle \in Cycle /\ queue \in Seq(Order)
    BY <2>1, NoCycleType DEF TraderInit, Trader, NewTrader
  <2>3. QED
    BY <2>1, <2>2 DEF TraderTypeOK, WorldTypes, TraderInit, ServiceStates
<1>2. /\ queue = <<>> /\ cycle.stage = "idle" /\ sells = {} /\ sold = {} /\ buys = {}
      /\ held = {} /\ doubtful = {} /\ DOMAIN unseen = {}
  BY DEF TraderInit, NoCycle
<1>3. BrokerBooks
  BY <1>2 DEF BrokerBooks
<1>4. QueueInOrder(Working) /\ SalesMarked(Working) /\ PurchasesNew(Working)
  BY <1>2 DEF QueueInOrder, OneSale, SalesMarked, PurchasesNew
<1>5. YoungUntouched(Working) /\ SalesKnown(Working) /\ BalanceRead(Working)
  BY <1>2 DEF Young, YoungUntouched, SalesKnown, BalanceRead, HasRead
<1>6. QED
  BY <1>1, <1>3, <1>4, <1>5 DEF TraderInv, WorkInv

-----------------------------------------------------------------------------
(* What the steps leave alone.                                                  *)
LEMMA Unmoved ==
  ASSUME UNCHANGED broker
  PROVE  /\ held' = held /\ buys' = buys /\ sells' = sells /\ doubtful' = doubtful
         /\ sold' = sold /\ shown' = shown /\ unseen' = unseen
         /\ OutOfSight' = OutOfSight /\ Young' = Young
BY DEF broker, OutOfSight, Young

(* The steps of the cycle that submit nothing: it starts or it gives up,        *)
LEMMA WithoutBalance ==
  ASSUME TraderInv, cycle.stage \in {"idle", "collecting", "collected"},
         cycle' \in Cycle, cycle'.stage \in {"idle", "collecting"},
         UNCHANGED <<trader, queue, enabled, service, broker>>
  PROVE  TraderInv'
<1> USE WorkingFields
<1>1. /\ trader' = trader /\ queue' = queue /\ enabled' = enabled /\ service' = service
      /\ held' = held /\ buys' = buys /\ sells' = sells /\ doubtful' = doubtful
      /\ sold' = sold /\ shown' = shown /\ unseen' = unseen
      /\ OutOfSight' = OutOfSight /\ Young' = Young
  BY Unmoved
<1>2. TraderTypeOK'
  BY <1>1 DEF TraderInv, TraderTypeOK, WorldTypes
<1>3. BrokerBooks'
  BY <1>1 DEF TraderInv, BrokerBooks
<1>4. \A i \in DOMAIN queue : ~OfCycle(Working, i) /\ ~Purchase(Working, i)
  BY DEF TraderInv, WorkInv, QueueInOrder
<1>5. QueueInOrder(Working)'
  BY <1>1, <1>4 DEF TraderInv, WorkInv, QueueInOrder, Sale, Purchase, OfCycle, SameSymbol
<1>6. YoungUntouched(Working)' /\ SalesKnown(Working)' /\ BalanceRead(Working)'
  BY <1>1 DEF TraderInv, WorkInv, YoungUntouched, HasRead, AwaitedFor, Awaited, SalesKnown, Known,
              BalanceRead
<1>7. SalesMarked(Working)'
  BY <1>1 DEF TraderInv, WorkInv, SalesMarked, OneSale, SameSymbol, Sale, Marked, Gone
<1>8. PurchasesNew(Working)'
  BY <1>1, <1>4 DEF PurchasesNew, Purchase
<1>9. QED
  BY <1>2, <1>3, <1>5, <1>6, <1>7, <1>8 DEF TraderInv, WorkInv

LEMMA StartCycleKeeps ==
  ASSUME TraderInv, StartCycle
  PROVE  TraderInv'
<1>1. cycle' \in Cycle /\ cycle'.stage = "collecting"
  BY DEF StartCycle, NoCycle, Cycle, Stages
<1>2. QED
  BY <1>1, WithoutBalance DEF StartCycle

LEMMA GivesUp ==
  ASSUME TraderInv, cycle.stage \in {"collecting", "collected"}, cycle' = NoCycle,
         UNCHANGED <<trader, queue, enabled, service, broker>>
  PROVE  TraderInv'
<1>1. cycle' \in Cycle /\ cycle'.stage = "idle"
  BY NoCycleType DEF NoCycle
<1>2. QED
  BY <1>1, WithoutBalance

(* or it reads the balance: what the balance leaves unseen it does not show,    *)
(* and of what it shows nothing is under way.                                   *)
LEMMA ReadBalanceKeeps ==
  ASSUME TraderInv, ReadBalance
  PROVE  TraderInv'
<1> USE WorkingFields
<1>1. cycle' = [NoCycle EXCEPT !.stage = "collected", !.seen = shown] /\ cycle.stage = "collecting"
  BY DEF ReadBalance
<1>2. cycle' \in Cycle /\ cycle'.stage = "collected" /\ cycle'.seen = shown
  BY <1>1 DEF NoCycle, Cycle, Stages, TraderInv, TraderTypeOK, WorldTypes
<1>3. /\ trader' = trader /\ queue' = queue /\ enabled' = enabled /\ service' = service
      /\ held' = held /\ buys' = buys /\ sells' = sells /\ doubtful' = doubtful
      /\ sold' = sold /\ shown' = shown
  BY DEF ReadBalance
<1>4. /\ DOMAIN unseen' = {x \in DOMAIN unseen : ~Shows(x)}
      /\ \A x \in DOMAIN unseen' : unseen'[x] = unseen[x]
  BY DEF ReadBalance
<1>5. /\ Young' = Young \cap DOMAIN unseen' /\ OutOfSight' = OutOfSight \cap DOMAIN unseen'
      /\ OutOfSight \subseteq DOMAIN unseen /\ DOMAIN unseen' \subseteq DOMAIN unseen
  BY <1>4 DEF Young, OutOfSight
<1>6. \A x \in DOMAIN unseen \ DOMAIN unseen' :
          /\ x \notin buys \cup sells \cup doubtful /\ (x \in held => x \in shown)
          /\ \A i \in DOMAIN queue : queue[i].symbol # x
  BY <1>4 DEF Shows, Orders
<1>7. TraderTypeOK'
  <2>1. unseen' \in Maps
    <3>1. unseen \in Maps
      BY DEF TraderInv, TraderTypeOK, WorldTypes
    <3>2. DOMAIN unseen' \in SUBSET Symbols /\ \A x \in DOMAIN unseen' : unseen'[x] \in Nat
      BY <1>4, <3>1, MapTypes
    <3>3. unseen' = [x \in DOMAIN unseen' |-> unseen[x]]
      BY <1>4 DEF ReadBalance
    <3>4. unseen' \in [DOMAIN unseen' -> Nat]
      BY <1>4, <3>2, <3>3
    <3>5. QED
      BY <3>2, <3>4, MapTypes
  <2>2. QED
    BY <1>2, <1>3, <2>1 DEF TraderInv, TraderTypeOK, WorldTypes
<1>8. BrokerBooks'
  BY <1>3, <1>6 DEF TraderInv, BrokerBooks
<1>9. \A i \in DOMAIN queue : ~OfCycle(Working, i) /\ ~Purchase(Working, i)
  BY <1>1 DEF TraderInv, WorkInv, QueueInOrder
<1>10. QueueInOrder(Working)'
  BY <1>3, <1>9 DEF TraderInv, WorkInv, QueueInOrder, Sale, Purchase, OfCycle, SameSymbol
<1>11. YoungUntouched(Working)'
  <2> SUFFICES ASSUME NEW x \in Young'
               PROVE  /\ AwaitedFor(Working, x, unseen[x]) /\ x \notin Known(Working) /\ x \notin shown
                      /\ \A i \in DOMAIN queue : queue[i].symbol # x
                      /\ x \notin sells \cup doubtful /\ (x \in buys => x \notin held \cup shown)
    BY <1>2, <1>3, <1>4, <1>5 DEF YoungUntouched, AwaitedFor, Awaited, Known
  <2>1. /\ AwaitedFor(Working, x, unseen[x]) /\ x \notin Known(Working)
        /\ \A i \in DOMAIN queue : queue[i].symbol # x
        /\ x \notin sells \cup doubtful /\ (x \in buys => x \notin held \cup shown)
    BY <1>5 DEF TraderInv, WorkInv, YoungUntouched
  <2>2. ~Shows(x) /\ Orders(x) = {}
    BY <1>4, <1>5, <2>1 DEF Orders
  <2>3. x \notin shown
    BY <2>1, <2>2 DEF Shows
  <2>4. QED
    BY <2>1, <2>3
<1>12. SalesKnown(Working)' /\ BalanceRead(Working)'
  BY <1>2, <1>3, <1>5, <1>6, <1>8 DEF TraderInv, WorkInv, SalesKnown, BalanceRead, HasRead, BrokerBooks
<1>13. \A i \in DOMAIN queue : queue[i].symbol \in OutOfSight => queue[i].symbol \in OutOfSight'
  BY <1>5, <1>6
<1>14. OneSale(Working)'
  BY <1>3, <1>13 DEF TraderInv, WorkInv, SalesMarked, OneSale, Sale, SameSymbol
<1>15. SalesMarked(Working)'
  BY <1>2, <1>3, <1>13, <1>14 DEF TraderInv, WorkInv, SalesMarked, Sale, Marked, Gone
<1>16. PurchasesNew(Working)'
  BY <1>3, <1>9 DEF PurchasesNew, Purchase
<1>17. QED
  BY <1>7, <1>8, <1>10, <1>11, <1>12, <1>15, <1>16 DEF TraderInv, WorkInv

-----------------------------------------------------------------------------
(* The evaluation: what the balance resolves is right, and then it walks.       *)
LEMMA ResolvedShape ==
  ASSUME NEW t \in Trader, NEW seen \in SUBSET Symbols, NEW m, m = Resolved(t, seen)
  PROVE  /\ m \in Trader
         /\ m.holdings = t.holdings \cap seen /\ m.exiting = t.exiting \cap seen
         /\ m.exited = t.exited /\ m.halted = t.halted
         /\ DOMAIN m.pending = {s \in DOMAIN t.pending : t.pending[s] < Grace} \ seen
         /\ \A s \in DOMAIN m.pending : m.pending[s] = t.pending[s]
<1> DEFINE left == {s \in DOMAIN t.pending : t.pending[s] < Grace} \ seen
           g == [s \in left |-> t.pending[s]]
<1>1. t.pending \in Maps
  BY DEF Trader
<1>2. left \in SUBSET Symbols /\ g \in [left -> Nat]
  BY <1>1, MapTypes
<1>3. g \in Maps
  BY <1>2, MapTypes
<1>4. m = [t EXCEPT !.pending = g, !.holdings = @ \cap seen, !.exiting = @ \cap seen]
  BY DEF Resolved
<1>5. DOMAIN g = left /\ \A s \in left : g[s] = t.pending[s]
  OBVIOUS
<1> HIDE DEF g
<1>6. /\ m \in Trader /\ m.pending = g
      /\ m.holdings = t.holdings \cap seen /\ m.exiting = t.exiting \cap seen
      /\ m.exited = t.exited /\ m.halted = t.halted
  BY <1>3, <1>4 DEF Trader
<1>7. QED
  BY <1>5, <1>6

LEMMA EvaluateReady ==
  ASSUME TraderInv, cycle.stage = "collected", UNCHANGED broker,
         NEW w, w = Evaluating
  PROVE  w \in Work /\ Ready(w)'
<1> USE WorkingFields
<1>1. trader \in Trader /\ cycle \in Cycle /\ queue \in Seq(Order) /\ cycle.seen \in SUBSET Symbols
  BY DEF TraderInv, TraderTypeOK, Cycle
<1>2. PICK m : m = Resolved(trader, cycle.seen)
  OBVIOUS
<1>3. /\ m \in Trader
      /\ m.holdings = trader.holdings \cap cycle.seen /\ m.exiting = trader.exiting \cap cycle.seen
      /\ m.exited = trader.exited
      /\ DOMAIN m.pending = {s \in DOMAIN trader.pending : trader.pending[s] < Grace} \ cycle.seen
      /\ \A s \in DOMAIN m.pending : m.pending[s] = trader.pending[s]
  BY <1>1, <1>2, ResolvedShape
<1>4. PICK x : x = [m EXCEPT !.halted = @ \/ service = "stopped"]
  OBVIOUS
<1>5. PICK y : y = [cycle EXCEPT !.todo = cycle.seen, !.waits = service # "ok",
                                 !.cooled = trader.since >= Cooldown, !.age = 0]
  OBVIOUS
<1>6. /\ x \in Trader /\ x.holdings = m.holdings /\ x.exiting = m.exiting
      /\ x.exited = m.exited /\ x.pending = m.pending
  <2>1. (m.halted \/ service = "stopped") \in BOOLEAN
    BY Zenon
  <2>2. PICK h \in BOOLEAN : h = (m.halted \/ service = "stopped")
    BY <2>1, Zenon
  <2>3. x = [m EXCEPT !.halted = h]
    BY <1>4, <2>2, Zenon
  <2>4. QED
    BY <1>3, <2>2, <2>3 DEF Trader
<1>7. /\ y \in Cycle /\ y.todo = cycle.seen /\ y.age = 0 /\ y.seen = cycle.seen
      /\ y.stage = cycle.stage
  <2>1. PICK b \in BOOLEAN : b = (service # "ok")
    BY Zenon
  <2>2. PICK c \in BOOLEAN : c = (trader.since >= Cooldown)
    <3>1. (trader.since >= Cooldown) \in BOOLEAN
      BY SMT
    <3>2. QED
      BY <3>1, Zenon
  <2>3. y = [cycle EXCEPT !.todo = cycle.seen, !.waits = b, !.cooled = c, !.age = 0]
    BY <1>5, <2>1, <2>2, Zenon
  <2>4. QED
    BY <1>1, <2>1, <2>2, <2>3 DEF Cycle
<1>8. w = [trader |-> x, cycle |-> y, queue |-> queue]
  BY <1>2, <1>4, <1>5 DEF Evaluating, Working
<1>9. w \in Work /\ w.trader = x /\ w.cycle = y /\ w.queue = queue
  BY <1>1, <1>6, <1>7, <1>8 DEF Work
<1>10. /\ held' = held /\ buys' = buys /\ sells' = sells /\ doubtful' = doubtful
       /\ sold' = sold /\ shown' = shown /\ unseen' = unseen
       /\ OutOfSight' = OutOfSight /\ Young' = Young
  BY Unmoved
<1>11. OnlyTicks(w)
  <2>1. \A i \in DOMAIN queue : queue[i] \in Order
    BY <1>1
  <2>2. QED
    BY <1>9, <2>1 DEF TraderInv, WorkInv, QueueInOrder, OnlyTicks, Sale, Purchase, OfCycle, Order
<1>12. held \cup buys \cup shown \subseteq cycle.seen \cup DOMAIN unseen
  BY DEF TraderInv, WorkInv, BalanceRead, HasRead
<1>13. Known(w) \cup w.cycle.todo \subseteq w.cycle.seen
  BY <1>3, <1>6, <1>7, <1>9 DEF Known
<1>14. ASSUME NEW s \in Young
       PROVE  /\ AwaitedFor(w, s, unseen[s]) /\ s \notin Known(Working) /\ s \notin cycle.seen
              /\ \A i \in DOMAIN queue : queue[i].symbol # s
              /\ s \notin sells \cup doubtful /\ (s \in buys => s \notin held \cup shown)
  <2>1. /\ AwaitedFor(Working, s, unseen[s]) /\ s \notin Known(Working) /\ s \notin cycle.seen
        /\ \A i \in DOMAIN queue : queue[i].symbol # s
        /\ s \notin sells \cup doubtful /\ (s \in buys => s \notin held \cup shown)
    BY DEF TraderInv, WorkInv, YoungUntouched, HasRead
  <2>2. s \in DOMAIN trader.pending /\ trader.pending[s] <= unseen[s]
    BY <2>1 DEF AwaitedFor, Awaited
  <2>3. trader.pending[s] \in Nat /\ unseen[s] \in Nat /\ s \in DOMAIN unseen
    BY <1>1, <1>14, <2>2, MapTypes DEF Trader, TraderInv, TraderTypeOK, WorldTypes, Young
  <2>4. ~(unseen[s] >= Grace)
    BY <2>3 DEF Young, OutOfSight
  <2>5. trader.pending[s] < Grace
    BY <2>2, <2>3, <2>4, TraderAssumption
  <2>6. s \in DOMAIN m.pending /\ m.pending[s] = trader.pending[s]
    BY <1>3, <2>1, <2>2, <2>5
  <2>7. QED
    BY <1>6, <1>9, <2>1, <2>2, <2>6 DEF AwaitedFor, Awaited
<1>15. YoungUntouched(w)'
  BY <1>3, <1>6, <1>7, <1>9, <1>10, <1>14 DEF YoungUntouched, AwaitedFor, Awaited, Known
<1>16. SalesKnown(w)'
  <2>1. \A s \in sells \ OutOfSight : s \in cycle.seen
    BY <1>12, <1>14 DEF TraderInv, BrokerBooks, Young
  <2>2. QED
    BY <1>3, <1>6, <1>9, <1>10, <2>1 DEF TraderInv, WorkInv, SalesKnown
<1>17. ASSUME NEW i \in DOMAIN queue, NEW s, s = queue[i].symbol, s \notin OutOfSight
       PROVE  Marked(w, s)
  <2>1. Sale(Working, i) /\ Working.queue[i].symbol = s
    BY <1>9, <1>11, <1>17 DEF OnlyTicks, Sale
  <2>2. s \notin sells /\ (s \in trader.exiting \/ Gone(Working, s))
    BY <1>17, <2>1 DEF TraderInv, WorkInv, SalesMarked, Marked
  <2>3. CASE Gone(Working, s)
    BY <1>3, <1>6, <1>7, <1>9, <2>2, <2>3 DEF Gone, Marked
  <2>4. CASE s \in trader.exiting /\ s \in cycle.seen
    BY <1>3, <1>6, <1>9, <2>2, <2>4 DEF Marked
  <2>5. CASE s \notin cycle.seen
    <3>1. s \notin DOMAIN unseen
      BY <1>14, <1>17 DEF Young
    <3>2. QED
      BY <1>3, <1>6, <1>7, <1>9, <1>12, <2>2, <2>5, <3>1 DEF Marked, Gone
  <2>6. QED
    BY <2>2, <2>3, <2>4, <2>5
<1>18. SalesMarked(w)'
  <2>1. \A s : Marked(w, s) => Marked(w, s)'
    BY <1>10 DEF Marked, Gone
  <2>2. OneSale(w)'
    BY <1>9, <1>10 DEF TraderInv, WorkInv, SalesMarked, OneSale, Sale, SameSymbol
  <2>3. QED
    BY <1>9, <1>10, <1>17, <2>1, <2>2 DEF SalesMarked
<1>19. OnlyTicks(w)' /\ (Known(w) \cup w.cycle.todo \subseteq w.cycle.seen)'
  BY <1>11, <1>13 DEF OnlyTicks, Sale, OfCycle, Known
<1>20. QED
  BY <1>7, <1>9, <1>10, <1>12, <1>15, <1>16, <1>18, <1>19 DEF Ready

LEMMA EvaluateKeeps ==
  ASSUME TraderInv, Evaluate
  PROVE  TraderInv'
<1>1. CASE ~enabled
  BY <1>1, GivesUp DEF Evaluate
<1>2. CASE enabled
  <2>1. PICK n \in Walks(Evaluating) : Becomes(n)
    BY <1>2 DEF Evaluate
  <2>2. UNCHANGED <<enabled, service, broker>> /\ cycle.stage = "collected"
    BY DEF Evaluate
  <2>3. PICK w : w = Evaluating
    OBVIOUS
  <2>4. w \in Work /\ Ready(w)'
    BY <2>2, <2>3, EvaluateReady
  <2>5. n \in Work /\ WorkInv(n)'
    BY <2>1, <2>3, <2>4, WalkKeeps
  <2>6. Working' = n
    BY <2>1, <2>5, BecomesIt
  <2>7. TraderTypeOK' /\ BrokerBooks'
    BY <2>2, <2>5, <2>6 DEF TraderInv, TraderTypeOK, WorldTypes, BrokerBooks, broker
  <2>8. QED
    BY <2>5, <2>6, <2>7 DEF TraderInv
<1>3. QED
  BY <1>1, <1>2

-----------------------------------------------------------------------------
(* A tick that makes an exit due: the symbol is held and not being sold, so no  *)
(* order of it is in the queue, unless it is out of sight.                      *)
LEMMA RealtimeTickKeeps ==
  ASSUME TraderInv, NEW s \in Symbols, RealtimeTick(s)
  PROVE  TraderInv'
<1> USE WorkingFields
<1>1. trader \in Trader /\ cycle \in Cycle /\ queue \in Seq(Order) /\ Working \in Work
  BY DEF TraderInv, TraderTypeOK
<1>2. PICK m : m = Selling(Working, "tick", s)
  OBVIOUS
<1>3. /\ m \in Work /\ Sells(Working, m, "tick", s) /\ m.trader.holdings = trader.holdings
      /\ SameCycle(Working, m)
  BY <1>1, <1>2, SellingShape
<1>4. PICK x : x = [m.trader EXCEPT !.since = 0]
  OBVIOUS
<1>5. /\ x \in Trader /\ x.holdings = m.trader.holdings /\ x.exiting = m.trader.exiting
      /\ x.exited = m.trader.exited /\ x.pending = m.trader.pending
  BY <1>3, <1>4 DEF Work, Trader
<1>6. PICK n : n = [m EXCEPT !.trader = x]
  OBVIOUS
<1>7. n \in Work /\ n.trader = x /\ n.queue = m.queue /\ n.cycle = m.cycle
  BY <1>3, <1>5, <1>6 DEF Work
<1>8. Becomes(n) /\ s \in trader.holdings /\ s \notin trader.exiting
  <2>1. n = [m EXCEPT !.trader.since = 0]
    BY <1>4, <1>6
  <2>2. QED
    BY <1>2, <2>1 DEF RealtimeTick
<1>9. Working' = n
  BY <1>7, <1>8, BecomesIt
<1>10. /\ held' = held /\ buys' = buys /\ sells' = sells /\ doubtful' = doubtful
       /\ sold' = sold /\ shown' = shown /\ unseen' = unseen
       /\ OutOfSight' = OutOfSight /\ Young' = Young
       /\ enabled' = enabled /\ service' = service
  BY Unmoved DEF RealtimeTick
<1>11. TraderTypeOK' /\ BrokerBooks'
  BY <1>7, <1>9, <1>10 DEF TraderInv, TraderTypeOK, WorldTypes, BrokerBooks
<1> DEFINE o == [by |-> "tick", side |-> "SELL", symbol |-> s]
<1>12. o \in Order /\ n.queue = Append(queue, o)
  BY <1>3, <1>7 DEF Order, Sells
<1> HIDE DEF o
<1>13. /\ Len(queue) \in Nat /\ DOMAIN queue = 1 .. Len(queue)
       /\ DOMAIN n.queue = 1 .. (Len(queue) + 1)
       /\ n.queue[Len(queue) + 1] = o
       /\ \A i \in DOMAIN queue : i \in DOMAIN n.queue /\ i # Len(queue) + 1 /\ n.queue[i] = queue[i]
       /\ \A i \in DOMAIN n.queue : i = Len(queue) + 1 \/ i \in DOMAIN queue
  BY <1>1, <1>12, AppendShape
<1>14. o.by = "tick" /\ o.side = "SELL" /\ o.symbol = s
  BY DEF o
<1>15. /\ n.trader.exiting = trader.exiting \cup {s} /\ n.trader.exited = trader.exited
       /\ n.trader.pending = trader.pending /\ n.trader.holdings = trader.holdings
       /\ n.cycle.stage = cycle.stage /\ n.cycle.seen = cycle.seen
       /\ n.cycle.todo = cycle.todo /\ n.cycle.age = cycle.age
  BY <1>3, <1>5, <1>7 DEF Sells, SameMaps, SameCycle
<1>16. ASSUME NEW i \in DOMAIN queue, queue[i].symbol = s
       PROVE  Sale(Working, i) /\ s \in OutOfSight
  <2>1. queue[i].side \in {"BUY", "SELL"}
    BY <1>1, <1>16, OrderShape
  <2>2. ~Purchase(Working, i)
    <3> SUFFICES ASSUME Purchase(Working, i)
                 PROVE  FALSE
      OBVIOUS
    <3>1. cycle.stage = "entry"
      BY <1>16 DEF TraderInv, WorkInv, QueueInOrder, Purchase, Sale
    <3>2. s \in cycle.seen
      BY <1>8, <3>1 DEF TraderInv, WorkInv, BalanceRead, Known
    <3>3. QED
      BY <1>16, <3>2 DEF TraderInv, WorkInv, PurchasesNew
  <2>3. Sale(Working, i)
    BY <2>1, <2>2 DEF Sale, Purchase
  <2>4. s \notin OutOfSight => s \in trader.exiting \/ s \notin trader.holdings
    BY <1>16, <2>3 DEF TraderInv, WorkInv, SalesMarked, Marked, Gone
  <2>5. QED
    BY <1>8, <2>3, <2>4
<1>17. QueueInOrder(n)'
  <2>1. LET k == Len(queue) + 1 IN Sale(n, k) /\ ~Purchase(n, k) /\ ~OfCycle(n, k)
    BY <1>13, <1>14 DEF OfCycle, Purchase, Sale
  <2>2. \A i \in DOMAIN queue : Purchase(Working, i) => queue[i].symbol # s
    BY <1>16 DEF Sale, Purchase
  <2>3. \A i, j \in DOMAIN n.queue :
           Purchase(n, i) /\ Sale(n, j) /\ SameSymbol(n, i, j) => j < i
    BY <1>13, <1>14, <2>1, <2>2
       DEF TraderInv, WorkInv, QueueInOrder, Purchase, Sale, SameSymbol
  <2>4. /\ \A i \in DOMAIN n.queue :
              /\ Purchase(n, i) => OfCycle(n, i)
              /\ OfCycle(n, i) => n.cycle.stage = IF Sale(n, i) THEN "exits" ELSE "entry"
        /\ \A i, j \in DOMAIN n.queue : OfCycle(n, i) /\ OfCycle(n, j) => i = j
    BY <1>13, <1>15, <2>1 DEF TraderInv, WorkInv, QueueInOrder, OfCycle, Purchase, Sale
  <2>5. QED
    BY <2>3, <2>4 DEF QueueInOrder
<1>18. s \notin Young
  BY <1>8 DEF TraderInv, WorkInv, YoungUntouched, Known
<1>19. Known(n) = Known(Working) /\ Awaited(n) = Awaited(Working) /\ HasRead(n) = HasRead(Working)
  BY <1>8, <1>15 DEF Known, Awaited, HasRead
<1>20. YoungUntouched(n)'
  <2>1. ASSUME NEW z \in Young
        PROVE  \A i \in DOMAIN n.queue : n.queue[i].symbol # z
    BY <1>13, <1>14, <1>18 DEF TraderInv, WorkInv, YoungUntouched
  <2>2. QED
    BY <1>10, <1>15, <1>19, <2>1 DEF TraderInv, WorkInv, YoungUntouched, AwaitedFor, Awaited, Known,
                                     HasRead
<1>21. BalanceRead(n)' /\ SalesKnown(n)'
  BY <1>10, <1>15, <1>19 DEF TraderInv, WorkInv, BalanceRead, SalesKnown, Known, HasRead
<1>22. SalesMarked(n)'
  <2>1. s \notin sells \/ s \in OutOfSight
    BY <1>8 DEF TraderInv, WorkInv, SalesKnown
  <2>2. ASSUME NEW y, Marked(Working, y)
        PROVE  Marked(n, y)'
    BY <1>10, <1>15, <2>2 DEF Marked, Gone
  <2>3. OneSale(n)'
    BY <1>10, <1>13, <1>14, <1>16
       DEF TraderInv, WorkInv, SalesMarked, OneSale, Sale, SameSymbol
  <2>4. s \in OutOfSight' \/ Marked(n, s)'
    BY <1>10, <1>15, <2>1 DEF Marked
  <2>5. ASSUME NEW i \in DOMAIN queue, Sale(Working, i), NEW y, y = queue[i].symbol
        PROVE  y \in OutOfSight' \/ Marked(n, y)'
    <3>1. y \in OutOfSight \/ Marked(Working, y)
      BY <2>5 DEF TraderInv, WorkInv, SalesMarked
    <3>2. QED
      BY <1>10, <2>2, <3>1
  <2>6. ASSUME NEW i \in DOMAIN n.queue, Sale(n, i), NEW y, y = n.queue[i].symbol
        PROVE  y \in OutOfSight' \/ Marked(n, y)'
    <3>1. CASE i \in DOMAIN queue
      <4>1. Sale(Working, i) /\ y = queue[i].symbol
        BY <1>13, <2>6, <3>1 DEF Sale
      <4>2. QED
        BY <2>5, <3>1, <4>1
    <3>2. CASE i = Len(queue) + 1
      <4>1. y = s
        BY <1>13, <1>14, <2>6, <3>2
      <4>2. QED
        BY <2>4, <4>1
    <3>3. QED
      BY <1>13, <3>1, <3>2
  <2>7. QED
    BY <2>3, <2>6 DEF SalesMarked
<1>23. PurchasesNew(n)'
  BY <1>10, <1>13, <1>14, <1>15 DEF TraderInv, WorkInv, PurchasesNew, Purchase, AwaitedFor, Awaited
<1>24. QED
  BY <1>9, <1>11, <1>17, <1>20, <1>21, <1>22, <1>23 DEF TraderInv, WorkInv

-----------------------------------------------------------------------------
(* An answer: what the head of the queue leaves, and what becomes of its caller. *)
LEMMA TailShape ==
  ASSUME NEW q \in Seq(Order), q # <<>>, NEW r, r = Tail(q)
  PROVE  /\ r \in Seq(Order) /\ Head(q) = q[1] /\ 1 \in DOMAIN q /\ Head(q) \in Order
         /\ \A i \in DOMAIN r : i \in Nat /\ i + 1 \in DOMAIN q /\ i + 1 # 1 /\ r[i] = q[i + 1]
OBVIOUS

LEMMA AnsweredShape ==
  ASSUME NEW t \in Trader, NEW o \in Order, NEW result \in Results, NEW m, m = Answered(t, o, result)
  PROVE  /\ m \in Trader /\ m.holdings = t.holdings /\ m.pending = t.pending
         /\ o.side = "BUY" => m.exiting = t.exiting /\ m.exited = t.exited
         /\ o.side = "SELL" /\ result = "ACCEPTED" =>
               m.exiting = t.exiting /\ m.exited = t.exited \cup {o.symbol}
         /\ o.side = "SELL" /\ result # "ACCEPTED" =>
               m.exiting = t.exiting \ {o.symbol} /\ m.exited = t.exited
<1>1. PICK h \in BOOLEAN : h = (t.halted \/ result \in {"THROWN", "UNKNOWN_RESULT"})
  <2>1. (t.halted \/ result \in {"THROWN", "UNKNOWN_RESULT"}) \in BOOLEAN
    BY Zenon
  <2>2. QED
    BY <2>1, Zenon
<1>2. PICK g : g = IF o.side = "SELL" /\ ~(result = "ACCEPTED") THEN t.exiting \ {o.symbol} ELSE t.exiting
  OBVIOUS
<1>3. PICK d : d = IF o.side = "SELL" /\ result = "ACCEPTED" THEN t.exited \cup {o.symbol} ELSE t.exited
  OBVIOUS
<1>4. m = [t EXCEPT !.halted = h, !.exiting = g, !.exited = d]
  BY <1>1, <1>2, <1>3, Zenon DEF Answered
<1>5. g \in SUBSET Symbols /\ d \in SUBSET Symbols
  BY <1>2, <1>3 DEF Trader, Order
<1>6. /\ m \in Trader /\ m.holdings = t.holdings /\ m.pending = t.pending
      /\ m.exiting = g /\ m.exited = d
  BY <1>1, <1>4, <1>5 DEF Trader
<1>7. QED
  BY <1>2, <1>3, <1>6

Settling(o, result) ==
    [Working EXCEPT !.trader = Answered(trader, o, result), !.queue = Tail(queue)]

(* What the books of the trader become when the order o is answered.            *)
Settled(w, o, result) ==
    /\ w.trader.holdings = trader.holdings /\ w.trader.pending = trader.pending
    /\ o.side = "BUY" => w.trader.exiting = trader.exiting /\ w.trader.exited = trader.exited
    /\ o.side = "SELL" /\ result = "ACCEPTED" =>
          w.trader.exiting = trader.exiting /\ w.trader.exited = trader.exited \cup {o.symbol}
    /\ o.side = "SELL" /\ result # "ACCEPTED" =>
          w.trader.exiting = trader.exiting \ {o.symbol} /\ w.trader.exited = trader.exited
    /\ w.cycle = cycle /\ w.queue = Tail(queue)

LEMMA SettledShape ==
  ASSUME TraderInv, queue # <<>>, NEW o, o = Head(queue), NEW result \in Results,
         NEW w, w = Settling(o, result)
  PROVE  w \in Work /\ o \in Order /\ Settled(w, o, result)
<1>1. trader \in Trader /\ cycle \in Cycle /\ queue \in Seq(Order)
  BY WorkingFields DEF TraderInv, TraderTypeOK
<1>2. PICK q : q = Tail(queue)
  OBVIOUS
<1>3. q \in Seq(Order) /\ o \in Order
  BY <1>1, <1>2, TailShape
<1>4. PICK m : m = Answered(trader, o, result)
  OBVIOUS
<1>5. /\ m \in Trader /\ m.holdings = trader.holdings /\ m.pending = trader.pending
      /\ o.side = "BUY" => m.exiting = trader.exiting /\ m.exited = trader.exited
      /\ o.side = "SELL" /\ result = "ACCEPTED" =>
            m.exiting = trader.exiting /\ m.exited = trader.exited \cup {o.symbol}
      /\ o.side = "SELL" /\ result # "ACCEPTED" =>
            m.exiting = trader.exiting \ {o.symbol} /\ m.exited = trader.exited
  BY <1>1, <1>3, <1>4, AnsweredShape
<1>6. w = [trader |-> m, cycle |-> cycle, queue |-> q]
  BY <1>2, <1>4 DEF Settling, Working
<1>7. w \in Work /\ w.trader = m /\ w.cycle = cycle /\ w.queue = q
  BY <1>1, <1>3, <1>5, <1>6 DEF Work
<1>8. QED
  BY <1>2, <1>3, <1>5, <1>7 DEF Settled

(* What the broker does with a sale, or with a purchase.                        *)
SaleServed(s, result) ==
    /\ UNCHANGED <<held, buys, shown, unseen>>
    /\ doubtful' = doubtful \/ (s \in held /\ doubtful' = doubtful \cup {s})
    /\ IF result = "ACCEPTED"
       THEN s \in held /\ sells' = sells \cup {s} /\ sold' = sold \cup {s}
       ELSE sells' = sells /\ sold' = sold

PurchaseServed(s) ==
    /\ UNCHANGED <<held, sells, doubtful, sold, shown>>
    /\ \/ buys' = buys /\ unseen' = unseen
       \/ /\ s \in held \cup buys \cup shown
          /\ buys' = buys \cup {s} /\ unseen' = unseen
       \/ /\ s \notin held \cup buys \cup shown
          /\ buys' = buys \cup {s}
          /\ unseen' = [x \in DOMAIN unseen \cup {s} |-> IF x = s THEN cycle.age ELSE unseen[x]]

LEMMA SaleAnswered ==
  ASSUME TraderInv, queue # <<>>, NEW o \in Order, o = Head(queue), o.side = "SELL",
         NEW result \in Results, SaleServed(o.symbol, result),
         NEW w \in Work, Settled(w, o, result)
  PROVE  /\ o.by = "tick" => WorkInv(w)'
         /\ o.by = "cycle" => Ready(w)'
         /\ BrokerBooks'
<1> USE WorkingFields
<1> DEFINE s == o.symbol
<1>1. trader \in Trader /\ cycle \in Cycle /\ queue \in Seq(Order)
  BY DEF TraderInv, TraderTypeOK
<1>2. /\ w.queue \in Seq(Order) /\ o = queue[1] /\ 1 \in DOMAIN queue
      /\ \A i \in DOMAIN w.queue : /\ i \in Nat /\ i + 1 \in DOMAIN queue /\ i + 1 # 1
                                   /\ w.queue[i] = queue[i + 1]
  BY <1>1, TailShape DEF Settled
<1>3. Sale(Working, 1) /\ Working.queue[1].symbol = s
  BY <1>2 DEF Sale
<1>4. /\ held' = held /\ buys' = buys /\ shown' = shown /\ unseen' = unseen
      /\ OutOfSight' = OutOfSight /\ Young' = Young
      /\ doubtful' = doubtful \/ (s \in held /\ doubtful' = doubtful \cup {s})
      /\ sells' = IF result = "ACCEPTED" THEN sells \cup {s} ELSE sells
      /\ sold' = IF result = "ACCEPTED" THEN sold \cup {s} ELSE sold
      /\ result = "ACCEPTED" => s \in held
  BY DEF SaleServed, OutOfSight, Young
<1>5. /\ w.trader.holdings = trader.holdings /\ w.trader.pending = trader.pending
      /\ w.trader.exiting = IF result = "ACCEPTED" THEN trader.exiting ELSE trader.exiting \ {s}
      /\ w.trader.exited = IF result = "ACCEPTED" THEN trader.exited \cup {s} ELSE trader.exited
      /\ w.cycle = cycle
  BY DEF Settled
<1>6. s \notin Young
  BY <1>2 DEF TraderInv, WorkInv, YoungUntouched
<1>7. s \notin OutOfSight => s \notin sells /\ (result = "ACCEPTED" => s \in trader.exiting)
  BY <1>2, <1>3, <1>4 DEF TraderInv, WorkInv, SalesMarked, Marked, Gone
<1>8. /\ Known(w) \subseteq Known(Working) /\ Awaited(w) = Awaited(Working)
      /\ HasRead(w) = HasRead(Working)
  BY <1>5 DEF Known, Awaited, HasRead
<1>9. BrokerBooks'
  BY <1>4 DEF TraderInv, BrokerBooks
<1>10. SalesKnown(w)'
  BY <1>4, <1>5, <1>7 DEF TraderInv, WorkInv, SalesKnown
<1>11. ASSUME NEW i \in DOMAIN w.queue
       PROVE  /\ Sale(w, i) = Sale(Working, i + 1) /\ Purchase(w, i) = Purchase(Working, i + 1)
              /\ OfCycle(w, i) = OfCycle(Working, i + 1)
              /\ w.queue[i].symbol = Working.queue[i + 1].symbol
              /\ w.queue[i].symbol \in Symbols
              /\ Sale(w, i) \/ Purchase(w, i)
  <2>1. w.queue[i] = queue[i + 1] /\ w.queue[i].symbol \in Symbols
    BY <1>2, <1>11, OrderShape
  <2>2. w.queue[i].side \in {"BUY", "SELL"}
    BY <1>2, <1>11, OrderShape
  <2>3. QED
    BY <2>1, <2>2 DEF Sale, Purchase, OfCycle
<1>12. YoungUntouched(w)'
  <2>1. ASSUME NEW x \in Young
        PROVE  \A i \in DOMAIN w.queue : w.queue[i].symbol # x
    BY <1>2, <1>11 DEF TraderInv, WorkInv, YoungUntouched
  <2>2. QED
    BY <1>4, <1>5, <1>6, <1>8, <2>1
       DEF TraderInv, WorkInv, YoungUntouched, AwaitedFor, Awaited, Known, HasRead
<1>13. OneSale(w)'
  <2>1. \A i, j \in DOMAIN w.queue :
          /\ i \in Nat /\ j \in Nat /\ i + 1 \in DOMAIN queue /\ j + 1 \in DOMAIN queue
          /\ (i + 1 = j + 1 => i = j)
    BY <1>2
  <2>2. \A i, j \in DOMAIN w.queue :
          Sale(w, i) /\ Sale(w, j) /\ SameSymbol(w, i, j) => i = j \/ w.queue[i].symbol \in OutOfSight
    BY <1>11, <2>1 DEF TraderInv, WorkInv, SalesMarked, OneSale, SameSymbol
  <2>3. QED
    BY <1>4, <2>2 DEF OneSale, Sale, SameSymbol
<1>14. SalesMarked(w)'
  <2> SUFFICES ASSUME NEW i \in DOMAIN w.queue, Sale(w, i), NEW x, x = w.queue[i].symbol,
                      x \notin OutOfSight
               PROVE  Marked(w, x)'
    BY <1>4, <1>13 DEF SalesMarked, Sale
  <2>1. Sale(Working, i + 1) /\ x = Working.queue[i + 1].symbol /\ i + 1 \in DOMAIN queue /\ i + 1 # 1
    BY <1>2, <1>11
  <2>2. x # s
    BY <1>2, <1>3, <2>1 DEF TraderInv, WorkInv, SalesMarked, OneSale, SameSymbol
  <2>3. x \notin sells /\ (x \in trader.exiting \/ Gone(Working, x))
    BY <2>1 DEF TraderInv, WorkInv, SalesMarked, Marked
  <2>4. Gone(Working, x) => Gone(w, x)'
    BY <1>4, <1>5 DEF Gone
  <2>5. QED
    BY <1>4, <1>5, <2>2, <2>3, <2>4 DEF Marked
<1>15. CASE o.by = "tick"
  <2>1. QueueInOrder(w)'
    <3>1. \A i \in DOMAIN w.queue :
            /\ Purchase(w, i) => OfCycle(w, i)
            /\ OfCycle(w, i) => w.cycle.stage = IF Sale(w, i) THEN "exits" ELSE "entry"
      BY <1>2, <1>5, <1>11 DEF TraderInv, WorkInv, QueueInOrder
    <3>2. \A i, j \in DOMAIN w.queue :
            /\ i \in Nat /\ j \in Nat /\ i + 1 \in DOMAIN queue /\ j + 1 \in DOMAIN queue
            /\ (i + 1 = j + 1 => i = j) /\ (j + 1 < i + 1 => j < i)
      BY <1>2
    <3>3. \A i, j \in DOMAIN w.queue : OfCycle(w, i) /\ OfCycle(w, j) => i = j
      BY <1>11, <3>2 DEF TraderInv, WorkInv, QueueInOrder
    <3>4. \A i, j \in DOMAIN w.queue : Purchase(w, i) /\ Sale(w, j) /\ SameSymbol(w, i, j) => j < i
      BY <1>11, <3>2 DEF TraderInv, WorkInv, QueueInOrder, SameSymbol
    <3>5. QED
      BY <3>1, <3>3, <3>4 DEF QueueInOrder
  <2>2. BalanceRead(w)'
    BY <1>4, <1>5, <1>8 DEF TraderInv, WorkInv, BalanceRead, HasRead, Known
  <2>3. PurchasesNew(w)'
    <3> SUFFICES ASSUME NEW i \in DOMAIN w.queue, Purchase(w, i), NEW x, x = w.queue[i].symbol
                 PROVE  x \notin w.cycle.seen /\ AwaitedFor(w, x, w.cycle.age) /\ x \notin sold' \ OutOfSight
      BY <1>4 DEF PurchasesNew, AwaitedFor, Awaited, Purchase
    <3>1. Purchase(Working, i + 1) /\ i + 1 \in DOMAIN queue /\ x = Working.queue[i + 1].symbol
      BY <1>2, <1>11
    <3>2. x \notin cycle.seen /\ AwaitedFor(Working, x, cycle.age) /\ x \notin sold \ OutOfSight
      BY <3>1 DEF TraderInv, WorkInv, PurchasesNew
    <3>3. cycle.stage = "entry"
      BY <3>1 DEF TraderInv, WorkInv, QueueInOrder, Purchase, Sale
    <3>4. x = s /\ result = "ACCEPTED" => x \in OutOfSight
      BY <1>4, <1>6, <3>2, <3>3 DEF TraderInv, WorkInv, BalanceRead, HasRead, Young
    <3>5. QED
      BY <1>4, <1>5, <3>2, <3>4 DEF AwaitedFor, Awaited
  <2>4. QED
    BY <1>9, <1>10, <1>12, <1>14, <1>15, <2>1, <2>2, <2>3 DEF WorkInv
<1>16. CASE o.by = "cycle"
  <2>1. OfCycle(Working, 1) /\ cycle.stage = "exits"
    BY <1>2, <1>3, <1>16 DEF OfCycle, TraderInv, WorkInv, QueueInOrder
  <2>2. OnlyTicks(w)'
    BY <1>2, <1>11, <2>1 DEF TraderInv, WorkInv, QueueInOrder, OnlyTicks
  <2>3. /\ Known(Working) \cup cycle.todo \subseteq cycle.seen
        /\ held \cup buys \cup shown \subseteq cycle.seen \cup DOMAIN unseen
    BY <2>1 DEF TraderInv, WorkInv, BalanceRead, HasRead
  <2>4. (Known(w) \cup w.cycle.todo \subseteq w.cycle.seen)'
    BY <1>5, <1>8, <2>3 DEF Known
  <2>5. QED
    BY <1>4, <1>5, <1>9, <1>10, <1>12, <1>14, <1>16, <2>1, <2>2, <2>3, <2>4 DEF Ready
<1>17. QED
  BY <1>9, <1>15, <1>16 DEF Order

LEMMA PurchaseAnswered ==
  ASSUME TraderInv, queue # <<>>, NEW o \in Order, o = Head(queue), o.side = "BUY",
         NEW result \in Results, PurchaseServed(o.symbol),
         NEW w \in Work, Settled(w, o, result), NEW n, n = [w EXCEPT !.cycle = NoCycle]
  PROVE  n \in Work /\ WorkInv(n)' /\ BrokerBooks'
<1> USE WorkingFields
<1> DEFINE s == o.symbol
<1>1. trader \in Trader /\ cycle \in Cycle /\ queue \in Seq(Order)
  BY DEF TraderInv, TraderTypeOK
<1>2. /\ w.queue \in Seq(Order) /\ o = queue[1] /\ 1 \in DOMAIN queue
      /\ \A i \in DOMAIN w.queue : /\ i \in Nat /\ i + 1 \in DOMAIN queue /\ i + 1 # 1
                                   /\ w.queue[i] = queue[i + 1]
  BY <1>1, TailShape DEF Settled
<1>3. n \in Work /\ n.trader = w.trader /\ n.queue = w.queue /\ n.cycle = NoCycle
  BY NoCycleType DEF Work
<1>4. /\ n.trader.holdings = trader.holdings /\ n.trader.pending = trader.pending
      /\ n.trader.exiting = trader.exiting /\ n.trader.exited = trader.exited
      /\ n.cycle.stage = "idle" /\ Known(n) = Known(Working) /\ Awaited(n) = Awaited(Working)
  BY <1>3 DEF Settled, NoCycle, Known, Awaited
<1>5. /\ Purchase(Working, 1) /\ OfCycle(Working, 1) /\ cycle.stage = "entry" /\ s \in Symbols
      /\ Working.queue[1].symbol = s
  BY <1>2 DEF Purchase, Sale, Order, TraderInv, WorkInv, QueueInOrder
<1>6. /\ s \notin cycle.seen /\ AwaitedFor(Working, s, cycle.age) /\ s \notin Known(Working)
      /\ s \notin Young
      /\ s \in held \cup buys \cup shown => s \in DOMAIN unseen
  BY <1>2, <1>5 DEF TraderInv, WorkInv, PurchasesNew, BalanceRead, HasRead, YoungUntouched
<1>7. ASSUME NEW i \in DOMAIN n.queue
      PROVE  /\ Sale(n, i) = Sale(Working, i + 1)
             /\ n.queue[i].symbol = Working.queue[i + 1].symbol
             /\ ~OfCycle(n, i) /\ ~Purchase(n, i)
             /\ Sale(n, i) /\ n.queue[i].symbol # s
  <2>1. n.queue[i] = queue[i + 1] /\ i + 1 \in DOMAIN queue /\ i + 1 # 1 /\ i \in Nat
    BY <1>2, <1>3, <1>7
  <2>2. ~OfCycle(Working, i + 1) /\ ~Purchase(Working, i + 1)
    BY <1>2, <1>5, <2>1 DEF TraderInv, WorkInv, QueueInOrder
  <2>3. ~(i + 1 < 1)
    BY <2>1
  <2>4. n.queue[i].side \in {"BUY", "SELL"}
    BY <1>1, <2>1, OrderShape
  <2>5. Sale(Working, i + 1)
    BY <2>1, <2>2, <2>4 DEF Sale, Purchase
  <2>6. queue[i + 1].symbol # s
    BY <1>2, <1>5, <2>1, <2>3, <2>5 DEF TraderInv, WorkInv, QueueInOrder, SameSymbol
  <2>7. QED
    BY <2>1, <2>2, <2>5, <2>6 DEF Sale, OfCycle, Purchase
<1>8. /\ held' = held /\ sells' = sells /\ doubtful' = doubtful /\ sold' = sold /\ shown' = shown
      /\ buys' \subseteq buys \cup {s} /\ buys \subseteq buys'
  BY DEF PurchaseServed
<1>9. /\ DOMAIN unseen \subseteq DOMAIN unseen' /\ DOMAIN unseen' \subseteq DOMAIN unseen \cup {s}
      /\ \A x \in DOMAIN unseen' : x # s => unseen'[x] = unseen[x]
      /\ s \in buys' => s \in DOMAIN unseen'
      /\ \/ s \in DOMAIN unseen' <=> s \in DOMAIN unseen /\ unseen' = unseen
         \/ s \notin held \cup shown /\ unseen'[s] = cycle.age
  <2>1. CASE unseen' = unseen
    BY <1>6, <2>1 DEF PurchaseServed, TraderInv, BrokerBooks
  <2>2. CASE /\ s \notin held \cup buys \cup shown
             /\ unseen' = [x \in DOMAIN unseen \cup {s} |-> IF x = s THEN cycle.age ELSE unseen[x]]
    BY <2>2
  <2>3. QED
    BY <2>1, <2>2 DEF PurchaseServed
<1>10. /\ \A x : x # s => (x \in Young' <=> x \in Young) /\ (x \in OutOfSight' <=> x \in OutOfSight)
       /\ s \in Young' => s \notin held \cup shown /\ unseen'[s] = cycle.age
  <2>1. \A x : x # s => (x \in OutOfSight' <=> x \in OutOfSight)
    BY <1>9 DEF OutOfSight
  <2>2. \A x : x # s => (x \in Young' <=> x \in Young)
    BY <1>9, <2>1 DEF Young
  <2>3. CASE unseen' = unseen
    BY <1>6, <2>1, <2>2, <2>3 DEF Young, OutOfSight
  <2>4. CASE unseen' # unseen
    BY <1>9, <2>1, <2>2, <2>4 DEF PurchaseServed
  <2>5. QED
    BY <2>3, <2>4
<1>11. BrokerBooks'
  BY <1>8, <1>9 DEF TraderInv, BrokerBooks
<1>12. QueueInOrder(n)' /\ PurchasesNew(n)'
  BY <1>7 DEF QueueInOrder, PurchasesNew, OfCycle, Purchase, Sale, SameSymbol
<1>13. YoungUntouched(n)'
  <2> SUFFICES ASSUME NEW x \in Young'
               PROVE  /\ AwaitedFor(n, x, unseen'[x]) /\ x \notin Known(n)
                      /\ \A i \in DOMAIN n.queue : n.queue[i].symbol # x
                      /\ x \notin sells \cup doubtful /\ (x \in buys' => x \notin held \cup shown)
    BY <1>4, <1>8 DEF YoungUntouched, AwaitedFor, Awaited, Known, HasRead
  <2>1. CASE x = s
    <3>1. s \notin held \cup shown /\ unseen'[s] = cycle.age
      BY <1>10, <2>1
    <3>2. s \notin sells \cup doubtful
      BY <3>1 DEF TraderInv, BrokerBooks
    <3>3. QED
      BY <1>4, <1>6, <1>7, <2>1, <3>1, <3>2 DEF AwaitedFor
  <2>2. CASE x # s
    <3>1. x \in Young /\ unseen'[x] = unseen[x]
      BY <1>9, <1>10, <2>2 DEF Young
    <3>2. \A i \in DOMAIN n.queue : n.queue[i].symbol # x
      <4> SUFFICES ASSUME NEW i \in DOMAIN n.queue
                   PROVE  n.queue[i].symbol # x
        OBVIOUS
      <4>1. n.queue[i].symbol = queue[i + 1].symbol /\ i + 1 \in DOMAIN queue
        BY <1>2, <1>3, <1>7
      <4>2. QED
        BY <3>1, <4>1 DEF TraderInv, WorkInv, YoungUntouched
    <3>3. QED
      BY <1>4, <1>8, <2>2, <3>1, <3>2 DEF TraderInv, WorkInv, YoungUntouched, AwaitedFor
  <2>3. QED
    BY <2>1, <2>2
<1>14. SalesKnown(n)' /\ BalanceRead(n)'
  <2>1. \A x \in sells \ OutOfSight' : x \in trader.exiting
    <3>1. \A x \in sells : x = s => x \in OutOfSight'
      BY <1>6, <1>9, <1>10 DEF TraderInv, BrokerBooks, Young
    <3>2. QED
      BY <1>10, <3>1 DEF TraderInv, WorkInv, SalesKnown
  <2>2. QED
    BY <1>4, <1>8, <2>1 DEF TraderInv, WorkInv, SalesKnown, BalanceRead, HasRead
<1>15. OneSale(n)'
  <2>1. \A i, j \in DOMAIN n.queue :
          /\ i \in Nat /\ j \in Nat /\ i + 1 \in DOMAIN queue /\ j + 1 \in DOMAIN queue
          /\ (i + 1 = j + 1 => i = j)
    BY <1>2, <1>3
  <2>2. \A i, j \in DOMAIN n.queue :
          Sale(n, i) /\ Sale(n, j) /\ SameSymbol(n, i, j) => i = j \/ n.queue[i].symbol \in OutOfSight
    BY <1>7, <2>1 DEF TraderInv, WorkInv, SalesMarked, OneSale, SameSymbol
  <2>3. QED
    BY <1>7, <1>10, <2>2 DEF OneSale, Sale, SameSymbol
<1>16. SalesMarked(n)'
  <2> SUFFICES ASSUME NEW i \in DOMAIN n.queue, Sale(n, i), NEW x, x = n.queue[i].symbol,
                      x \notin OutOfSight
               PROVE  Marked(n, x)'
    BY <1>7, <1>10, <1>15 DEF SalesMarked, Sale
  <2>1. Sale(Working, i + 1) /\ i + 1 \in DOMAIN queue /\ x = Working.queue[i + 1].symbol /\ x # s
    BY <1>2, <1>3, <1>7
  <2>2. x \notin sells /\ (x \in trader.exiting \/ Gone(Working, x))
    BY <2>1 DEF TraderInv, WorkInv, SalesMarked, Marked
  <2>3. Gone(Working, x) => Gone(n, x)'
    BY <1>4, <1>8, <2>1 DEF Gone
  <2>4. QED
    BY <1>4, <1>8, <2>2, <2>3 DEF Marked
<1>17. QED
  BY <1>3, <1>11, <1>12, <1>13, <1>14, <1>16 DEF WorkInv

(* Every answer: by what the broker did and by who waited for it.               *)
LEMMA ResumeKeeps ==
  ASSUME TraderInv, queue # <<>>, NEW result \in Results, Resume(Head(queue), result),
         \/ Head(queue).side = "SELL" /\ SaleServed(Head(queue).symbol, result)
         \/ Head(queue).side = "BUY" /\ PurchaseServed(Head(queue).symbol)
  PROVE  Working' \in Work /\ WorkInv(Working)' /\ BrokerBooks'
<1>1. PICK o : o = Head(queue)
  OBVIOUS
<1>2. PICK w : w = Settling(o, result)
  OBVIOUS
<1>3. w \in Work /\ o \in Order /\ Settled(w, o, result)
  BY <1>1, <1>2, SettledShape
<1>4. PICK n : /\ Becomes(n)
               /\ n \in IF o.by = "tick" THEN {w}
                         ELSE IF o.side = "SELL" THEN Walks(w) ELSE {[w EXCEPT !.cycle = NoCycle]}
  BY <1>1, <1>2 DEF Resume, Settling
<1>5. CASE o.side = "SELL"
  <2>1. SaleServed(o.symbol, result)
    BY <1>1, <1>5
  <2>2. (o.by = "tick" => WorkInv(w)') /\ (o.by = "cycle" => Ready(w)')
    BY <1>1, <1>3, <1>5, <2>1, SaleAnswered
  <2>3. BrokerBooks'
    BY <1>1, <1>3, <1>5, <2>1, SaleAnswered
  <2>4. CASE o.by = "tick"
    BY <1>3, <1>4, <2>2, <2>3, <2>4, BecomesIt
  <2>5. CASE o.by = "cycle"
    <3>1. n \in Walks(w)
      BY <1>4, <1>5, <2>5
    <3>2. n \in Work /\ WorkInv(n)'
      BY <1>3, <2>2, <2>5, <3>1, WalkKeeps
    <3>3. QED
      BY <1>4, <2>3, <3>2, BecomesIt
  <2>6. QED
    BY <1>3, <2>4, <2>5 DEF Order
<1>6. CASE o.side = "BUY"
  <2>1. PurchaseServed(o.symbol)
    BY <1>1, <1>6
  <2>2. o.by = "cycle"
    <3>1. trader \in Trader /\ cycle \in Cycle /\ queue \in Seq(Order)
      BY WorkingFields DEF TraderInv, TraderTypeOK
    <3>2. o = queue[1] /\ 1 \in DOMAIN queue
      BY <1>1, <3>1, TailShape
    <3>3. QED
      BY <1>6, <3>2, WorkingFields DEF TraderInv, WorkInv, QueueInOrder, Purchase, OfCycle
  <2>3. n = [w EXCEPT !.cycle = NoCycle]
    BY <1>4, <1>6, <2>2
  <2>4. n \in Work /\ WorkInv(n)' /\ BrokerBooks'
    BY <1>1, <1>3, <1>6, <2>1, <2>3, PurchaseAnswered
  <2>5. QED
    BY <1>4, <2>4, BecomesIt
<1>7. QED
  BY <1>3, <1>5, <1>6 DEF Order

LEMMA AnswersKeep ==
  ASSUME TraderInv, ServiceAnswers
  PROVE  TraderInv'
<1> USE WorkingFields
<1> DEFINE o == Head(queue)
<1>1. ASSUME queue # <<>>, o.side \in {"BUY", "SELL"}, NEW result \in Results, Resume(o, result),
             \/ UNCHANGED broker /\ result # "ACCEPTED"
             \/ Takes(o, TRUE) /\ result = "ACCEPTED"
             \/ Takes(o, FALSE) /\ result # "ACCEPTED"
      PROVE  Working' \in Work /\ WorkInv(Working)' /\ BrokerBooks' /\ WorldTypes'
  <2>1. queue \in Seq(Order) /\ o \in Order
    BY <1>1, TailShape DEF TraderInv, TraderTypeOK
  <2>2. SUFFICES WorldTypes' /\ (\/ o.side = "SELL" /\ SaleServed(o.symbol, result)
                                 \/ o.side = "BUY" /\ PurchaseServed(o.symbol))
    BY <1>1, ResumeKeeps
  <2>3. o.symbol \in Symbols /\ cycle.age \in Nat /\ unseen \in Maps
    BY <2>1 DEF Order, TraderInv, TraderTypeOK, WorldTypes, Cycle
  <2>4. CASE o.side = "SELL"
    <3>1. SaleServed(o.symbol, result)
      BY <1>1, <2>4 DEF SaleServed, Takes, Sellable, broker
    <3>2. WorldTypes'
      BY <2>3, <3>1 DEF SaleServed, TraderInv, TraderTypeOK, WorldTypes
    <3>3. QED
      BY <2>4, <3>1, <3>2
  <2>5. CASE o.side = "BUY"
    <3>1. PurchaseServed(o.symbol)
      BY <1>1, <2>5 DEF PurchaseServed, Takes, broker
    <3>2. PICK g : g = [x \in DOMAIN unseen \cup {o.symbol} |->
                          IF x = o.symbol THEN cycle.age ELSE unseen[x]]
      OBVIOUS
    <3>3. g \in Maps
      <4>1. DOMAIN unseen \cup {o.symbol} \in SUBSET Symbols
        BY <2>3, MapTypes
      <4>2. g \in [DOMAIN unseen \cup {o.symbol} -> Nat]
        BY <2>3, <3>2, MapTypes
      <4>3. QED
        BY <4>1, <4>2, MapTypes
    <3>4. unseen' \in Maps
      BY <2>3, <3>1, <3>2, <3>3 DEF PurchaseServed
    <3>5. WorldTypes'
      BY <2>3, <3>1, <3>4 DEF PurchaseServed, TraderInv, TraderTypeOK, WorldTypes
    <3>6. QED
      BY <2>5, <3>1, <3>5
  <2>6. QED
    BY <1>1, <2>4, <2>5
<1>2. queue # <<>> => o.side \in {"BUY", "SELL"}
  BY TailShape DEF TraderInv, TraderTypeOK, Order
<1>3. enabled' = enabled /\ service' \in ServiceStates
  BY DEF ServiceAnswers, ServeAccepted, ServeRefused, ServeLost, ServeNothingSent, TraderInv, TraderTypeOK,
         ServiceStates
<1>4. CASE ServeAccepted
  <2>1. Working' \in Work /\ WorkInv(Working)' /\ BrokerBooks' /\ WorldTypes'
    BY <1>1, <1>2, <1>4 DEF ServeAccepted, Results
  <2>2. QED
    BY <1>3, <2>1 DEF TraderInv, TraderTypeOK
<1>5. ASSUME NEW result \in Results, ServeRefused(result)
      PROVE  TraderInv'
  <2>1. Working' \in Work /\ WorkInv(Working)' /\ BrokerBooks' /\ WorldTypes'
    BY <1>1, <1>2, <1>5 DEF ServeRefused, Results
  <2>2. QED
    BY <1>3, <2>1 DEF TraderInv, TraderTypeOK
<1>6. ASSUME NEW result \in Results, ServeLost(result)
      PROVE  TraderInv'
  <2>1. Working' \in Work /\ WorkInv(Working)' /\ BrokerBooks' /\ WorldTypes'
    BY <1>1, <1>2, <1>6 DEF ServeLost, Results
  <2>2. QED
    BY <1>3, <2>1 DEF TraderInv, TraderTypeOK
<1>7. CASE ServeNothingSent
  <2>1. Working' \in Work /\ WorkInv(Working)' /\ BrokerBooks' /\ WorldTypes'
    BY <1>1, <1>2, <1>7 DEF ServeNothingSent, Results
  <2>2. QED
    BY <1>3, <2>1 DEF TraderInv, TraderTypeOK
<1>8. QED
  BY <1>4, <1>5, <1>6, <1>7 DEF ServiceAnswers

-----------------------------------------------------------------------------
(* The user and the service: nothing the trader relies on.                      *)
LEMMA SettingsKeep ==
  ASSUME TraderInv, UpdateSettings \/ ClearHalt \/ ServiceChanges
  PROVE  TraderInv'
<1> USE WorkingFields
<1>1. /\ cycle' = cycle /\ queue' = queue
      /\ held' = held /\ buys' = buys /\ sells' = sells /\ doubtful' = doubtful
      /\ sold' = sold /\ shown' = shown /\ unseen' = unseen
      /\ OutOfSight' = OutOfSight /\ Young' = Young
  BY Unmoved DEF UpdateSettings, ClearHalt, ServiceChanges
<1>2. /\ trader' \in Trader /\ trader'.holdings = trader.holdings
      /\ trader'.exiting = trader.exiting /\ trader'.exited = trader.exited
      /\ trader'.pending = trader.pending
  <2>1. trader' = trader \/ trader' = [trader EXCEPT !.halted = FALSE]
    BY DEF UpdateSettings, ClearHalt, ServiceChanges
  <2>2. QED
    BY <2>1 DEF TraderInv, TraderTypeOK, Trader
<1>3. enabled' \in BOOLEAN /\ service' \in ServiceStates
  <2>1. enabled' = enabled \/ enabled' = ~enabled
    BY DEF UpdateSettings, ClearHalt, ServiceChanges
  <2>2. enabled' \in BOOLEAN
    BY <2>1 DEF TraderInv, TraderTypeOK
  <2>3. service' \in ServiceStates
    BY DEF UpdateSettings, ClearHalt, ServiceChanges, TraderInv, TraderTypeOK
  <2>4. QED
    BY <2>2, <2>3
<1>4. TraderTypeOK'
  BY <1>1, <1>2, <1>3 DEF TraderInv, TraderTypeOK, WorldTypes
<1>5. BrokerBooks'
  BY <1>1 DEF TraderInv, BrokerBooks
<1>6. QueueInOrder(Working)'
  BY <1>1 DEF TraderInv, WorkInv, QueueInOrder, Sale, Purchase, OfCycle, SameSymbol
<1>7. YoungUntouched(Working)' /\ SalesKnown(Working)' /\ BalanceRead(Working)'
  BY <1>1, <1>2 DEF TraderInv, WorkInv, YoungUntouched, HasRead, AwaitedFor, Awaited, SalesKnown, Known,
                    BalanceRead
<1>8. SalesMarked(Working)' /\ PurchasesNew(Working)'
  BY <1>1, <1>2 DEF TraderInv, WorkInv, SalesMarked, OneSale, SameSymbol, Sale, Marked, Gone,
                    PurchasesNew, Purchase, AwaitedFor, Awaited
<1>9. QED
  BY <1>4, <1>5, <1>6, <1>7, <1>8 DEF TraderInv, WorkInv

(* The broker moves: fills, deaths and the balance take nothing away that the   *)
(* trader relies on.                                                            *)
BrokerMoved ==
    /\ held' \cup buys' \cup shown' \subseteq held \cup buys \cup shown
    /\ sells' \subseteq sells /\ doubtful' \subseteq doubtful /\ sold' = sold
    /\ \A s \in Young : s \in buys' => s \notin held' \cup shown'

LEMMA BrokerMovesKeep ==
  ASSUME TraderInv, UNCHANGED <<enabled, trader, cycle, queue, service, unseen>>,
         BrokerMoved, WorldTypes', BrokerBooks'
  PROVE  TraderInv'
<1> USE WorkingFields
<1>1. /\ trader' = trader /\ cycle' = cycle /\ queue' = queue /\ unseen' = unseen
      /\ enabled' = enabled /\ service' = service
      /\ OutOfSight' = OutOfSight /\ Young' = Young
  BY DEF OutOfSight, Young
<1>2. TraderTypeOK'
  BY <1>1 DEF TraderInv, TraderTypeOK
<1>3. QueueInOrder(Working)'
  BY <1>1 DEF TraderInv, WorkInv, QueueInOrder, Sale, Purchase, OfCycle, SameSymbol
<1>4. YoungUntouched(Working)'
  BY <1>1 DEF BrokerMoved, TraderInv, WorkInv, YoungUntouched, HasRead, AwaitedFor, Awaited, Known
<1>5. SalesKnown(Working)' /\ BalanceRead(Working)'
  BY <1>1 DEF BrokerMoved, TraderInv, WorkInv, SalesKnown, BalanceRead, HasRead, Known
<1>6. OneSale(Working)'
  BY <1>1 DEF TraderInv, WorkInv, SalesMarked, OneSale, Sale, SameSymbol
<1>7. SalesMarked(Working)'
  BY <1>1, <1>6 DEF BrokerMoved, TraderInv, WorkInv, SalesMarked, Sale, Marked, Gone
<1>8. PurchasesNew(Working)'
  BY <1>1 DEF BrokerMoved, TraderInv, WorkInv, PurchasesNew, Purchase, AwaitedFor, Awaited
<1>9. QED
  BY <1>2, <1>3, <1>4, <1>5, <1>7, <1>8 DEF TraderInv, WorkInv

LEMMA BuyFillsKeeps ==
  ASSUME TraderInv, NEW s \in Symbols, BuyFills(s)
  PROVE  TraderInv'
<1>1. BrokerMoved
  BY DEF BuyFills, BrokerMoved, TraderInv, WorkInv, YoungUntouched
<1>2. WorldTypes' /\ BrokerBooks'
  BY DEF BuyFills, TraderInv, TraderTypeOK, WorldTypes, BrokerBooks
<1>3. QED
  BY <1>1, <1>2, BrokerMovesKeep DEF BuyFills

LEMMA SellFillsKeeps ==
  ASSUME TraderInv, NEW s \in Symbols, SellFills(s)
  PROVE  TraderInv'
<1>1. BrokerMoved
  BY DEF SellFills, BrokerMoved, TraderInv, WorkInv, YoungUntouched
<1>2. WorldTypes' /\ BrokerBooks'
  BY DEF SellFills, TraderInv, TraderTypeOK, WorldTypes, BrokerBooks
<1>3. QED
  BY <1>1, <1>2, BrokerMovesKeep DEF SellFills

LEMMA OrderDiesKeeps ==
  ASSUME TraderInv, NEW s \in Symbols, OrderDies(s)
  PROVE  TraderInv'
<1>1. BrokerMoved
  BY DEF OrderDies, BrokerMoved, TraderInv, WorkInv, YoungUntouched
<1>2. WorldTypes' /\ BrokerBooks'
  BY DEF OrderDies, TraderInv, TraderTypeOK, WorldTypes, BrokerBooks
<1>3. QED
  BY <1>1, <1>2, BrokerMovesKeep DEF OrderDies

LEMMA BalanceFollowsKeeps ==
  ASSUME TraderInv, NEW s \in Symbols, BalanceFollows(s)
  PROVE  TraderInv'
<1>1. BrokerMoved
  BY DEF BalanceFollows, BrokerMoved, TraderInv, WorkInv, YoungUntouched
<1>2. WorldTypes' /\ BrokerBooks'
  BY DEF BalanceFollows, TraderInv, TraderTypeOK, WorldTypes, BrokerBooks
<1>3. QED
  BY <1>1, <1>2, BrokerMovesKeep DEF BalanceFollows

-----------------------------------------------------------------------------
(* Time: every age grows up to its bound, and what is out of sight stays so.    *)
LEMMA OlderIs ==
  ASSUME NEW age \in Nat, NEW bound \in Nat
  PROVE  /\ Older(age, bound) \in Nat /\ age <= Older(age, bound)
         /\ age >= bound => Older(age, bound) = age
         /\ age < bound => Older(age, bound) = age + 1
BY DEF Older

LEMMA ClockKeeps ==
  ASSUME TraderInv, Clock
  PROVE  TraderInv'
<1> USE WorkingFields, TraderAssumption
<1>1. /\ trader \in Trader /\ cycle \in Cycle /\ unseen \in Maps /\ trader.pending \in Maps
      /\ trader.since \in Nat /\ cycle.age \in Nat
  BY DEF TraderInv, TraderTypeOK, WorldTypes, Trader, Cycle
<1>2. /\ queue' = queue /\ enabled' = enabled /\ service' = service
      /\ held' = held /\ buys' = buys /\ sells' = sells /\ doubtful' = doubtful
      /\ sold' = sold /\ shown' = shown
  BY DEF Clock
<1>3. PICK g : g = [s \in DOMAIN trader.pending |-> Older(trader.pending[s], Grace)]
  OBVIOUS
<1>4. /\ DOMAIN g = DOMAIN trader.pending
      /\ \A s \in DOMAIN g : /\ g[s] = Older(trader.pending[s], Grace)
                             /\ g[s] \in Nat /\ trader.pending[s] \in Nat
  BY <1>1, <1>3, MapTypes, OlderIs
<1>5. /\ DOMAIN unseen' = DOMAIN unseen
      /\ \A s \in DOMAIN unseen : /\ unseen'[s] = Older(unseen[s], Grace)
                                  /\ unseen'[s] \in Nat /\ unseen[s] \in Nat
  BY <1>1, MapTypes, OlderIs DEF Clock
<1>6. g \in Maps /\ unseen' \in Maps
  <2>1. DOMAIN trader.pending \in SUBSET Symbols /\ DOMAIN unseen \in SUBSET Symbols
    BY <1>1, MapTypes
  <2>2. g \in [DOMAIN trader.pending -> Nat]
    BY <1>3, <1>4
  <2>3. unseen' = [s \in DOMAIN unseen |-> Older(unseen[s], Grace)]
    BY DEF Clock
  <2>4. unseen' \in [DOMAIN unseen -> Nat]
    BY <1>5, <2>3
  <2>5. QED
    BY <2>1, <2>2, <2>4, MapTypes
<1>7. PICK m \in Nat : m = Older(trader.since, Cooldown)
  BY <1>1, OlderIs
<1>8. trader' = [trader EXCEPT !.pending = g, !.since = m]
  BY <1>3, <1>7 DEF Clock
<1>9. /\ trader' \in Trader /\ trader'.pending = g /\ trader'.holdings = trader.holdings
      /\ trader'.exiting = trader.exiting /\ trader'.exited = trader.exited
  BY <1>1, <1>6, <1>7, <1>8 DEF Trader
<1>10. MaxAge \in Nat /\ Grace <= MaxAge
  BY DEF MaxAge
<1>11. /\ cycle' \in Cycle /\ cycle'.stage = cycle.stage /\ cycle'.seen = cycle.seen
       /\ cycle'.todo = cycle.todo
       /\ cycle.stage = "entry" => cycle'.age = Older(cycle.age, MaxAge)
  <2>1. CASE cycle.stage \in {"exits", "entry"}
    <3>1. PICK a \in Nat : a = Older(cycle.age, MaxAge)
      BY <1>1, <1>10, OlderIs
    <3>2. cycle' = [cycle EXCEPT !.age = a]
      BY <2>1, <3>1 DEF Clock
    <3>3. QED
      BY <1>1, <3>1, <3>2 DEF Cycle
  <2>2. CASE cycle.stage \notin {"exits", "entry"}
    <3>1. cycle' = cycle
      BY <2>2 DEF Clock
    <3>2. QED
      BY <1>1, <2>2, <3>1
  <2>3. QED
    BY <2>1, <2>2
<1>12. TraderTypeOK'
  BY <1>2, <1>6, <1>9, <1>11 DEF TraderInv, TraderTypeOK, WorldTypes
<1>13. OutOfSight \subseteq OutOfSight' /\ Young' \subseteq Young
  <2>1. \A s \in OutOfSight : s \in OutOfSight'
    BY <1>5, OlderIs DEF OutOfSight
  <2>2. QED
    BY <1>5, <2>1 DEF Young
<1>14. BrokerBooks' /\ BalanceRead(Working)'
  <2>1. Known(Working)' = Known(Working)
    BY <1>9 DEF Known
  <2>2. QED
    BY <1>2, <1>5, <1>11, <2>1 DEF TraderInv, WorkInv, BrokerBooks, BalanceRead, HasRead
<1>15. QueueInOrder(Working)'
  BY <1>2, <1>11 DEF TraderInv, WorkInv, QueueInOrder, Sale, Purchase, OfCycle, SameSymbol
<1>16. YoungUntouched(Working)'
  <2> SUFFICES ASSUME NEW s \in Young'
               PROVE  /\ s \in DOMAIN g /\ g[s] <= unseen'[s]
                      /\ s \notin Known(Working) /\ (HasRead(Working) => s \notin cycle.seen)
                      /\ \A i \in DOMAIN queue : queue[i].symbol # s
                      /\ s \notin sells \cup doubtful /\ (s \in buys => s \notin held \cup shown)
    BY <1>2, <1>9, <1>11 DEF YoungUntouched, AwaitedFor, Awaited, Known, HasRead
  <2>1. /\ s \in DOMAIN trader.pending /\ trader.pending[s] <= unseen[s]
        /\ s \notin Known(Working) /\ (HasRead(Working) => s \notin cycle.seen)
        /\ \A i \in DOMAIN queue : queue[i].symbol # s
        /\ s \notin sells \cup doubtful /\ (s \in buys => s \notin held \cup shown)
    BY <1>13 DEF TraderInv, WorkInv, YoungUntouched, AwaitedFor, Awaited
  <2>2. s \in DOMAIN unseen /\ unseen[s] \in Nat
    BY <1>5, <1>13 DEF Young
  <2>3. PICK p \in Nat : p = trader.pending[s]
    BY <1>4, <2>1
  <2>4. PICK u \in Nat : u = unseen[s]
    BY <2>2
  <2>5. Older(p, Grace) <= Older(u, Grace)
    <3>1. p <= u
      BY <2>1, <2>3, <2>4
    <3>2. QED
      BY <3>1 DEF Older
  <2>6. QED
    BY <1>4, <1>5, <2>1, <2>2, <2>3, <2>4, <2>5
<1>17. SalesKnown(Working)'
  BY <1>2, <1>9, <1>13 DEF TraderInv, WorkInv, SalesKnown
<1>18. OneSale(Working)'
  BY <1>2, <1>13 DEF TraderInv, WorkInv, SalesMarked, OneSale, Sale, SameSymbol
<1>19. SalesMarked(Working)'
  BY <1>2, <1>9, <1>11, <1>13, <1>18 DEF TraderInv, WorkInv, SalesMarked, Sale, Marked, Gone
<1>20. PurchasesNew(Working)'
  <2> SUFFICES ASSUME NEW i \in DOMAIN queue, Purchase(Working, i), NEW s, s = queue[i].symbol
               PROVE  /\ s \notin cycle.seen /\ s \notin sold \ OutOfSight'
                      /\ s \in DOMAIN g /\ g[s] <= cycle'.age
    BY <1>2, <1>9, <1>11 DEF PurchasesNew, Purchase, AwaitedFor, Awaited
  <2>1. /\ s \notin cycle.seen /\ s \notin sold \ OutOfSight
        /\ s \in DOMAIN trader.pending /\ trader.pending[s] <= cycle.age
    BY DEF TraderInv, WorkInv, PurchasesNew, AwaitedFor, Awaited
  <2>2. cycle.stage = "entry"
    BY DEF TraderInv, WorkInv, QueueInOrder, Purchase, Sale
  <2>3. PICK p \in Nat : p = trader.pending[s]
    BY <1>4, <2>1
  <2>4. PICK a \in Nat : a = cycle.age
    BY <1>1
  <2>5. PICK b \in Nat : b = MaxAge
    BY <1>10
  <2>6. Older(p, Grace) <= Older(a, b)
    <3>1. p <= a /\ Grace <= b /\ Grace \in Nat
      BY <1>10, <2>1, <2>3, <2>4, <2>5
    <3>2. QED
      BY <3>1 DEF Older
  <2>7. QED
    BY <1>4, <1>11, <1>13, <2>1, <2>2, <2>3, <2>4, <2>5, <2>6
<1>21. QED
  BY <1>12, <1>14, <1>15, <1>16, <1>17, <1>19, <1>20 DEF TraderInv, WorkInv

(* A night, or another process: nothing waits, and nothing is within its grace. *)
LEMMA Quiet ==
  ASSUME queue' = <<>>, sells' = {}, sold' = {}, Young' = {}, cycle'.stage = "idle"
  PROVE  WorkInv(Working)'
BY WorkingFields DEF WorkInv, QueueInOrder, YoungUntouched, BalanceRead, HasRead, SalesKnown, SalesMarked,
                     OneSale, PurchasesNew

LEMMA NextDayKeeps ==
  ASSUME TraderInv, NextDay
  PROVE  TraderInv'
<1> USE WorkingFields, TraderAssumption
<1>1. /\ cycle.stage = "idle" /\ queue = <<>> /\ cycle' = cycle /\ queue' = queue
      /\ held' = held /\ shown' = held /\ buys' = {} /\ sells' = {} /\ doubtful' = {} /\ sold' = {}
      /\ enabled' = enabled /\ service' = service /\ DOMAIN unseen' = {} /\ unseen' = <<>>
  BY DEF NextDay
<1>2. PICK g : g = [s \in DOMAIN trader.pending |-> Grace]
  OBVIOUS
<1>3. g \in Maps /\ trader \in Trader /\ unseen' \in Maps
  <2>1. trader.pending \in Maps /\ trader \in Trader
    BY DEF TraderInv, TraderTypeOK, Trader
  <2>2. DOMAIN trader.pending \in SUBSET Symbols
    BY <2>1, MapTypes
  <2>3. g \in [DOMAIN trader.pending -> Nat]
    BY <1>2
  <2>4. unseen' \in [{} -> Nat]
    BY <1>1
  <2>5. QED
    BY <2>1, <2>2, <2>3, <2>4, MapTypes
<1>4. trader' = [trader EXCEPT !.exited = {}, !.since = Cooldown, !.pending = g]
  BY <1>2 DEF NextDay
<1>5. trader' \in Trader
  BY <1>3, <1>4 DEF Trader
<1>6. TraderTypeOK'
  BY <1>1, <1>3, <1>5 DEF TraderInv, TraderTypeOK, WorldTypes
<1>7. BrokerBooks'
  BY <1>1 DEF BrokerBooks
<1>8. WorkInv(Working)'
  <2>1. Young' = {} /\ cycle'.stage = "idle" /\ queue' = <<>>
    BY <1>1 DEF Young
  <2>2. QED
    BY <1>1, <2>1, Quiet
<1>9. QED
  BY <1>6, <1>7, <1>8 DEF TraderInv

LEMMA RestartKeeps ==
  ASSUME TraderInv, Restart
  PROVE  TraderInv'
<1> USE WorkingFields, TraderAssumption
<1>1. queue \in Seq(Order) /\ \A i \in DOMAIN queue : queue[i].symbol \in Symbols
  BY OrderShape DEF TraderInv, TraderTypeOK
<1>2. PICK head \in {{}, {queue[i] : i \in DOMAIN queue \cap {1}}} :
        LET bought == {o.symbol : o \in {x \in head : x.side = "BUY"}}
            onSale == {o.symbol : o \in {x \in head : x.side = "SELL" /\ Sellable(x.symbol)}}
        IN  /\ service' \in IF head = {} THEN ServiceStates ELSE {"stopped"}
            /\ buys' = buys \cup bought
            /\ doubtful' = doubtful \cup sells \cup onSale
            /\ unseen' = [s \in DOMAIN unseen \cup bought |-> Grace]
  BY DEF Restart
<1> DEFINE bought == {o.symbol : o \in {x \in head : x.side = "BUY"}}
           onSale == {o.symbol : o \in {x \in head : x.side = "SELL" /\ Sellable(x.symbol)}}
<1>3. bought \subseteq Symbols /\ onSale \subseteq Symbols /\ onSale \subseteq held
  BY <1>1 DEF Sellable
<1>4. /\ service' \in ServiceStates /\ buys' = buys \cup bought
      /\ doubtful' = doubtful \cup sells \cup onSale
      /\ unseen' = [s \in DOMAIN unseen \cup bought |-> Grace]
      /\ DOMAIN unseen' = DOMAIN unseen \cup bought
  BY <1>2 DEF ServiceStates
<1> HIDE DEF bought, onSale
<1>5. /\ trader' = NewTrader /\ cycle' = NoCycle /\ queue' = <<>>
      /\ sells' = {} /\ sold' = {} /\ held' = held /\ shown' = shown /\ enabled' = enabled
  BY DEF Restart
<1>6. trader' \in Trader /\ cycle' \in Cycle /\ queue' \in Seq(Order) /\ cycle'.stage = "idle"
  <2>1. <<>> \in [{} -> Nat]
    OBVIOUS
  <2>2. <<>> \in Maps
    BY <2>1, MapTypes
  <2>3. QED
    BY <1>5, <2>2, NoCycleType DEF NewTrader, Trader, NoCycle
<1>7. unseen' \in Maps /\ Young' = {}
  <2>1. DOMAIN unseen \in SUBSET Symbols
    BY MapTypes DEF TraderInv, TraderTypeOK, WorldTypes
  <2>2. unseen' \in [DOMAIN unseen \cup bought -> Nat]
    BY <1>4
  <2>3. DOMAIN unseen \cup bought \in SUBSET Symbols
    BY <1>3, <2>1
  <2>4. \A s \in DOMAIN unseen' : unseen'[s] >= Grace
    BY <1>4
  <2>5. QED
    BY <2>2, <2>3, <2>4, MapTypes DEF Young, OutOfSight
<1>8. TraderTypeOK'
  BY <1>3, <1>4, <1>5, <1>6, <1>7 DEF TraderInv, TraderTypeOK, WorldTypes
<1>9. BrokerBooks'
  BY <1>3, <1>4, <1>5 DEF TraderInv, BrokerBooks
<1>10. WorkInv(Working)'
  BY <1>5, <1>6, <1>7, Quiet
<1>11. QED
  BY <1>8, <1>9, <1>10 DEF TraderInv

LEMMA NothingKeeps ==
  ASSUME TraderInv, UNCHANGED traderVars
  PROVE  TraderInv'
BY DEF TraderInv, TraderTypeOK, WorldTypes, BrokerBooks, WorkInv, QueueInOrder, OneSale, Sale, Purchase,
       OfCycle, SameSymbol, YoungUntouched, HasRead, AwaitedFor, Awaited, SalesKnown, Known, BalanceRead,
       SalesMarked, Marked, Gone, PurchasesNew, Working, OutOfSight, Young, traderVars

LEMMA TraderStep ==
  ASSUME TraderInv, [TraderNext]_traderVars
  PROVE  TraderInv'
<1>1. CASE StartCycle
  BY <1>1, StartCycleKeeps
<1>2. CASE ReadBalance
  BY <1>2, ReadBalanceKeeps
<1>3. CASE CollectFails
  BY <1>3, GivesUp DEF CollectFails
<1>4. CASE Evaluate
  BY <1>4, EvaluateKeeps
<1>5. CASE \E s \in Symbols : RealtimeTick(s)
  BY <1>5, RealtimeTickKeeps
<1>6. CASE ServiceAnswers
  BY <1>6, AnswersKeep
<1>7. CASE UpdateSettings \/ ClearHalt \/ ServiceChanges
  BY <1>7, SettingsKeep
<1>8. CASE \E s \in Symbols : BuyFills(s)
  BY <1>8, BuyFillsKeeps
<1>9. CASE \E s \in Symbols : SellFills(s)
  BY <1>9, SellFillsKeeps
<1>10. CASE \E s \in Symbols : OrderDies(s)
  BY <1>10, OrderDiesKeeps
<1>11. CASE \E s \in Symbols : BalanceFollows(s)
  BY <1>11, BalanceFollowsKeeps
<1>12. CASE Clock
  BY <1>12, ClockKeeps
<1>13. CASE NextDay
  BY <1>13, NextDayKeeps
<1>14. CASE Restart
  BY <1>14, RestartKeeps
<1>15. CASE UNCHANGED traderVars
  BY <1>15, NothingKeeps
<1>16. QED
  BY <1>1, <1>2, <1>3, <1>4, <1>5, <1>6, <1>7, <1>8, <1>9, <1>10, <1>11, <1>12, <1>13, <1>14, <1>15
     DEF TraderNext, Running

(* What the trader works on, the broker's books and the balance always agree as *)
(* the parts of TraderInv say, whatever the cycle, the ticks and the broker do, *)
(* however slow they are and whenever the process ends.                         *)
THEOREM TraderInvariant == TraderSpec => []TraderInv
<1>1. TraderInit => TraderInv
  BY InitHolds
<1>2. TraderInv /\ [TraderNext]_traderVars => TraderInv'
  BY TraderStep
<1>3. QED
  BY <1>1, <1>2, PTL DEF TraderSpec

(* However many symbols and whatever the limits and delays, a purchase on its   *)
(* way for a symbol held or being bought is one of a symbol out of sight: its   *)
(* purchase was accepted a whole settlement grace ago, or by a process that has *)
(* ended, and no balance the trader read has shown it.                          *)
THEOREM NothingBoughtTwice == TraderSpec => []OneBuyPerSymbol
<1>1. TraderInv => OneBuyPerSymbol
  <2> SUFFICES ASSUME TraderInv, NEW s \in OnTheWay("BUY"), s \in held \cup buys
               PROVE  s \in OutOfSight
    BY DEF OneBuyPerSymbol
  <2> USE WorkingFields
  <2>1. PICK i \in DOMAIN queue : queue[i].side = "BUY" /\ queue[i].symbol = s
    BY DEF OnTheWay, ToSet
  <2>2. s \notin cycle.seen /\ cycle.stage = "entry"
    BY <2>1 DEF TraderInv, WorkInv, PurchasesNew, QueueInOrder, Purchase, Sale
  <2>3. s \in DOMAIN unseen
    BY <2>2 DEF TraderInv, WorkInv, BalanceRead, HasRead
  <2>4. s \notin Young
    BY <2>1 DEF TraderInv, WorkInv, YoungUntouched
  <2>5. QED
    BY <2>3, <2>4 DEF Young
<1>2. QED
  BY <1>1, TraderInvariant, PTL

(* A cycle and any number of ticks of one process never have two sales of a     *)
(* symbol under way, unless it is out of sight. A sale whose answer was lost,   *)
(* or whose process has ended, is not among those.                              *)
THEOREM NothingSoldTwice == TraderSpec => []NoSellTwice
<1>1. TraderInv => NoSellTwice
  <2> SUFFICES ASSUME TraderInv
               PROVE  NoSellTwice
    OBVIOUS
  <2> USE WorkingFields
  <2>1. queue \in Seq(Order)
    BY DEF TraderInv, TraderTypeOK
  <2>2. ASSUME NEW i \in DOMAIN queue, NEW j \in DOMAIN queue, queue[i].side = "SELL",
               queue[j] = [queue[i] EXCEPT !.by = queue[j].by]
        PROVE  i = j \/ queue[i].symbol \in OutOfSight
    <3>1. queue[i] \in Order
      BY <2>1
    <3>2. queue[j].side = "SELL" /\ queue[j].symbol = queue[i].symbol
      BY <2>2, <3>1 DEF Order
    <3>3. QED
      BY <2>2, <3>2 DEF TraderInv, WorkInv, SalesMarked, OneSale, Sale, SameSymbol
  <2>3. ASSUME NEW s \in OnTheWay("SELL"), s \in sells
        PROVE  s \in OutOfSight
    <3>1. PICK i \in DOMAIN queue : queue[i].side = "SELL" /\ queue[i].symbol = s
      BY DEF OnTheWay, ToSet
    <3>2. QED
      BY <2>3, <3>1 DEF TraderInv, WorkInv, SalesMarked, Sale, Marked
  <2>4. QED
    BY <2>2, <2>3 DEF NoSellTwice
<1>2. QED
  BY <1>1, TraderInvariant, PTL

(* What this process was told was sold today it does not buy again today, but   *)
(* for a symbol out of sight. A process that starts knows of no sale.           *)
THEOREM NothingReentered == TraderSpec => []NoReentry
<1>1. TraderInv => NoReentry
  <2> SUFFICES ASSUME TraderInv, NEW s \in OnTheWay("BUY"), s \in sold
               PROVE  s \in OutOfSight
    BY DEF NoReentry
  <2>1. PICK i \in DOMAIN queue : queue[i].side = "BUY" /\ queue[i].symbol = s
    BY DEF OnTheWay, ToSet
  <2>2. QED
    BY <2>1, WorkingFields DEF TraderInv, WorkInv, PurchasesNew, Purchase
<1>2. QED
  BY <1>1, TraderInvariant, PTL

(********************************************************************************)
(* The realtime session for any number of connects, stops and restarts, any     *)
(* lists and any limit: one session as long as nobody stops it, subscriptions   *)
(* that follow what is wanted, a client that is never stranded, and the symbols *)
(* held before those recommended.                                               *)
(********************************************************************************)
Phases == {"free", "approval", "opening", "open", "closing", "closed"}

ClientType == [started : BOOLEAN, socket : Slots \cup {None}, promise : Slots \cup {None},
               timer : BOOLEAN, attempt : Nat, established : BOOLEAN, blocked : BOOLEAN]

SessionTypeOK ==
    /\ client \in ClientType
    /\ phase \in [Slots -> Phases]
    /\ settled \subseteq Slots
    /\ stops \in Nat

(* A connect() waiting for its approval or its socket is not resolved.          *)
Unresolved == \A s \in Slots : phase[s] \in {"approval", "opening"} => s \notin settled

(* A connect() whose socket will open beside the current one: alone of all that *)
(* are not resolved, it may end without a socket in place and without a timer.  *)
Aside(t) == phase[t] = "opening" /\ t # client.socket

Coming == \E t \in Slots \ settled : ~Aside(t)

Promised == client.promise # None => Coming

InPlace == client.socket # None /\ phase[client.socket] \in {"opening", "open", "closing"}

Awake == Wants(client, desired) => client.timer \/ Coming \/ InPlace

(* Before any stop the promise is of the one connect() not resolved, the socket *)
(* in place is the only one, and no connect() waits for its approval beside it. *)
Orderly ==
    stops = 0 =>
      /\ Slots \ settled \subseteq {client.promise}
      /\ Live \subseteq {client.socket}
      /\ \A s \in Slots : phase[s] = "approval" => Live = {}

Emptied == stops = 0 /\ ~IsOpen(client, phase) => active = {}

SessionInv ==
    /\ SessionTypeOK /\ Unresolved /\ Promised /\ Awake /\ Orderly /\ Emptied
    /\ SubscriptionsFollow

-----------------------------------------------------------------------------
LEMMA ScheduledIs ==
    ASSUME NEW c \in ClientType, NEW want
    PROVE  /\ Scheduled(c, want) \in ClientType
           /\ Scheduled(c, want).socket = c.socket /\ Scheduled(c, want).promise = c.promise
           /\ Wants(Scheduled(c, want), want) => Scheduled(c, want).timer
<1>1. CASE Wants(c, want) /\ ~c.timer
    <2> DEFINE a == IF c.attempt < MaxAttempt THEN c.attempt + 1 ELSE c.attempt
               n == [c EXCEPT !.timer = TRUE, !.attempt = a]
    <2>1. Scheduled(c, want) = n
        BY <1>1 DEF Scheduled
    <2>2. a \in Nat
        BY ClientAssumption DEF ClientType
    <2> HIDE DEF a
    <2>3. n \in ClientType /\ n.socket = c.socket /\ n.promise = c.promise /\ n.timer
        BY <2>2 DEF ClientType
    <2> QED
        BY <2>1, <2>3
<1>2. CASE ~(Wants(c, want) /\ ~c.timer)
    <2>1. Scheduled(c, want) = c
        BY <1>2 DEF Scheduled
    <2> QED
        BY <1>2, <2>1
<1> QED
    BY <1>1, <1>2

LEMMA FinishedIs ==
    ASSUME NEW c \in ClientType
    PROVE  /\ Finished(c) \in ClientType
           /\ Finished(c).socket = c.socket /\ Finished(c).promise = None
           /\ Finished(c).timer = c.timer
           /\ \A want : Wants(Finished(c), want) <=> Wants(c, want)
BY DEF Finished, ClientType, Wants

LEMMA FailedIs ==
    ASSUME NEW c \in ClientType, NEW want
    PROVE  /\ Failed(c, want) \in ClientType
           /\ Failed(c, want).socket = c.socket /\ Failed(c, want).promise = None
           /\ Wants(Failed(c, want), want) => Failed(c, want).timer
<1>1. Failed(c, want) = Finished(Scheduled(c, want)) /\ Scheduled(c, want) \in ClientType
    BY ScheduledIs DEF Failed
<1> QED
    BY <1>1, ScheduledIs, FinishedIs

LEMMA ClosingIs ==
    ASSUME SessionTypeOK, NEW s \in Slots \cup {None}
    PROVE  /\ Closing(phase, s) \in [Slots -> Phases]
           /\ \A t \in Slots : t # s => Closing(phase, s)[t] = phase[t]
           /\ s \in Slots => Closing(phase, s)[s] =
                IF phase[s] \in {"opening", "open"} THEN "closing" ELSE phase[s]
BY ClientAssumption DEF SessionTypeOK, Closing, Phases

-----------------------------------------------------------------------------
(* ensureConnected leaves the client in order and awake.                        *)
LEMMA EnsureKeeps ==
    ASSUME SessionInv, NEW c \in ClientType,
           c.socket = client.socket, c.promise = client.promise,
           EnsureConnected(c, desired', phase, settled), stops' = stops
    PROVE  /\ SessionTypeOK' /\ Unresolved' /\ Promised' /\ Awake' /\ Orderly'
           /\ client'.socket = client.socket
           /\ IsOpen(client, phase)' <=> IsOpen(client, phase)
<1>1. /\ SessionTypeOK /\ None \notin Slots /\ client \in ClientType
      /\ client.socket \in Slots \cup {None} /\ client.promise \in Slots \cup {None}
      /\ phase \in [Slots -> Phases] /\ settled \subseteq Slots
    BY ClientAssumption DEF SessionInv, SessionTypeOK, ClientType
<1>2. CASE Wants(c, desired') /\ ~IsOpen(c, phase) /\ c.promise = None
    <2>1. PICK s \in Reusable(phase, settled) :
             /\ client' = [c EXCEPT !.promise = s]
             /\ phase' = [phase EXCEPT ![s] = "approval"]
             /\ settled' = settled \ {s}
        BY <1>2 DEF EnsureConnected
    <2>2. s \in Slots /\ s \in settled /\ phase[s] \in {"free", "closed"}
        BY <1>1, <2>1 DEF Reusable
    <2>3. client' \in ClientType /\ client'.socket = client.socket /\ client'.promise = s
        BY <2>1, <2>2 DEF ClientType
    <2>4. /\ phase' \in [Slots -> Phases] /\ phase'[s] = "approval"
          /\ \A t \in Slots : t # s => phase'[t] = phase[t]
        BY <1>1, <2>1, <2>2 DEF Phases
    <2>5. SessionTypeOK'
        BY <1>1, <2>1, <2>3, <2>4 DEF SessionTypeOK
    <2>6. Unresolved'
        BY <2>1, <2>4 DEF SessionInv, Unresolved
    <2>7. Coming'
        BY <2>1, <2>2, <2>4 DEF Coming, Aside
    <2>8. ~IsOpen(client, phase) /\ ~IsOpen(client, phase)'
        BY <1>1, <1>2, <2>2, <2>3, <2>4 DEF IsOpen
    <2>9. ASSUME stops = 0
          PROVE  Slots \ settled = {} /\ Live = {} /\ Live' = {}
        <3>1. Slots \ settled \subseteq {None} /\ Live \subseteq {client.socket}
            BY <1>2, <2>9 DEF SessionInv, Orderly
        <3>2. Slots \ settled = {}
            BY <1>1, <3>1
        <3>3. Live = {}
            BY <1>1, <2>8, <3>1, <3>2 DEF Live, IsOpen, SessionInv, Unresolved
        <3> QED
            BY <2>4, <3>2, <3>3 DEF Live
    <2>10. Orderly'
        BY <2>1, <2>3, <2>9 DEF Orderly
    <2> QED
        BY <2>3, <2>5, <2>6, <2>7, <2>8, <2>10 DEF Promised, Awake
<1>3. CASE ~(Wants(c, desired') /\ ~IsOpen(c, phase) /\ c.promise = None)
    <2>1. client' = c /\ phase' = phase /\ settled' = settled
        BY <1>3 DEF EnsureConnected
    <2>2. SessionTypeOK' /\ client'.socket = client.socket /\ client'.promise = client.promise
        BY <1>1, <2>1 DEF SessionTypeOK
    <2>3. Coming' <=> Coming
        BY <2>1, <2>2 DEF Coming, Aside
    <2>4. Unresolved' /\ Promised'
        BY <2>1, <2>2, <2>3 DEF SessionInv, Unresolved, Promised
    <2>5. Orderly'
        BY <2>1, <2>2 DEF SessionInv, Orderly, Live
    <2>6. IsOpen(client, phase)' <=> IsOpen(client, phase)
        BY <2>1, <2>2 DEF IsOpen
    <2>7. Awake'
        <3>1. Wants(client, desired)' => IsOpen(c, phase) \/ client.promise # None
            BY <1>3, <2>1
        <3>2. IsOpen(c, phase) => InPlace'
            BY <2>1 DEF IsOpen, InPlace
        <3>3. client.promise # None => Coming'
            BY <2>3 DEF SessionInv, Promised
        <3> QED
            BY <3>1, <3>2, <3>3 DEF Awake
    <2> QED
        BY <2>2, <2>4, <2>5, <2>6, <2>7
<1> QED
    BY <1>2, <1>3

LEMMA WatchKeeps ==
    ASSUME SessionInv, NEW next, WatchSymbols(next)
    PROVE  SessionInv' /\ desired' = next
<1> DEFINE r == Requests(desired, next)
           c == IF client.started THEN client
                ELSE [client EXCEPT !.started = TRUE, !.blocked = FALSE, !.attempt = 0]
<1>1. /\ desired' = next /\ stops' = stops
      /\ EnsureConnected(c, next, phase, settled)
      /\ IF IsOpen(client, phase)
         THEN \E sent \in SUBSET (r.drop \cup r.add) :
                 /\ active' = (active \ (sent \cap r.drop)) \cup (sent \cap r.add)
                 /\ remote' = (remote \ (sent \cap r.drop)) \cup (sent \cap r.add)
                 /\ spoilt' = (spoilt \/ sent # r.drop \cup r.add)
         ELSE UNCHANGED <<active, remote, spoilt>>
    BY DEF WatchSymbols
<1>2. r.drop = desired \ next /\ r.add = next \ desired
    BY DEF Requests
<1>3. client \in ClientType
    BY DEF SessionInv, SessionTypeOK
<1>4. c \in ClientType /\ c.socket = client.socket /\ c.promise = client.promise
    BY <1>3 DEF ClientType
<1> HIDE DEF c, r
<1>5. /\ SessionTypeOK' /\ Unresolved' /\ Promised' /\ Awake' /\ Orderly'
      /\ IsOpen(client, phase)' <=> IsOpen(client, phase)
    BY <1>1, <1>4, EnsureKeeps
<1>6. Emptied' /\ SubscriptionsFollow'
    <2>1. CASE IsOpen(client, phase)
        <3>1. PICK sent \in SUBSET (r.drop \cup r.add) :
                 /\ active' = (active \ (sent \cap r.drop)) \cup (sent \cap r.add)
                 /\ remote' = (remote \ (sent \cap r.drop)) \cup (sent \cap r.add)
                 /\ spoilt' = (spoilt \/ sent # r.drop \cup r.add)
            BY <1>1, <2>1
        <3>2. ~spoilt' => ~spoilt /\ sent = r.drop \cup r.add
            BY <3>1
        <3>3. ~spoilt' => remote' = (desired \ (desired \ next)) \cup (next \ desired)
            BY <1>2, <2>1, <3>1, <3>2 DEF SessionInv, SubscriptionsFollow
        <3>4. ~spoilt' /\ stops = 0 => active' = (desired \ (desired \ next)) \cup (next \ desired)
            BY <1>2, <2>1, <3>1, <3>2 DEF SessionInv, SubscriptionsFollow
        <3>5. (desired \ (desired \ next)) \cup (next \ desired) = next
            OBVIOUS
        <3> QED
            BY <1>1, <1>5, <2>1, <3>3, <3>4, <3>5 DEF Emptied, SubscriptionsFollow
    <2>2. CASE ~IsOpen(client, phase)
        BY <1>1, <1>5, <2>2 DEF SessionInv, Emptied, SubscriptionsFollow
    <2> QED
        BY <2>1, <2>2
<1> QED
    BY <1>1, <1>5, <1>6 DEF SessionInv

-----------------------------------------------------------------------------
LEMMA Typed ==
    ASSUME SessionInv
    PROVE  /\ SessionTypeOK /\ None \notin Slots /\ client \in ClientType
           /\ client.socket \in Slots \cup {None} /\ client.promise \in Slots \cup {None}
           /\ phase \in [Slots -> Phases] /\ settled \subseteq Slots /\ stops \in Nat
BY ClientAssumption DEF SessionInv, SessionTypeOK, ClientType

LEMMA ApprovedKeeps ==
    ASSUME SessionInv, NEW s \in Slots, Approved(s)
    PROVE  SessionInv'
<1>1. /\ phase[s] = "approval" /\ phase' = [phase EXCEPT ![s] = "opening"]
      /\ client' = [client EXCEPT !.socket = s]
      /\ UNCHANGED <<desired, active, settled, remote, spoilt, stops>>
    BY DEF Approved
<1>2. client' \in ClientType /\ client'.socket = s /\ client'.promise = client.promise
    BY <1>1, Typed DEF ClientType
<1>3. /\ phase' \in [Slots -> Phases] /\ phase'[s] = "opening"
      /\ \A t \in Slots : t # s => phase'[t] = phase[t]
    BY <1>1, Typed DEF Phases
<1>4. SessionTypeOK' /\ Unresolved'
    BY <1>1, <1>2, <1>3, Typed DEF SessionInv, SessionTypeOK, Unresolved
<1>5. s \notin settled /\ Coming'
    BY <1>1, <1>2, <1>3 DEF SessionInv, Unresolved, Coming, Aside
<1>6. Promised' /\ Awake'
    BY <1>5 DEF Promised, Awake
<1>7. ~IsOpen(client, phase)'
    BY <1>2, <1>3 DEF IsOpen
<1>8. ASSUME stops = 0
      PROVE  /\ Slots \ settled \subseteq {s} /\ client.promise = s /\ Live' = {s}
             /\ \A t \in Slots : phase'[t] # "approval"
             /\ ~IsOpen(client, phase)
    <2>1. Slots \ settled \subseteq {client.promise} /\ Live = {}
        BY <1>1, <1>8 DEF SessionInv, Orderly
    <2>2. client.promise = s
        BY <1>5, <2>1
    <2>3. \A t \in Slots : t # s => phase[t] # "approval"
        BY <2>1, <2>2 DEF SessionInv, Unresolved
    <2>4. ~IsOpen(client, phase)
        BY <2>1, Typed DEF Live, IsOpen
    <2> QED
        BY <1>3, <2>1, <2>2, <2>3, <2>4 DEF Live
<1>9. Orderly'
    BY <1>1, <1>2, <1>8 DEF Orderly
<1>10. Emptied' /\ SubscriptionsFollow'
    BY <1>1, <1>7, <1>8 DEF SessionInv, Emptied, SubscriptionsFollow
<1> QED
    BY <1>4, <1>6, <1>9, <1>10 DEF SessionInv

LEMMA ConnectFailsKeeps ==
    ASSUME SessionInv, NEW s \in Slots, ConnectFails(s)
    PROVE  SessionInv'
<1>1. /\ phase[s] = "approval" /\ phase' = [phase EXCEPT ![s] = "closed"]
      /\ settled' = settled \cup {s} /\ client' = Failed(client, desired)
      /\ UNCHANGED <<desired, active, remote, spoilt, stops>>
    BY DEF ConnectFails
<1>2. /\ client' \in ClientType /\ client'.socket = client.socket /\ client'.promise = None
      /\ Wants(client', desired) => client'.timer
    BY <1>1, FailedIs, Typed
<1>3. /\ phase' \in [Slots -> Phases] /\ phase'[s] = "closed"
      /\ \A t \in Slots : t # s => phase'[t] = phase[t]
    BY <1>1, Typed DEF Phases
<1>4. SessionTypeOK' /\ Unresolved' /\ Promised' /\ Awake'
    BY <1>1, <1>2, <1>3, Typed DEF SessionInv, SessionTypeOK, Unresolved, Promised, Awake
<1>5. Live' = Live
    BY <1>1, <1>3 DEF Live
<1>6. Orderly'
    <2> SUFFICES ASSUME stops = 0
                 PROVE  /\ Slots \ settled' = {} /\ Live' \subseteq {client'.socket}
                        /\ \A t \in Slots : phase'[t] = "approval" => Live' = {}
        BY <1>1 DEF Orderly
    <2>1. Slots \ settled \subseteq {client.promise} /\ Live = {}
        BY <1>1 DEF SessionInv, Orderly
    <2>2. s \notin settled
        BY <1>1 DEF SessionInv, Unresolved
    <2> QED
        BY <1>1, <1>5, <2>1, <2>2
<1>7. IsOpen(client, phase)' <=> IsOpen(client, phase)
    BY <1>1, <1>2, <1>3, Typed DEF IsOpen
<1> QED
    BY <1>1, <1>4, <1>6, <1>7 DEF SessionInv, Emptied, SubscriptionsFollow

LEMMA OpenedKeeps ==
    ASSUME SessionInv, NEW s \in Slots, Opened(s)
    PROVE  SessionInv'
<1>1. /\ phase[s] = "opening" /\ phase' = [phase EXCEPT ![s] = "open"]
      /\ settled' = settled \cup {s} /\ UNCHANGED <<desired, stops>>
    BY DEF Opened
<1>2. s \notin settled
    BY <1>1 DEF SessionInv, Unresolved
<1>3. /\ phase' \in [Slots -> Phases] /\ phase'[s] = "open"
      /\ \A t \in Slots : t # s => phase'[t] = phase[t]
    BY <1>1, Typed DEF Phases
<1>4. Live' = Live /\ s \in Live
    BY <1>1, <1>3 DEF Live
<1>5. ASSUME stops = 0
      PROVE  /\ Slots \ settled' = {} /\ client.socket = s /\ Live = {s}
             /\ \A t \in Slots : phase'[t] # "approval"
             /\ active = {}
    <2>1. Slots \ settled \subseteq {client.promise} /\ Live \subseteq {client.socket}
          /\ \A t \in Slots : phase[t] = "approval" => Live = {}
        BY <1>5 DEF SessionInv, Orderly
    <2>2. ~IsOpen(client, phase)
        BY <1>1, <1>4, <2>1 DEF IsOpen
    <2> QED
        BY <1>1, <1>2, <1>3, <1>4, <1>5, <2>1, <2>2 DEF SessionInv, Emptied
<1>6. CASE s = client.socket
    <2> DEFINE c == [client EXCEPT !.established = FALSE]
    <2>1. PICK sent \in SUBSET desired :
             /\ client' = Finished(c) /\ active' = active \cup sent
             /\ remote' = sent /\ spoilt' = (sent # desired)
        BY <1>6 DEF Opened
    <2>2. c \in ClientType /\ c.socket = s
        BY <1>6, Typed DEF ClientType
    <2> HIDE DEF c
    <2>3. client' \in ClientType /\ client'.socket = s /\ client'.promise = None
        BY <2>1, <2>2, FinishedIs
    <2>4. InPlace'
        BY <1>3, <2>3, Typed DEF InPlace
    <2>5. SessionTypeOK' /\ Unresolved' /\ Promised' /\ Awake'
        BY <1>1, <1>3, <2>3, <2>4, Typed DEF SessionInv, SessionTypeOK, Unresolved, Promised, Awake
    <2>6. Orderly'
        BY <1>1, <1>4, <1>5, <2>3 DEF Orderly
    <2>7. IsOpen(client, phase)'
        BY <1>3, <2>3, Typed DEF IsOpen
    <2>8. Emptied' /\ SubscriptionsFollow'
        BY <1>1, <1>5, <2>1, <2>7 DEF Emptied, SubscriptionsFollow
    <2> QED
        BY <2>5, <2>6, <2>8 DEF SessionInv
<1>7. CASE s # client.socket
    <2>1. client' = Finished(client) /\ UNCHANGED <<active, remote, spoilt>>
        BY <1>7 DEF Opened
    <2>2. /\ client' \in ClientType /\ client'.socket = client.socket /\ client'.promise = None
          /\ client'.timer = client.timer
          /\ Wants(client', desired) <=> Wants(client, desired)
        BY <2>1, FinishedIs, Typed
    <2>3. SessionTypeOK' /\ Unresolved' /\ Promised'
        BY <1>1, <1>3, <2>2, Typed DEF SessionInv, SessionTypeOK, Unresolved, Promised
    <2>4. Coming => Coming'
        BY <1>1, <1>3, <1>7, <2>2 DEF Coming, Aside
    <2>5. InPlace => InPlace'
        BY <1>1, <1>3, <1>7, <2>2, Typed DEF InPlace
    <2>6. Awake'
        BY <1>1, <2>2, <2>4, <2>5 DEF SessionInv, Awake
    <2>7. Orderly'
        BY <1>1, <1>5, <1>7 DEF Orderly
    <2>8. IsOpen(client, phase)' <=> IsOpen(client, phase)
        BY <1>3, <1>7, <2>2, Typed DEF IsOpen
    <2>9. Emptied' /\ SubscriptionsFollow'
        BY <1>1, <2>1, <2>8 DEF SessionInv, Emptied, SubscriptionsFollow
    <2> QED
        BY <2>3, <2>6, <2>7, <2>9 DEF SessionInv
<1> QED
    BY <1>6, <1>7

LEMMA OpenTimeoutKeeps ==
    ASSUME SessionInv, NEW s \in Slots, OpenTimeout(s)
    PROVE  SessionInv'
<1>1. /\ s \notin settled /\ phase[s] \in {"opening", "closing", "closed"}
      /\ phase' = Closing(phase, s)
      /\ settled' = settled \cup {s} /\ client' = Failed(client, desired)
      /\ UNCHANGED <<desired, active, remote, spoilt, stops>>
    BY DEF OpenTimeout
<1>2. /\ client' \in ClientType /\ client'.socket = client.socket /\ client'.promise = None
      /\ Wants(client', desired) => client'.timer
    BY <1>1, FailedIs, Typed
<1>3. /\ phase' \in [Slots -> Phases] /\ phase'[s] \in {"closing", "closed"}
      /\ \A t \in Slots : t # s => phase'[t] = phase[t]
    BY <1>1, ClosingIs, Typed
<1>4. SessionTypeOK' /\ Unresolved' /\ Promised' /\ Awake'
    BY <1>1, <1>2, <1>3, Typed DEF SessionInv, SessionTypeOK, Unresolved, Promised, Awake
<1>5. Live' \subseteq Live
    BY <1>3 DEF Live
<1>6. Orderly'
    <2> SUFFICES ASSUME stops = 0
                 PROVE  /\ Slots \ settled' = {} /\ Live' \subseteq {client'.socket}
                        /\ \A t \in Slots : phase'[t] # "approval"
        BY <1>1 DEF Orderly
    <2>1. Slots \ settled \subseteq {client.promise} /\ Live \subseteq {client.socket}
        BY DEF SessionInv, Orderly
    <2>2. Slots \ settled' = {}
        BY <1>1, <2>1
    <2> QED
        BY <1>2, <1>4, <1>5, <2>1, <2>2 DEF Unresolved
<1>7. IsOpen(client, phase)' <=> IsOpen(client, phase)
    BY <1>1, <1>2, <1>3, Typed DEF IsOpen
<1> QED
    BY <1>1, <1>4, <1>6, <1>7 DEF SessionInv, Emptied, SubscriptionsFollow

LEMMA ClosedKeeps ==
    ASSUME SessionInv, NEW s \in Slots, Closed(s)
    PROVE  SessionInv'
<1>1. /\ phase[s] \in {"opening", "open", "closing"} /\ phase' = [phase EXCEPT ![s] = "closed"]
      /\ UNCHANGED <<desired, remote, spoilt, stops>>
    BY DEF Closed
<1>2. /\ phase' \in [Slots -> Phases] /\ phase'[s] = "closed"
      /\ \A t \in Slots : t # s => phase'[t] = phase[t]
    BY <1>1, Typed DEF Phases
<1>3. Live' \subseteq Live \ {s}
    BY <1>2 DEF Live
<1>4. CASE s = client.socket
    <2> DEFINE c == [client EXCEPT !.socket = None]
    <2>1. /\ client' = IF s \in settled THEN Scheduled(c, desired) ELSE Failed(c, desired)
          /\ active' = {} /\ settled' = settled \cup {s}
        BY <1>4 DEF Closed, ClosedCurrent
    <2>2. c \in ClientType /\ c.socket = None /\ c.promise = client.promise
        BY Typed DEF ClientType
    <2> HIDE DEF c
    <2>3. /\ client' \in ClientType /\ client'.socket = None
          /\ client'.promise = IF s \in settled THEN client.promise ELSE None
          /\ Wants(client', desired) => client'.timer
        BY <2>1, <2>2, ScheduledIs, FailedIs
    <2>4. SessionTypeOK' /\ Unresolved' /\ Awake'
        BY <1>1, <1>2, <2>1, <2>3, Typed DEF SessionInv, SessionTypeOK, Unresolved, Awake
    <2>5. Promised'
        <3>1. CASE s \in settled
            <4>1. settled' = settled
                BY <2>1, <3>1
            <4>2. \A t \in Slots \ settled : ~Aside(t) => t # s /\ phase[t] # "opening"
                BY <1>4, <3>1 DEF Aside
            <4>3. Coming => Coming'
                BY <1>2, <4>1, <4>2 DEF Coming, Aside
            <4> QED
                BY <2>3, <3>1, <4>3 DEF SessionInv, Promised
        <3>2. CASE s \notin settled
            BY <2>3, <3>2 DEF Promised
        <3> QED
            BY <3>1, <3>2
    <2>6. Orderly'
        <3> SUFFICES ASSUME stops = 0
                     PROVE  Slots \ settled' \subseteq {client'.promise} /\ Live' = {}
            BY <1>1 DEF Orderly
        <3>1. Slots \ settled \subseteq {client.promise} /\ Live \subseteq {s}
            BY <1>4 DEF SessionInv, Orderly
        <3> QED
            BY <1>3, <2>1, <2>3, <3>1
    <2>7. ~IsOpen(client, phase)'
        BY <2>3 DEF IsOpen
    <2> QED
        BY <2>1, <2>4, <2>5, <2>6, <2>7 DEF SessionInv, Emptied, SubscriptionsFollow
<1>5. CASE s # client.socket
    <2>1. UNCHANGED <<client, active, settled>>
        BY <1>5 DEF Closed, ClosedCurrent
    <2>2. SessionTypeOK' /\ Unresolved'
        BY <1>1, <1>2, <2>1, Typed DEF SessionInv, SessionTypeOK, Unresolved
    <2>3. (Coming => Coming') /\ (InPlace => InPlace')
        BY <1>2, <1>5, <2>1, Typed DEF Coming, Aside, InPlace
    <2>4. Promised' /\ Awake'
        BY <1>1, <2>1, <2>3 DEF SessionInv, Promised, Awake
    <2>5. Orderly'
        BY <1>1, <1>2, <1>3, <2>1 DEF SessionInv, Orderly
    <2>6. IsOpen(client, phase)' <=> IsOpen(client, phase)
        BY <1>2, <1>5, <2>1, Typed DEF IsOpen
    <2> QED
        BY <1>1, <2>1, <2>2, <2>4, <2>5, <2>6 DEF SessionInv, Emptied, SubscriptionsFollow
<1> QED
    BY <1>4, <1>5

LEMMA ConfirmedKeeps ==
    ASSUME SessionInv, NEW s \in Slots, Confirmed(s)
    PROVE  SessionInv'
<1>1. /\ client' = [client EXCEPT !.established = TRUE, !.attempt = 0]
      /\ UNCHANGED <<desired, active, phase, settled, remote, spoilt, stops>>
    BY DEF Confirmed
<1>2. /\ client' \in ClientType /\ client'.socket = client.socket
      /\ client'.promise = client.promise /\ client'.timer = client.timer
      /\ client'.started = client.started /\ client'.blocked = client.blocked
    BY <1>1, Typed DEF ClientType
<1>3. SessionTypeOK' /\ Unresolved' /\ Orderly'
    BY <1>1, <1>2, Typed DEF SessionInv, SessionTypeOK, Unresolved, Orderly, Live
<1>4. (Coming' <=> Coming) /\ (InPlace' <=> InPlace)
      /\ (IsOpen(client, phase)' <=> IsOpen(client, phase))
      /\ (Wants(client, desired)' <=> Wants(client, desired))
    BY <1>1, <1>2 DEF Coming, Aside, InPlace, IsOpen, Wants
<1> QED
    BY <1>1, <1>2, <1>3, <1>4 DEF SessionInv, Promised, Awake, Emptied, SubscriptionsFollow

LEMMA RefusedKeeps ==
    ASSUME SessionInv, NEW s \in Slots, Refused(s)
    PROVE  SessionInv'
<1>1. spoilt' = TRUE /\ UNCHANGED <<client, desired, active, phase, settled, stops>>
    BY DEF Refused
<1>2. SessionTypeOK' /\ Unresolved' /\ Promised' /\ Awake' /\ Orderly' /\ Emptied'
    BY <1>1 DEF SessionInv, SessionTypeOK, Unresolved, Promised, Awake, Orderly, Emptied, Coming,
                Aside, InPlace, Live, IsOpen, Wants
<1> QED
    BY <1>1, <1>2 DEF SessionInv, SubscriptionsFollow

LEMMA AppKeyInUseKeeps ==
    ASSUME SessionInv, NEW s \in Slots, AppKeyInUse(s)
    PROVE  SessionInv'
<1>1. /\ client' = [client EXCEPT !.blocked = TRUE, !.timer = FALSE, !.socket = None,
                                   !.established = FALSE]
      /\ active' = {} /\ phase' = Closing(phase, client.socket)
      /\ UNCHANGED <<desired, settled, remote, spoilt, stops>>
    BY DEF AppKeyInUse
<1>2. /\ client' \in ClientType /\ client'.socket = None /\ client'.promise = client.promise
      /\ client'.blocked
    BY <1>1, Typed DEF ClientType
<1>3. /\ phase' \in [Slots -> Phases]
      /\ \A t \in Slots : t # client.socket => phase'[t] = phase[t]
      /\ client.socket \in Slots => phase'[client.socket] =
           IF phase[client.socket] \in {"opening", "open"} THEN "closing" ELSE phase[client.socket]
    BY <1>1, ClosingIs, Typed
<1>4. SessionTypeOK' /\ Unresolved' /\ Awake'
    BY <1>1, <1>2, <1>3, Typed DEF SessionInv, SessionTypeOK, Unresolved, Awake, Wants
<1>5. Coming => Coming'
    BY <1>1, <1>2, <1>3, Typed DEF Coming, Aside
<1>6. Promised'
    BY <1>2, <1>5 DEF SessionInv, Promised
<1>7. Orderly'
    <2> SUFFICES ASSUME stops = 0
                 PROVE  Slots \ settled' \subseteq {client'.promise} /\ Live' = {}
        BY <1>1 DEF Orderly
    <2>1. Slots \ settled \subseteq {client.promise} /\ Live \subseteq {client.socket}
        BY DEF SessionInv, Orderly
    <2> QED
        BY <1>1, <1>2, <1>3, <2>1 DEF Live
<1>8. ~IsOpen(client, phase)'
    BY <1>2 DEF IsOpen
<1> QED
    BY <1>1, <1>4, <1>6, <1>7, <1>8 DEF SessionInv, Emptied, SubscriptionsFollow

LEMMA StopKeeps ==
    ASSUME SessionInv, Stop
    PROVE  SessionInv'
<1>1. /\ client' = [client EXCEPT !.started = FALSE, !.blocked = FALSE, !.established = FALSE,
                                   !.timer = FALSE, !.socket = None, !.promise = None]
      /\ active' = {} /\ phase' = Closing(phase, client.socket) /\ stops' = stops + 1
      /\ UNCHANGED <<desired, settled, remote, spoilt>>
    BY DEF Stop
<1>2. client' \in ClientType /\ client'.socket = None /\ client'.promise = None /\ ~client'.started
    BY <1>1, Typed DEF ClientType
<1>3. /\ phase' \in [Slots -> Phases]
      /\ \A t \in Slots : t # client.socket => phase'[t] = phase[t]
      /\ client.socket \in Slots => phase'[client.socket] =
           IF phase[client.socket] \in {"opening", "open"} THEN "closing" ELSE phase[client.socket]
    BY <1>1, ClosingIs, Typed
<1>4. SessionTypeOK' /\ Unresolved' /\ Awake' /\ Promised'
    BY <1>1, <1>2, <1>3, Typed DEF SessionInv, SessionTypeOK, Unresolved, Awake, Wants, Promised
<1>5. stops' # 0 /\ ~IsOpen(client, phase)'
    BY <1>1, <1>2, Typed DEF IsOpen
<1> QED
    BY <1>4, <1>5 DEF SessionInv, Orderly, Emptied, SubscriptionsFollow

(* clearBlock and the timer of scheduleReconnect. *)
LEMMA ReconnectKeeps ==
    ASSUME SessionInv, ClearBlock \/ TimerFires
    PROVE  SessionInv'
<1>1. UNCHANGED <<desired, active, remote, spoilt, stops>>
    BY DEF ClearBlock, TimerFires
<1>2. PICK c \in ClientType : /\ c.socket = client.socket /\ c.promise = client.promise
                              /\ EnsureConnected(c, desired, phase, settled)
    <2>1. CASE ClearBlock
        <3> DEFINE c == [client EXCEPT !.blocked = FALSE, !.attempt = 0]
        <3>1. c \in ClientType /\ c.socket = client.socket /\ c.promise = client.promise
            BY Typed DEF ClientType
        <3>2. EnsureConnected(c, desired, phase, settled)
            BY <2>1 DEF ClearBlock
        <3> HIDE DEF c
        <3> QED
            BY <3>1, <3>2
    <2>2. CASE TimerFires
        <3> DEFINE c == [client EXCEPT !.timer = FALSE]
        <3>1. c \in ClientType /\ c.socket = client.socket /\ c.promise = client.promise
            BY Typed DEF ClientType
        <3>2. EnsureConnected(c, desired, phase, settled)
            BY <2>2 DEF TimerFires
        <3> HIDE DEF c
        <3> QED
            BY <3>1, <3>2
    <2> QED
        BY <2>1, <2>2
<1>3. EnsureConnected(c, desired', phase, settled) /\ stops' = stops
    BY <1>1, <1>2
<1>4. /\ SessionTypeOK' /\ Unresolved' /\ Promised' /\ Awake' /\ Orderly'
      /\ IsOpen(client, phase)' <=> IsOpen(client, phase)
    BY <1>2, <1>3, EnsureKeeps
<1> QED
    BY <1>1, <1>4 DEF SessionInv, Emptied, SubscriptionsFollow

-----------------------------------------------------------------------------
(* What sync keeps of the merged lists.                                         *)
Firsts(all) == {i \in DOMAIN all : \A j \in 1..(i - 1) : all[j] # all[i]}

(* A set of positions has a first one.                                          *)
LEMMA LeastPosition ==
    ASSUME NEW T \in SUBSET Nat, T # {}
    PROVE  \E x \in T : \A y \in T : x <= y
<1>1. PICK x \in T : \A y \in T : ~(<<y, x>> \in OpToRel(<, Nat))
    BY NatLessThanWellFounded, WFMin, Zenon
<1>2. \A y \in T : ~(y < x)
    BY <1>1 DEF OpToRel
<1> QED
    BY <1>2

LEMMA FirstOf ==
    ASSUME NEW all \in Seq(Items), NEW k \in DOMAIN all
    PROVE  \E f \in Firsts(all) : f <= k /\ all[f] = all[k]
<1> DEFINE T == {i \in DOMAIN all : all[i] = all[k]}
<1>1. T \in SUBSET Nat /\ k \in T
    OBVIOUS
<1>2. PICK f \in T : \A y \in T : f <= y
    BY <1>1, LeastPosition
<1>3. \A j \in 1..(f - 1) : all[j] # all[f]
    BY <1>1, <1>2
<1> QED
    BY <1>1, <1>2, <1>3 DEF Firsts

LEMMA SeqImageFinite ==
    ASSUME NEW q \in Seq(Items)
    PROVE  IsFiniteSet({q[i] : i \in DOMAIN q})
<1> DEFINE T == {q[i] : i \in DOMAIN q}
<1>1. q \in Surjection(DOMAIN q, T)
    BY DEF Surjection
<1>2. IsFiniteSet(DOMAIN q)
    BY FS_Interval
<1> QED
    BY <1>1, <1>2, FS_Surjection

(* The first of each symbol among the first n positions is one of at most as    *)
(* many as there are symbols there.                                             *)
LEMMA FirstsCounted ==
    ASSUME NEW all \in Seq(Items), NEW f \in Firsts(all), NEW T, IsFiniteSet(T),
           \A e \in Firsts(all) : e <= f => all[e] \in T
    PROVE  Cardinality({e \in Firsts(all) : e <= f}) <= Cardinality(T)
<1> DEFINE S == {e \in Firsts(all) : e <= f}
           F == [e \in S |-> all[e]]
<1>1. F \in [S -> T]
    OBVIOUS
<1>2. \A d, e \in S : d < e => F[d] # F[e]
    BY DEF Firsts
<1>3. S \subseteq Nat
    BY DEF Firsts
<1>4. \A d, e \in S : F[d] = F[e] => d = e
    BY <1>2, <1>3
<1>5. F \in Injection(S, T)
    BY <1>1, <1>4 DEF Injection, IsInjective
<1> QED
    BY <1>5, FS_Injection

GroupsOK == groups \in [Views -> Seq(Items)]

Merges == Merged(groups) \cap Malformed = {} => desired = Merged(groups)

LEMMA HeldMerged ==
    ASSUME GroupsOK, Cardinality(Main \cup Held) <= MaxSymbols
    PROVE  Held \subseteq Merged(groups)
<1> DEFINE a == groups["main-workspace"]
           h == groups["held-positions"]
           r == groups["recommendations"]
           all == ByPriority(groups)
<1>1. a \in Seq(Items) /\ h \in Seq(Items) /\ r \in Seq(Items)
    BY DEF GroupsOK, Views
<1>2. /\ Main = {a[i] : i \in DOMAIN a} /\ Held = {h[i] : i \in DOMAIN h}
      /\ all = (a \o h) \o r
    BY DEF Main, Held, ByPriority
<1>3. IsFiniteSet(Main \cup Held) /\ Cardinality(Main \cup Held) \in Nat
    BY <1>1, <1>2, SeqImageFinite, FS_Union, FS_CardinalityType
<1>4. Merged(groups) =
        {all[i] : i \in {f \in Firsts(all) : Cardinality({e \in Firsts(all) : e <= f}) <= MaxSymbols}}
    BY DEF Merged, Firsts
<1> HIDE DEF a, h, r, all
<1>5. /\ all \in Seq(Items) /\ Len(a) \in Nat /\ Len(h) \in Nat /\ Len(r) \in Nat
      /\ Len(all) = Len(a) + Len(h) + Len(r)
      /\ \A i \in 1..Len(a) : all[i] = a[i]
      /\ \A i \in 1..Len(h) : all[Len(a) + i] = h[i]
    BY <1>1, <1>2
<1>6. \A e \in 1..(Len(a) + Len(h)) : all[e] \in Main \cup Held
    <2> SUFFICES ASSUME NEW e \in 1..(Len(a) + Len(h))
                 PROVE  all[e] \in Main \cup Held
        OBVIOUS
    <2>1. CASE e <= Len(a)
        BY <1>1, <1>2, <1>5, <2>1
    <2>2. CASE e > Len(a)
        <3>1. e - Len(a) \in 1..Len(h) /\ e = Len(a) + (e - Len(a))
            BY <1>5, <2>2
        <3>2. all[e] = h[e - Len(a)]
            BY <1>5, <3>1
        <3> QED
            BY <1>1, <1>2, <3>1, <3>2
    <2> QED
        BY <1>5, <2>1, <2>2
<1> SUFFICES ASSUME NEW i \in 1..Len(h)
             PROVE  h[i] \in Merged(groups)
    BY <1>1, <1>2
<1>7. Len(a) + i \in DOMAIN all /\ all[Len(a) + i] = h[i]
    BY <1>5
<1>8. PICK f \in Firsts(all) : f <= Len(a) + i /\ all[f] = h[i]
    BY <1>5, <1>7, FirstOf
<1>9. ASSUME NEW e \in Firsts(all), e <= f
      PROVE  all[e] \in Main \cup Held
    <2>1. e \in Nat /\ f \in Nat /\ e >= 1
        BY <1>5 DEF Firsts
    <2> QED
        BY <1>5, <1>6, <1>8, <1>9, <2>1
<1>10. Cardinality({e \in Firsts(all) : e <= f}) <= Cardinality(Main \cup Held)
    BY <1>3, <1>5, <1>9, FirstsCounted
<1>11. /\ IsFiniteSet({e \in Firsts(all) : e <= f})
       /\ Cardinality({e \in Firsts(all) : e <= f}) \in Nat
    <2>1. {e \in Firsts(all) : e <= f} \in SUBSET (1..Len(all)) /\ IsFiniteSet(1..Len(all))
        BY <1>5, FS_Interval DEF Firsts
    <2> QED
        BY <2>1, FS_Subset, FS_CardinalityType
<1>12. Cardinality({e \in Firsts(all) : e <= f}) <= MaxSymbols
    BY <1>3, <1>10, <1>11, CoordinatorAssumption
<1> QED
    BY <1>4, <1>8, <1>12

-----------------------------------------------------------------------------
CoordinatorInv == SessionInv /\ GroupsOK /\ Merges

LEMMA CoordinatorInitKeeps == CoordinatorInit => CoordinatorInv
<1> SUFFICES ASSUME CoordinatorInit
             PROVE  CoordinatorInv
    OBVIOUS
<1>1. /\ client = [started |-> FALSE, socket |-> None, promise |-> None, timer |-> FALSE,
                   attempt |-> 0, established |-> FALSE, blocked |-> FALSE]
      /\ desired = {} /\ active = {} /\ phase = [s \in Slots |-> "free"] /\ settled = Slots
      /\ stops = 0 /\ groups = [v \in Views |-> <<>>]
    BY DEF CoordinatorInit, Init
<1>2. SessionTypeOK
    BY <1>1 DEF SessionTypeOK, ClientType, Phases
<1>3. Unresolved /\ Promised /\ Awake /\ Orderly /\ Emptied /\ SubscriptionsFollow
    BY <1>1 DEF Unresolved, Promised, Awake, Wants, Orderly, Live, Emptied, SubscriptionsFollow, IsOpen
<1>4. GroupsOK
    BY <1>1 DEF GroupsOK
<1>5. Merged(groups) = {}
    <2>1. ByPriority(groups) = <<>>
        BY <1>1 DEF ByPriority, Views
    <2> QED
        BY <2>1 DEF Merged
<1> QED
    BY <1>1, <1>2, <1>3, <1>4, <1>5 DEF CoordinatorInv, SessionInv, Merges

LEMMA SocketStepKeeps ==
    ASSUME SessionInv, SocketStep
    PROVE  SessionInv' /\ desired' = desired
<1>1. ASSUME NEW s \in Slots, Approved(s) \/ ConnectFails(s) \/ Opened(s) \/ OpenTimeout(s)
      PROVE  SessionInv' /\ desired' = desired
    <2>1. SessionInv'
        BY <1>1, ApprovedKeeps, ConnectFailsKeeps, OpenedKeeps, OpenTimeoutKeeps
    <2>2. desired' = desired
        BY <1>1 DEF Approved, ConnectFails, Opened, OpenTimeout
    <2> QED
        BY <2>1, <2>2
<1>2. ASSUME NEW s \in Slots, Closed(s) \/ Confirmed(s) \/ Refused(s) \/ AppKeyInUse(s)
      PROVE  SessionInv' /\ desired' = desired
    <2>1. SessionInv'
        BY <1>2, ClosedKeeps, ConfirmedKeeps, RefusedKeeps, AppKeyInUseKeeps
    <2>2. desired' = desired
        BY <1>2 DEF Closed, Confirmed, Refused, AppKeyInUse
    <2> QED
        BY <2>1, <2>2
<1>3. CASE ClearBlock \/ TimerFires
    <2>1. SessionInv'
        BY <1>3, ReconnectKeeps
    <2>2. desired' = desired
        BY <1>3 DEF ClearBlock, TimerFires
    <2> QED
        BY <2>1, <2>2
<1>4. CASE Stop
    <2>1. SessionInv'
        BY <1>4, StopKeeps
    <2> QED
        BY <1>4, <2>1 DEF Stop
<1> QED
    BY <1>1, <1>2, <1>3, <1>4 DEF SocketStep

LEMMA SetGroupKeeps ==
    ASSUME CoordinatorInv, NEW view \in Views, SetGroup(view)
    PROVE  CoordinatorInv'
<1>1. PICK list \in Lists[view] : groups' = [groups EXCEPT ![view] = list]
    BY DEF SetGroup
<1>2. list \in Seq(Items)
    BY <1>1, CoordinatorAssumption
<1>3. GroupsOK'
    BY <1>1, <1>2 DEF CoordinatorInv, GroupsOK
<1>4. CASE Merged(groups') \cap Malformed = {}
    <2>1. WatchSymbols(Merged(groups')) /\ SessionInv
        BY <1>4 DEF SetGroup, CoordinatorInv
    <2>2. SessionInv' /\ desired' = Merged(groups')
        BY <2>1, WatchKeeps
    <2> QED
        BY <1>3, <2>2 DEF CoordinatorInv, Merges
<1>5. CASE Merged(groups') \cap Malformed # {}
    <2>1. UNCHANGED clientVars
        BY <1>5 DEF SetGroup
    <2>2. SessionInv'
        BY <2>1 DEF clientVars, CoordinatorInv, SessionInv, SessionTypeOK, Unresolved, Promised, Awake,
                    Orderly, Emptied, Coming, Aside, InPlace, Live, IsOpen, Wants, SubscriptionsFollow
    <2> QED
        BY <1>3, <1>5, <2>2 DEF CoordinatorInv, Merges
<1> QED
    BY <1>4, <1>5

LEMMA ListsKept ==
    ASSUME CoordinatorInv, groups' = groups, desired' = desired
    PROVE  GroupsOK' /\ Merges'
<1>1. GroupsOK'
    BY DEF CoordinatorInv, GroupsOK
<1>2. Merges'
    BY DEF CoordinatorInv, Merges
<1> QED
    BY <1>1, <1>2

LEMMA CoordinatorNextKeeps == CoordinatorInv /\ [CoordinatorNext]_vars => CoordinatorInv'
<1> SUFFICES ASSUME CoordinatorInv, [CoordinatorNext]_vars
             PROVE  CoordinatorInv'
    OBVIOUS
<1>1. ASSUME NEW v \in Views, SetGroup(v)
      PROVE  CoordinatorInv'
    BY <1>1, SetGroupKeeps
<1>2. CASE SocketStep /\ UNCHANGED groups
    <2>1. SessionInv' /\ desired' = desired
        BY <1>2, SocketStepKeeps DEF CoordinatorInv
    <2> QED
        BY <1>2, <2>1, ListsKept DEF CoordinatorInv
<1>3. CASE UNCHANGED vars
    <2>1. UNCHANGED clientVars /\ groups' = groups /\ desired' = desired
        BY <1>3 DEF vars, clientVars
    <2>2. SessionInv'
        BY <2>1 DEF clientVars, CoordinatorInv, SessionInv, SessionTypeOK, Unresolved, Promised, Awake,
                    Orderly, Emptied, Coming, Aside, InPlace, Live, IsOpen, Wants, SubscriptionsFollow
    <2> QED
        BY <2>1, <2>2, ListsKept DEF CoordinatorInv
<1> QED
    BY <1>1, <1>2, <1>3 DEF CoordinatorNext

(* For any number of connects and stops: a connect() that can end quietly is    *)
(* never the only one, before any stop one promise and one socket stand for all *)
(* of them, and the client wants what the lists merge to                        *)
(* (kisRealtimeMarketDataClient.js, kisRealtimeSubscriptionCoordinator.js).     *)
THEOREM SessionInvariant == Spec => []CoordinatorInv
BY CoordinatorInitKeeps, CoordinatorNextKeeps, PTL DEF Spec

(* One session as long as nobody calls stop, subscribed to what is wanted; after *)
(* any stops and starts a client that wants something has a wake-up ahead       *)
(* (connectPromise, scheduleReconnect, the events of the socket).               *)
THEOREM Session == Spec => []SessionKept
<1>1. CoordinatorInv => SessionKept
    <2> SUFFICES ASSUME CoordinatorInv
                 PROVE  SessionKept
        OBVIOUS
    <2>1. SessionInv
        BY DEF CoordinatorInv
    <2>2. OneSession
        <3> SUFFICES ASSUME stops = 0
                     PROVE  Cardinality(Live) <= 1
            BY DEF OneSession
        <3>1. Live \in SUBSET {client.socket}
            BY <2>1 DEF SessionInv, Orderly
        <3>2. IsFiniteSet({client.socket}) /\ Cardinality({client.socket}) = 1
            BY FS_Singleton
        <3> QED
            BY <3>1, <3>2, FS_Subset
    <2>3. NeverStranded
        BY <2>1 DEF SessionInv, Awake, Coming, InPlace, NeverStranded
    <2> QED
        BY <2>1, <2>2, <2>3 DEF SessionInv, SessionKept
<1> QED
    BY <1>1, SessionInvariant, PTL

(* The positions held are wanted whenever they fit beside the main screen,      *)
(* whatever the lists and the limit (sync of the coordinator, app.js).          *)
THEOREM HeldFirst == Spec => []HeldWatched
<1>1. CoordinatorInv => HeldWatched
    BY HeldMerged DEF CoordinatorInv, Merges, HeldWatched
<1> QED
    BY <1>1, SessionInvariant, PTL
================================================================================
