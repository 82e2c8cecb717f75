------------------------- MODULE MarketScreen_proofs -------------------------
(* The data client for any number of callers and any spacing, the scanner for   *)
(* any stocks, the manual orders of any number of users: the backlog of         *)
(* requests is bounded, ENTRY_READY is what the value now held says, the        *)
(* history a user's answer comes with was read after his order was accepted.    *)
EXTENDS MCMarketScreen, FiniteSetTheorems, TLAPS

(* The slots taken ahead and not yet slept through are those of callers that    *)
(* have stopped to wait: within t ticks come the slots of those who still       *)
(* sleep longer than that, or do not wait, one each.                            *)
NotDueIn(t) == {c \in Callers : ~(call[c].at = "waiting" /\ call[c].left <= t)}

Places == {"none", "waiting", "backoff", "token", "sent", "ok", "failed"}

Request == [at : Places, left : Nat, attempt : Nat, kind : {"json", "price", "bare"}]

RequestTypes == ahead \in Nat /\ call \in [Callers -> Request]

Spaced == \A t \in Nat : ahead <= t + Cardinality(NotDueIn(t)) * Interval

WaitsForOwnSlot == \A c \in Callers : call[c].at = "waiting" => call[c].left <= ahead

RequestsInv == RequestTypes /\ Spaced /\ WaitsForOwnSlot

-----------------------------------------------------------------------------
LEMMA Counted ==
    ASSUME NEW t
    PROVE  /\ IsFiniteSet(NotDueIn(t)) /\ Cardinality(NotDueIn(t)) \in Nat
           /\ Cardinality(NotDueIn(t)) <= Cardinality(Callers)
           /\ Cardinality(Callers) \in Nat
<1>1. NotDueIn(t) \subseteq Callers /\ IsFiniteSet(Callers)
    BY DataClientAssumption DEF NotDueIn
<1> QED
    BY <1>1, FS_Subset, FS_CardinalityType

LEMMA MoreSlots ==
    ASSUME NEW m \in Nat, NEW n \in Nat, m <= n
    PROVE  m * Interval \in Nat /\ n * Interval \in Nat /\ m * Interval <= n * Interval
           /\ (m + 1) * Interval = m * Interval + Interval
BY DataClientAssumption, SMT

(* What is true of a step that changes the request of c alone.                  *)
LEMMA OthersDue ==
    ASSUME RequestTypes, NEW c \in Callers, NEW r, call' = [call EXCEPT ![c] = r], NEW t \in Nat
    PROVE  /\ NotDueIn(t) \ {c} \subseteq NotDueIn(t)'
           /\ NotDueIn(t)' \subseteq NotDueIn(t) \cup {c}
           /\ c \in NotDueIn(t)' <=> ~(r.at = "waiting" /\ r.left <= t)
           /\ c \in NotDueIn(t) <=> ~(call[c].at = "waiting" /\ call[c].left <= t)
BY DEF RequestTypes, NotDueIn

(* A caller that is not, or no longer, due is one of those who are not.         *)
LEMMA NotFewer ==
    ASSUME NEW t, NEW S, S \subseteq NotDueIn(t)'
    PROVE  /\ Cardinality(NotDueIn(t)') \in Nat /\ Cardinality(S) \in Nat
           /\ Cardinality(S) <= Cardinality(NotDueIn(t)')
<1>1. NotDueIn(t)' \subseteq Callers /\ IsFiniteSet(Callers)
    BY DataClientAssumption DEF NotDueIn
<1>2. IsFiniteSet(NotDueIn(t)')
    BY <1>1, FS_Subset
<1> QED
    BY <1>2, FS_Subset, FS_CardinalityType

(* Nobody takes a slot, and nobody begins to wait but for one behind all taken. *)
LEMMA NoSlotTaken ==
    ASSUME RequestsInv, NEW c \in Callers, NEW r \in Request, call' = [call EXCEPT ![c] = r],
           ahead' = ahead, r.at = "waiting" => r.left = ahead
    PROVE  RequestsInv'
<1>1. RequestTypes'
    BY DEF RequestsInv, RequestTypes
<1>2. WaitsForOwnSlot'
    BY DEF RequestsInv, RequestTypes, WaitsForOwnSlot
<1>3. ASSUME NEW t \in Nat PROVE ahead' <= t + Cardinality(NotDueIn(t)') * Interval
    <2>1. /\ Cardinality(NotDueIn(t)') \in Nat /\ Cardinality(NotDueIn(t)') * Interval \in Nat
        BY NotFewer, MoreSlots
    <2>2. CASE ahead <= t
        BY <2>1, <2>2 DEF RequestsInv, RequestTypes
    <2>3. CASE ~(ahead <= t)
        <3>1. NotDueIn(t) \subseteq NotDueIn(t)'
            BY <2>3, OthersDue DEF RequestsInv, RequestTypes, Request
        <3>2. Cardinality(NotDueIn(t)) <= Cardinality(NotDueIn(t)')
            BY <3>1, NotFewer
        <3>3. Cardinality(NotDueIn(t)) * Interval <= Cardinality(NotDueIn(t)') * Interval
            BY <2>1, <3>2, Counted, MoreSlots
        <3>4. Cardinality(NotDueIn(t)) * Interval \in Nat
            BY Counted, MoreSlots
        <3> QED
            BY <2>1, <3>3, <3>4 DEF RequestsInv, RequestTypes, Spaced
    <2> QED
        BY <2>2, <2>3
<1> QED
    BY <1>1, <1>2, <1>3 DEF RequestsInv, Spaced

(* A caller that was due, or finds no slot taken, takes the next one.           *)
LEMMA SlotTaken ==
    ASSUME RequestsInv, NEW c \in Callers, NEW r \in Request, call' = [call EXCEPT ![c] = r],
           r.at # "waiting", ahead' = ahead + Interval,
           ahead = 0 \/ (call[c].at = "waiting" /\ call[c].left = 0)
    PROVE  RequestsInv'
<1>0. Interval \in Nat \ {0}
    BY DataClientAssumption
<1>1. RequestTypes'
    BY <1>0 DEF RequestsInv, RequestTypes
<1>2. WaitsForOwnSlot'
    BY <1>0 DEF RequestsInv, RequestTypes, WaitsForOwnSlot, Request
<1>3. ASSUME NEW t \in Nat PROVE ahead' <= t + Cardinality(NotDueIn(t)') * Interval
    <2>1. Cardinality(NotDueIn(t)') \in Nat /\ c \in NotDueIn(t)'
        BY NotFewer, OthersDue DEF RequestsInv
    <2>2. CASE ahead = 0
        <3>1. 1 <= Cardinality(NotDueIn(t)')
            <4>1. Cardinality({c}) = 1
                BY FS_Singleton
            <4> QED
                BY <2>1, <4>1, NotFewer
        <3>2. 0 * Interval + Interval <= Cardinality(NotDueIn(t)') * Interval
            BY <2>1, <3>1, MoreSlots
        <3> QED
            BY <1>0, <2>1, <2>2, <3>2, MoreSlots
    <2>3. CASE call[c].at = "waiting" /\ call[c].left = 0
        <3>1. c \notin NotDueIn(t) /\ NotDueIn(t) \cup {c} \subseteq NotDueIn(t)'
            <4>1. call[c].left <= t
                BY <2>3
            <4>2. c \notin NotDueIn(t)
                BY <2>3, <4>1 DEF NotDueIn
            <4>3. NotDueIn(t) \ {c} \subseteq NotDueIn(t)'
                BY OthersDue DEF RequestsInv
            <4> QED
                BY <2>1, <4>2, <4>3
        <3>2. Cardinality(NotDueIn(t) \cup {c}) = Cardinality(NotDueIn(t)) + 1
            BY <3>1, Counted, FS_AddElement
        <3>3. Cardinality(NotDueIn(t)) + 1 <= Cardinality(NotDueIn(t)')
            BY <3>1, <3>2, NotFewer
        <3>4. /\ Cardinality(NotDueIn(t)) \in Nat /\ Cardinality(NotDueIn(t)) + 1 \in Nat
            BY Counted
        <3>5. (Cardinality(NotDueIn(t)) + 1) * Interval <= Cardinality(NotDueIn(t)') * Interval
            BY <2>1, <3>3, <3>4, MoreSlots
        <3>6. /\ (Cardinality(NotDueIn(t)) + 1) * Interval = Cardinality(NotDueIn(t)) * Interval + Interval
              /\ Cardinality(NotDueIn(t)) * Interval \in Nat
              /\ Cardinality(NotDueIn(t)') * Interval \in Nat
            BY <2>1, <3>4, MoreSlots
        <3>7. ahead <= t + Cardinality(NotDueIn(t)) * Interval /\ ahead \in Nat
            BY DEF RequestsInv, RequestTypes, Spaced
        <3> QED
            BY <1>0, <3>5, <3>6, <3>7
    <2> QED
        BY <2>2, <2>3
<1> QED
    BY <1>1, <1>2, <1>3 DEF RequestsInv, Spaced

(* A retry waits behind every slot taken, and one interval at least.            *)
LEMMA RetryKeeps ==
    ASSUME RequestsInv, NEW c \in Callers, Retry(c)
    PROVE  RequestsInv'
<1> DEFINE next == Larger(ahead, Interval)
           r == [call[c] EXCEPT !.at = "waiting", !.left = next, !.attempt = @ + 1]
<1>0. /\ Interval \in Nat \ {0} /\ ahead \in Nat /\ next \in {ahead, Interval}
      /\ ahead <= next /\ Interval <= next
    BY DataClientAssumption DEF RequestsInv, RequestTypes, Larger
<1>1. ahead' = next /\ call' = [call EXCEPT ![c] = r] /\ call[c].at = "backoff"
    BY DEF Retry
<1> HIDE DEF next
<1>2. r \in Request /\ r.at = "waiting" /\ r.left = next
    <2> DEFINE n == call[c].attempt + 1
    <2>1. call[c] \in Request /\ next \in Nat
        BY <1>0 DEF RequestsInv, RequestTypes
    <2>2. n \in Nat /\ r = [call[c] EXCEPT !.at = "waiting", !.left = next, !.attempt = n]
        BY <2>1 DEF Request
    <2> HIDE DEF n
    <2> QED
        BY <2>1, <2>2 DEF Request, Places
<1> HIDE DEF r
<1>3. RequestTypes'
    BY <1>0, <1>1, <1>2 DEF RequestsInv, RequestTypes
<1>4. WaitsForOwnSlot'
    BY <1>0, <1>1, <1>2 DEF RequestsInv, RequestTypes, WaitsForOwnSlot, Request
<1>5. ASSUME NEW t \in Nat PROVE ahead' <= t + Cardinality(NotDueIn(t)') * Interval
    <2>1. Cardinality(NotDueIn(t)') \in Nat /\ Cardinality(NotDueIn(t)') * Interval \in Nat
        BY NotFewer, MoreSlots
    <2>2. CASE next <= t
        BY <1>0, <1>1, <2>1, <2>2
    <2>3. CASE ~(next <= t)
        <3>1. c \in NotDueIn(t)' /\ NotDueIn(t) \subseteq NotDueIn(t)'
            BY <1>1, <1>2, <2>3, OthersDue DEF RequestsInv
        <3>2. 1 <= Cardinality(NotDueIn(t)')
            <4>1. Cardinality({c}) = 1 /\ {c} \subseteq NotDueIn(t)'
                BY <3>1, FS_Singleton
            <4> QED
                BY <2>1, <4>1, NotFewer
        <3>3. 0 * Interval + Interval <= Cardinality(NotDueIn(t)') * Interval
            BY <2>1, <3>2, MoreSlots
        <3>4. Cardinality(NotDueIn(t)) <= Cardinality(NotDueIn(t)')
            BY <3>1, NotFewer
        <3>5. /\ Cardinality(NotDueIn(t)) * Interval <= Cardinality(NotDueIn(t)') * Interval
              /\ Cardinality(NotDueIn(t)) * Interval \in Nat
            BY <2>1, <3>4, Counted, MoreSlots
        <3>6. ahead <= t + Cardinality(NotDueIn(t)) * Interval
            BY DEF RequestsInv, Spaced
        <3>7. 0 * Interval = 0
            BY <1>0
        <3> QED
            BY <1>0, <1>1, <2>1, <3>3, <3>5, <3>6, <3>7
    <2> QED
        BY <2>2, <2>3
<1> QED
    BY <1>3, <1>4, <1>5 DEF RequestsInv, Spaced

(* Time passes for the sleepers and for the slots alike.                        *)
LEMMA TickKeeps ==
    ASSUME RequestsInv, Tick
    PROVE  RequestsInv'
<1>0. /\ ahead \in Nat /\ ahead' \in Nat
      /\ ahead' = IF ahead = 0 THEN 0 ELSE ahead - 1
    BY DEF RequestsInv, RequestTypes, Tick, Larger
<1>1. ASSUME NEW c \in Callers
      PROVE  /\ call'[c] \in Request /\ call'[c].at = call[c].at
             /\ call[c].at = "waiting" => call'[c].left = IF call[c].left = 0 THEN 0 ELSE call[c].left - 1
    <2>1. call[c] \in Request
        BY DEF RequestsInv, RequestTypes
    <2>2. call'[c] = IF Asleep(c) THEN [call[c] EXCEPT !.left = @ - 1] ELSE call[c]
        BY DEF Tick
    <2> QED
        BY <2>1, <2>2 DEF Asleep, Request
<1>2. RequestTypes'
    BY <1>0, <1>1 DEF RequestsInv, RequestTypes, Tick
<1>3. WaitsForOwnSlot'
    BY <1>0, <1>1 DEF RequestsInv, RequestTypes, WaitsForOwnSlot, Request
<1>4. ASSUME NEW t \in Nat PROVE ahead' <= t + Cardinality(NotDueIn(t)') * Interval
    <2>1. NotDueIn(t)' = NotDueIn(t + 1)
        BY <1>1 DEF RequestsInv, RequestTypes, Request, NotDueIn
    <2>2. ahead <= (t + 1) + Cardinality(NotDueIn(t + 1)) * Interval
        BY DEF RequestsInv, Spaced
    <2>3. Cardinality(NotDueIn(t + 1)) * Interval \in Nat
        BY Counted, MoreSlots
    <2> QED
        BY <1>0, <2>1, <2>2, <2>3
<1> QED
    BY <1>2, <1>3, <1>4 DEF RequestsInv, Spaced

(* Everything a caller may do to its request, whenever it does it.              *)
LEMMA EnterKeeps ==
    ASSUME RequestsInv, NEW c \in Callers, NEW r \in Request, Enter(c, r)
    PROVE  RequestsInv'
<1>1. ahead \in Nat
    BY DEF RequestsInv, RequestTypes
<1>2. CASE ahead = 0
    <2>1. ahead' = ahead + Interval /\ call' = [call EXCEPT ![c] = [r EXCEPT !.at = "token"]]
        BY <1>2, DataClientAssumption DEF Enter
    <2>2. [r EXCEPT !.at = "token"] \in Request /\ [r EXCEPT !.at = "token"].at # "waiting"
        BY DEF Request, Places
    <2> QED
        BY <1>2, <2>1, <2>2, SlotTaken
<1>3. CASE ahead # 0
    <2>1. /\ ahead' = ahead
          /\ call' = [call EXCEPT ![c] = [r EXCEPT !.at = "waiting", !.left = ahead]]
        BY <1>3 DEF Enter
    <2>2. [r EXCEPT !.at = "waiting", !.left = ahead] \in Request
        BY <1>1 DEF Request, Places
    <2>3. [r EXCEPT !.at = "waiting", !.left = ahead].left = ahead
        BY DEF Request
    <2> QED
        BY <2>1, <2>2, <2>3, NoSlotTaken
<1> QED
    BY <1>2, <1>3

LEMMA NoCallIs == NoCall \in Request /\ NoCall.at = "none"
BY DEF NoCall, Request, Places

LEMMA CallKeeps ==
    ASSUME RequestsInv, NEW c \in Callers, NEW kind \in {"json", "price", "bare"}, Call(c, kind)
    PROVE  RequestsInv'
<1>1. CASE kind = "bare"
    <2> DEFINE r == [NoCall EXCEPT !.at = "token", !.kind = kind]
    <2>1. r \in Request /\ r.at # "waiting"
        BY NoCallIs DEF Request, Places
    <2>2. ahead' = ahead /\ call' = [call EXCEPT ![c] = r]
        BY <1>1 DEF Call
    <2> HIDE DEF r
    <2> QED
        BY <2>1, <2>2, NoSlotTaken
<1>2. CASE kind # "bare"
    <2>1. [NoCall EXCEPT !.kind = kind] \in Request
        BY NoCallIs DEF Request
    <2>2. Enter(c, [NoCall EXCEPT !.kind = kind])
        BY <1>2 DEF Call
    <2> QED
        BY <2>1, <2>2, EnterKeeps
<1> QED
    BY <1>1, <1>2

LEMMA ReturnKeeps ==
    ASSUME RequestsInv, NEW c \in Callers, Return(c)
    PROVE  RequestsInv'
BY NoCallIs, NoSlotTaken DEF Return

LEMMA ProgressKeeps ==
    ASSUME RequestsInv, NEW c \in Callers, Progress(c)
    PROVE  RequestsInv'
<1>0. call[c] \in Request
    BY DEF RequestsInv, RequestTypes
<1>1. CASE Wake(c)
    <2> DEFINE r == [call[c] EXCEPT !.at = "token"]
    <2>1. r \in Request /\ r.at # "waiting"
        BY <1>0 DEF Request, Places
    <2>2. /\ ahead' = ahead + Interval /\ call' = [call EXCEPT ![c] = r]
          /\ call[c].at = "waiting" /\ call[c].left = 0
        BY <1>1 DEF Wake, Slot
    <2> HIDE DEF r
    <2> QED
        BY <2>1, <2>2, SlotTaken
<1>2. ASSUME NEW at \in {"sent", "ok", "failed"}, ahead' = ahead, call' = [call EXCEPT ![c].at = at]
      PROVE  RequestsInv'
    <2> DEFINE r == [call[c] EXCEPT !.at = at]
    <2>1. r \in Request /\ r.at # "waiting"
        BY <1>0 DEF Request, Places
    <2>2. call' = [call EXCEPT ![c] = r]
        BY <1>2
    <2> HIDE DEF r
    <2> QED
        BY <1>2, <2>1, <2>2, NoSlotTaken
<1>3. CASE Leave(c) \/ Answered(c) \/ Fails(c)
    BY <1>2, <1>3 DEF Leave, Answered, Fails
<1>4. CASE RateLimited(c)
    <2>1. CASE Retries(call[c])
        <3> DEFINE left == RetryBase * (call[c].attempt + 1)
                   r == [call[c] EXCEPT !.at = "backoff", !.left = left]
        <3>1. left \in Nat
            BY <1>0, DataClientAssumption DEF Request
        <3>2. ahead' = ahead /\ call' = [call EXCEPT ![c] = r]
            BY <1>4, <2>1 DEF RateLimited
        <3> HIDE DEF left
        <3>3. r \in Request /\ r.at # "waiting"
            BY <1>0, <3>1 DEF Request, Places
        <3> HIDE DEF r
        <3> QED
            BY <3>2, <3>3, NoSlotTaken
    <2>2. CASE ~Retries(call[c])
        <3>1. ahead' = ahead /\ call' = [call EXCEPT ![c].at = "failed"]
            BY <1>4, <2>2 DEF RateLimited
        <3> QED
            BY <1>2, <3>1
    <2> QED
        BY <2>1, <2>2
<1>5. CASE Retry(c)
    BY <1>5, RetryKeeps
<1> QED
    BY <1>1, <1>3, <1>4, <1>5 DEF Progress

-----------------------------------------------------------------------------
(* The scanner: what is judged and what is held are stages of the REST analysis *)
(* of stocks; what is held and the realtime states agree (ReadyIsCurrent).      *)
Candidates == UNION {[D -> RestStages] : D \in SUBSET Stocks}

ScanSteps == {"none", "rank1", "rank2", "rank3", "filings", "next", "price", "book", "bars", "pause"}

ScannerTypes ==
    /\ value \in [state : {"STALE", "ERROR", "EMPTY", "READY"}, fresh : BOOLEAN,
                  candidates : Candidates]
    /\ scan \in [step : ScanSteps, todo : SUBSET Stocks, filed : SUBSET Stocks,
                 stock : Stocks \cup {NoState}, judged : Candidates]
    /\ scan.step \in {"price", "book", "bars"} => scan.stock \in Stocks

ScannerInv == ScannerTypes /\ ReadyIsCurrent

LEMMA NothingJudged == <<>> \in Candidates /\ DOMAIN <<>> = {}
<1>1. <<>> \in [{} -> RestStages]
    OBVIOUS
<1> QED
    BY <1>1 DEF Candidates

(* ENTRY_READY takes a CONFIRMATION_REQUIRED of the REST analysis.              *)
LEMMA ReadyTakesStage ==
    ASSUME NEW stage, NEW snapshot \in Snapshots, Confirmed(stage, snapshot) = "ENTRY_READY"
    PROVE  stage = "CONFIRMATION_REQUIRED"
BY ScannerAssumption DEF Confirmed, AllSnapshots

LEMMA AttachKeeps ==
    ASSUME NEW candidates, NEW states, Attach(candidates, states), value'.candidates = candidates,
           \A s \in Stocks \ DOMAIN candidates : states[s] = NoState
    PROVE  ReadyIsCurrent'
<1>1. PICK seen \in [DOMAIN candidates -> Snapshots] :
        known' = [s \in Stocks |->
            IF s \in DOMAIN candidates THEN Confirmed(candidates[s], seen[s]) ELSE states[s]]
    BY DEF Attach
<1>2. ASSUME NEW s \in Stocks, s \notin DOMAIN candidates PROVE known'[s] = NoState
    BY <1>1, <1>2
<1>3. ASSUME NEW s \in Stocks, s \in DOMAIN candidates, known'[s] = "ENTRY_READY"
      PROVE  candidates[s] = "CONFIRMATION_REQUIRED"
    <2>1. seen[s] \in Snapshots /\ known'[s] = Confirmed(candidates[s], seen[s])
        BY <1>1, <1>3
    <2> QED
        BY <1>3, <2>1, ReadyTakesStage
<1> QED
    BY <1>2, <1>3, ScannerAssumption DEF ReadyIsCurrent

LEMMA ScannerInitKeeps == ScannerInit => ScannerInv
<1> SUFFICES ASSUME ScannerInit PROVE ScannerInv
    OBVIOUS
<1>1. /\ value = [state |-> "STALE", fresh |-> FALSE, candidates |-> <<>>]
      /\ scan = NoScan /\ known = [s \in Stocks |-> NoState]
    BY DEF ScannerInit
<1>2. ScannerTypes
    BY <1>1, NothingJudged DEF ScannerTypes, NoScan, ScanSteps
<1>3. ReadyIsCurrent
    BY <1>1, ScannerAssumption DEF ReadyIsCurrent
<1> QED
    BY <1>2, <1>3 DEF ScannerInv

(* The refresh moves on, value and realtime states stay.                        *)
LEMMA ScanMoves ==
    ASSUME ScannerInv, UNCHANGED <<value, known>>,
           scan' \in [step : ScanSteps, todo : SUBSET Stocks, filed : SUBSET Stocks,
                      stock : Stocks \cup {NoState}, judged : Candidates],
           scan'.step \in {"price", "book", "bars"} => scan'.stock \in Stocks
    PROVE  ScannerInv'
BY DEF ScannerInv, ScannerTypes, ReadyIsCurrent

LEMMA ScanStill ==
    ASSUME ScannerInv, UNCHANGED <<value, known, scan>>
    PROVE  ScannerInv'
BY DEF ScannerInv, ScannerTypes, ReadyIsCurrent

LEMMA JudgeKeeps ==
    ASSUME ScannerInv, Judge
    PROVE  ScannerInv'
<1>1. PICK stage \in RestStages :
        scan' = [scan EXCEPT !.step = "pause", !.stock = NoState,
                   !.judged = With(@, scan.stock, StageAfterFilings(scan.stock, stage))]
    BY DEF Judge
<1> DEFINE new == StageAfterFilings(scan.stock, stage)
           all == With(scan.judged, scan.stock, new)
<1>2. scan.stock \in Stocks /\ new \in RestStages /\ scan.judged \in Candidates
    BY DEF ScannerInv, ScannerTypes, Judge, StageAfterFilings, RestStages
<1> HIDE DEF new
<1>3. all \in Candidates
    <2>1. PICK D \in SUBSET Stocks : scan.judged \in [D -> RestStages]
        BY <1>2 DEF Candidates
    <2>2. all \in [D \cup {scan.stock} -> RestStages]
        BY <1>2, <2>1 DEF With
    <2>3. D \cup {scan.stock} \in SUBSET Stocks
        BY <1>2, <2>1
    <2> QED
        BY <2>2, <2>3 DEF Candidates
<1>4. scan' = [scan EXCEPT !.step = "pause", !.stock = NoState, !.judged = all]
    BY <1>1 DEF new
<1> HIDE DEF all
<1>5. UNCHANGED <<value, known>>
    BY DEF Judge
<1> QED
    BY <1>3, <1>4, <1>5, ScanMoves DEF ScannerInv, ScannerTypes, ScanSteps

LEMMA ScannerKeeps ==
    ASSUME ScannerInv, ScannerStep
    PROVE  ScannerInv'
<1>0. ScannerTypes /\ ReadyIsCurrent
    BY DEF ScannerInv
<1>1. NoScan \in [step : ScanSteps, todo : SUBSET Stocks, filed : SUBSET Stocks,
                  stock : Stocks \cup {NoState}, judged : Candidates]
      /\ NoScan.step = "none"
    BY NothingJudged DEF NoScan, ScanSteps
<1>2. \A s \in Stocks \ DOMAIN value.candidates : known[s] = NoState
    BY <1>0 DEF ReadyIsCurrent
<1>3. CASE Ask
    <2>1. UNCHANGED <<value, known>> /\ (scan' = scan \/ scan' = [NoScan EXCEPT !.step = "rank1"])
        BY <1>3 DEF Ask, BeginRefresh
    <2> QED
        BY <1>0, <1>1, <2>1, ScanMoves DEF ScannerTypes, ScanSteps
<1>4. CASE Look
    <2>1. Attach(value.candidates, known) /\ value' = value /\ scan' = scan
        BY <1>4 DEF Look
    <2>2. ReadyIsCurrent'
        BY <1>2, <2>1, AttachKeeps
    <2> QED
        BY <1>0, <2>1, <2>2 DEF ScannerInv, ScannerTypes
<1>5. CASE Expire
    <2>1. UNCHANGED <<scan, known>> /\ value' = [value EXCEPT !.fresh = FALSE]
        BY <1>5 DEF Expire
    <2>2. value'.candidates = value.candidates /\ ScannerTypes'
        BY <1>0, <2>1 DEF ScannerTypes
    <2> QED
        BY <1>0, <2>1, <2>2 DEF ScannerInv, ReadyIsCurrent
<1>6. CASE UniverseFails
    <2>1. /\ value' = [value EXCEPT !.state = "ERROR"] /\ scan' = NoScan
          /\ Attach(value.candidates, known)
        BY <1>6 DEF UniverseFails, ScanOver
    <2>2. value'.candidates = value.candidates /\ ScannerTypes'
        BY <1>0, <1>1, <2>1 DEF ScannerTypes
    <2>3. ReadyIsCurrent'
        BY <1>2, <2>1, <2>2, AttachKeeps
    <2> QED
        BY <2>2, <2>3 DEF ScannerInv
<1>7. CASE Finish
    <2> DEFINE state == IF DOMAIN scan.judged = {} THEN "EMPTY" ELSE "READY"
    <2>1. /\ value' = [state |-> state, fresh |-> TRUE, candidates |-> scan.judged]
          /\ scan' = NoScan /\ Attach(scan.judged, Forget)
        BY <1>7 DEF Finish, ScanOver
    <2>2. state \in {"EMPTY", "READY"}
        OBVIOUS
    <2> HIDE DEF state
    <2>3. value'.candidates = scan.judged /\ ScannerTypes'
        BY <1>0, <1>1, <2>1, <2>2 DEF ScannerTypes
    <2>4. \A s \in Stocks \ DOMAIN scan.judged : Forget[s] = NoState
        BY DEF Forget, KnownOf
    <2>5. ReadyIsCurrent'
        BY <2>1, <2>3, <2>4, AttachKeeps
    <2> QED
        BY <2>3, <2>5 DEF ScannerInv
<1>8. CASE Judge
    BY <1>8, JudgeKeeps
<1>9. CASE Ranked \/ Filings \/ DetailFound \/ Pause
    <2>1. CASE Ranked
        <3>1. NextRank[scan.step] \in {"rank2", "rank3"}
            BY <2>1 DEF Ranked, NextRank
        <3> QED
            BY <1>0, <2>1, <3>1, ScanMoves DEF Ranked, ScannerTypes, ScanSteps
    <2>2. CASE Filings
        <3>1. PICK filed \in {Filed, {}} : scan' = [scan EXCEPT !.step = "next", !.filed = filed]
            BY <2>2 DEF Filings
        <3>2. filed \in SUBSET Stocks
            BY ScannerAssumption
        <3> QED
            BY <1>0, <2>2, <3>1, <3>2, ScanMoves DEF Filings, ScannerTypes, ScanSteps
    <2>3. CASE DetailFound
        <3>1. NextDetail[scan.step] \in {"book", "bars"} /\ scan.stock \in Stocks
            BY <1>0, <2>3 DEF DetailFound, NextDetail, ScannerTypes
        <3> QED
            BY <1>0, <2>3, <3>1, ScanMoves DEF DetailFound, ScannerTypes, ScanSteps
    <2>4. CASE Pause
        BY <1>0, <2>4, ScanMoves DEF Pause, ScannerTypes, ScanSteps
    <2> QED
        BY <1>9, <2>1, <2>2, <2>3, <2>4
<1>10. CASE UniverseFound
    <2>0. PICK ranking \in SUBSET (Stocks \cup Others) :
            \E found \in CommonStocks(ranking) :
                scan' = [scan EXCEPT !.step = "filings", !.todo = found]
        BY <1>10 DEF UniverseFound
    <2>1. PICK found \in CommonStocks(ranking) :
            scan' = [scan EXCEPT !.step = "filings", !.todo = found]
        BY <2>0
    <2>2. found \in SUBSET Stocks
        BY DEF CommonStocks
    <2> QED
        BY <1>0, <1>10, <2>1, <2>2, ScanMoves DEF UniverseFound, ScannerTypes, ScanSteps, ScannerInv
<1>11. CASE Details
    <2>1. PICK s \in scan.todo :
            scan' = [scan EXCEPT !.step = "price", !.stock = s, !.todo = @ \ {s}]
        BY <1>11 DEF Details
    <2>2. s \in Stocks
        BY <1>0 DEF ScannerTypes
    <2> QED
        BY <1>0, <1>11, <2>1, <2>2, ScanMoves DEF Details, ScannerTypes, ScanSteps, ScannerInv
<1>12. CASE DetailsFail
    BY <1>0, <1>12, ScanMoves DEF DetailsFail, ScannerTypes, ScanSteps, ScannerInv
<1>13. ASSUME NEW s \in Stocks, MarketData(s) PROVE ScannerInv'
    <2>1. PICK snapshot \in Snapshots : known' = [known EXCEPT ![s] = Confirmed(StageOf(s), snapshot)]
        BY <1>13 DEF MarketData
    <2>2. s \in DOMAIN value.candidates /\ UNCHANGED <<value, scan>>
        BY <1>13 DEF MarketData, Tracked
    <2>3. Confirmed(StageOf(s), snapshot) = "ENTRY_READY" =>
            value.candidates[s] = "CONFIRMATION_REQUIRED"
        BY <2>2, ReadyTakesStage DEF StageOf
    <2> DEFINE new == Confirmed(StageOf(s), snapshot)
    <2> HIDE DEF new
    <2>4. known' = [known EXCEPT ![s] = new]
        BY <2>1 DEF new
    <2>5. new = "ENTRY_READY" => value.candidates[s] = "CONFIRMATION_REQUIRED"
        BY <2>3 DEF new
    <2>6. ReadyIsCurrent'
        <3> SUFFICES ASSUME NEW x \in Stocks
                     PROVE  /\ known'[x] # NoState => x \in DOMAIN value.candidates
                            /\ known'[x] = "ENTRY_READY" => value.candidates[x] = "CONFIRMATION_REQUIRED"
            BY <2>2 DEF ReadyIsCurrent
        <3>1. CASE x # s
            BY <1>0, <2>4, <3>1 DEF ReadyIsCurrent
        <3>2. CASE x = s
            BY <1>0, <2>2, <2>4, <2>5, <3>2 DEF ReadyIsCurrent
        <3> QED
            BY <3>1, <3>2
    <2> QED
        BY <1>0, <2>2, <2>6 DEF ScannerInv, ScannerTypes
<1> QED
    BY <1>3, <1>4, <1>5, <1>6, <1>7, <1>8, <1>9, <1>10, <1>11, <1>12, <1>13
       DEF ScannerStep, ScanProgress

-----------------------------------------------------------------------------
(* A manual order that waits for its own account refresh was accepted before    *)
(* that refresh asked for the history; one that queues is accepted.             *)
Polling == [step : {"none", "asked"}, history : BOOLEAN, from : Nat]
Manual == [at : {"none", "sent", "joined", "queued"}, number : Nat]

OwnRefresh ==
    /\ \A u \in Users : order[u].at \in {"queued", "joined"} => order[u].number <= accepted
    /\ \A u \in Users : order[u].at = "joined" =>
          account.step = "asked" /\ account.history /\ order[u].number <= account.from

OrdersInv ==
    /\ accepted \in Nat /\ account \in Polling /\ order \in [Users -> Manual]
    /\ OwnRefresh

LEMMA AskedIs ==
    ASSUME NEW history \in BOOLEAN, NEW now \in Nat
    PROVE  /\ Asked(history, now) \in Polling /\ Asked(history, now).step = "asked"
           /\ Asked(history, now).history = history /\ Asked(history, now).from = now
BY Zenon DEF Asked, Polling

LEMMA AnsweredKeeps ==
    ASSUME OrdersInv, AccountAnswered
    PROVE  OrdersInv'
<1>1. PICK first \in IF Queued = {} THEN {NoSymbol} ELSE Queued :
        /\ account' = IF Queued = {} THEN NoAccount ELSE Asked(TRUE, accepted)
        /\ order' = [u \in Users |->
              CASE order[u].at = "joined" -> NoOrder
                [] u = first -> [order[u] EXCEPT !.at = "joined"]
                [] OTHER -> order[u]]
    BY DEF AccountAnswered
<1>2. accepted' = accepted /\ accepted \in Nat
    BY DEF AccountAnswered, OrdersInv
<1>3. ASSUME NEW u \in Users
      PROVE  /\ order'[u] \in Manual
             /\ order'[u].at \in {"queued", "joined"} =>
                  order'[u].number <= accepted /\ Queued # {}
    <2>0. order[u] \in Manual /\ (order[u].at = "queued" => order[u].number <= accepted)
        BY DEF OrdersInv, OwnRefresh
    <2>4. order'[u] = CASE order[u].at = "joined" -> NoOrder
                        [] u = first -> [order[u] EXCEPT !.at = "joined"]
                        [] OTHER -> order[u]
        BY <1>1
    <2>1. CASE order[u].at = "joined"
        <3>1. order'[u] = NoOrder \/ u = first
            BY <2>1, <2>4
        <3>2. u # first
            BY <1>1, <2>1, WorkspaceAssumption DEF Queued
        <3>3. order'[u] = NoOrder
            BY <3>1, <3>2
        <3> QED
            BY <3>3 DEF NoOrder, Manual
    <2>2. CASE order[u].at # "joined" /\ u = first
        <3>1. Queued # {} /\ order[u].at = "queued"
            BY <1>1, <2>2, WorkspaceAssumption DEF Queued
        <3>2. order'[u] = [order[u] EXCEPT !.at = "joined"]
            BY <1>1, <2>2
        <3> QED
            BY <2>0, <3>1, <3>2 DEF Manual
    <2>3. CASE order[u].at # "joined" /\ u # first
        <3>1. order'[u] = order[u]
            BY <1>1, <2>3
        <3>2. order[u].at = "queued" => Queued # {}
            BY DEF Queued
        <3> QED
            BY <2>0, <2>3, <3>1, <3>2
    <2> QED
        BY <2>1, <2>2, <2>3
<1>4. account' \in Polling
    BY <1>1, <1>2, AskedIs DEF NoAccount, Polling
<1>5. ASSUME NEW u \in Users, order'[u].at = "joined"
      PROVE  account'.step = "asked" /\ account'.history /\ account'.from = accepted
    BY <1>1, <1>2, <1>3, <1>5, AskedIs
<1>6. order' \in [Users -> Manual]
    BY <1>1, <1>3
<1> QED
    BY <1>2, <1>3, <1>4, <1>5, <1>6 DEF OrdersInv, OwnRefresh

LEMMA OrderAnsweredKeeps ==
    ASSUME OrdersInv, NEW u \in Users, OrderAnswered(u)
    PROVE  OrdersInv'
<1>0. accepted \in Nat /\ account \in Polling /\ order \in [Users -> Manual] /\ OwnRefresh
    BY DEF OrdersInv
<1>1. CASE order' = [order EXCEPT ![u] = NoOrder] /\ UNCHANGED <<accepted, account>>
    <2>1. NoOrder \in Manual /\ NoOrder.at = "none"
        BY DEF NoOrder, Manual
    <2> QED
        BY <1>0, <1>1, <2>1 DEF OrdersInv, OwnRefresh
<1>2. CASE /\ accepted' = accepted + 1 /\ account.step = "none"
           /\ account' = Asked(TRUE, accepted')
           /\ order' = [order EXCEPT ![u] = [at |-> "joined", number |-> accepted']]
    <2>1. /\ accepted' \in Nat /\ account' \in Polling /\ account'.step = "asked"
          /\ account'.history /\ account'.from = accepted'
        <3>1. accepted' \in Nat
            BY <1>0, <1>2
        <3>2. account' = Asked(TRUE, accepted')
            BY <1>2
        <3> QED
            BY <3>1, <3>2, AskedIs
    <2>2. \A v \in Users : order[v].at # "joined"
        BY <1>0, <1>2 DEF OwnRefresh
    <2>3. [at |-> "joined", number |-> accepted'] \in Manual
        BY <2>1 DEF Manual
    <2>4. order' \in [Users -> Manual] /\ order'[u] = [at |-> "joined", number |-> accepted']
        BY <1>0, <1>2, <2>3
    <2>5. ASSUME NEW v \in Users, v # u
          PROVE  /\ order'[v] = order[v] /\ order[v].number \in Nat
                 /\ order[v].at = "queued" => order[v].number <= accepted
        BY <1>0, <1>2, <2>5 DEF OwnRefresh, Manual
    <2>6. ASSUME NEW v \in Users
          PROVE  /\ order'[v].at \in {"queued", "joined"} => order'[v].number <= accepted'
                 /\ order'[v].at = "joined" => order'[v].number <= account'.from
        <3>1. CASE v = u
            BY <2>1, <2>4, <3>1
        <3>2. CASE v # u
            <4>1. accepted <= accepted'
                BY <1>0, <1>2
            <4>2. order'[v] = order[v] /\ order[v].at # "joined" /\ order[v].number \in Nat
                BY <2>2, <2>5, <3>2
            <4>3. order[v].at = "queued" => order[v].number <= accepted'
                BY <1>0, <2>1, <2>5, <3>2, <4>1, <4>2
            <4> QED
                BY <4>2, <4>3
        <3> QED
            BY <3>1, <3>2
    <2> QED
        BY <2>1, <2>4, <2>6 DEF OrdersInv, OwnRefresh
<1>3. CASE /\ accepted' = accepted + 1 /\ UNCHANGED account
           /\ order' = [order EXCEPT ![u] = [at |-> WaitsForOwn, number |-> accepted']]
    <2>1. accepted' \in Nat
        BY <1>0, <1>3
    <2>2. [at |-> WaitsForOwn, number |-> accepted'] \in Manual
        BY <2>1 DEF Manual, WaitsForOwn
    <2>3. order' \in [Users -> Manual] /\ order'[u] = [at |-> "queued", number |-> accepted']
        BY <1>0, <1>3, <2>2 DEF WaitsForOwn
    <2>4. ASSUME NEW v \in Users, v # u PROVE order'[v] = order[v] /\ order[v].number \in Nat
        BY <1>0, <1>3, <2>4 DEF Manual
    <2>5. ASSUME NEW v \in Users
          PROVE  /\ order'[v].at \in {"queued", "joined"} => order'[v].number <= accepted'
                 /\ order'[v].at = "joined" =>
                      account.step = "asked" /\ account.history /\ order'[v].number <= account.from
        <3>1. CASE v = u
            BY <2>1, <2>3, <3>1
        <3>2. CASE v # u
            BY <1>0, <1>3, <2>4, <3>2 DEF OwnRefresh
        <3> QED
            BY <3>1, <3>2
    <2> QED
        BY <1>0, <1>3, <2>1, <2>3, <2>5 DEF OrdersInv, OwnRefresh
<1> QED
    BY <1>1, <1>2, <1>3 DEF OrderAnswered

LEMMA AccountKeeps ==
    ASSUME OrdersInv, AccountStep
    PROVE  OrdersInv'
<1>0. accepted \in Nat /\ account \in Polling /\ order \in [Users -> Manual] /\ OwnRefresh
    BY DEF OrdersInv
<1>1. CASE AccountDue
    <2>1. PICK due \in BOOLEAN : account' = Asked(due, accepted)
        BY <1>1 DEF AccountDue
    <2>2. \A u \in Users : order[u].at # "joined"
        BY <1>0, <1>1 DEF AccountDue, OwnRefresh
    <2>3. account' \in Polling
        BY <1>0, <2>1, AskedIs
    <2> QED
        BY <1>0, <1>1, <2>2, <2>3 DEF AccountDue, OrdersInv, OwnRefresh
<1>2. ASSUME NEW u \in Users, Submit(u) PROVE OrdersInv'
    <2>1. [order[u] EXCEPT !.at = "sent"] \in Manual /\ [order[u] EXCEPT !.at = "sent"].at = "sent"
        BY <1>0 DEF Manual
    <2>2. order' = [order EXCEPT ![u] = [order[u] EXCEPT !.at = "sent"]] /\ UNCHANGED <<accepted, account>>
        BY <1>2 DEF Submit
    <2> QED
        BY <1>0, <2>1, <2>2 DEF OrdersInv, OwnRefresh
<1> QED
    BY <1>1, <1>2, AnsweredKeeps, OrderAnsweredKeeps DEF AccountStep

-----------------------------------------------------------------------------
(* All of it together, under the composition that is run.                       *)
ScreenInv == RequestsInv /\ ScannerInv /\ OrdersInv

LEMMA ScreenInitKeeps == Init => ScreenInv
<1> SUFFICES ASSUME Init PROVE ScreenInv
    OBVIOUS
<1>1. RequestsInv
    <2>1. ahead = 0 /\ call = [c \in Callers |-> NoCall]
        BY DEF Init, RequestsInit
    <2>2. RequestTypes /\ WaitsForOwnSlot
        BY <2>1, NoCallIs DEF RequestTypes, WaitsForOwnSlot
    <2>3. \A t \in Nat : Cardinality(NotDueIn(t)) * Interval \in Nat
        BY Counted, MoreSlots
    <2>4. Spaced
        BY <2>1, <2>3 DEF Spaced
    <2> QED
        BY <2>2, <2>4 DEF RequestsInv
<1>2. ScannerInv
    BY ScannerInitKeeps DEF Init
<1>3. OrdersInv
    <2>1. accepted = 0 /\ account = NoAccount /\ order = [u \in Users |-> NoOrder]
        BY DEF Init, WorkspaceInit
    <2>2. NoOrder \in Manual /\ NoOrder.at = "none" /\ NoAccount \in Polling
        BY DEF NoOrder, Manual, NoAccount, Polling
    <2> QED
        BY <2>1, <2>2 DEF OrdersInv, OwnRefresh
<1> QED
    BY <1>1, <1>2, <1>3 DEF ScreenInv

(* Whoever moves, the requests are called, entered, returned or left alone.     *)
LEMMA RequestsStill ==
    ASSUME RequestsInv, UNCHANGED requestVars
    PROVE  RequestsInv'
<1>1. ahead' = ahead /\ call' = call
    BY DEF requestVars
<1> QED
    BY <1>1 DEF RequestsInv, RequestTypes, Spaced, WaitsForOwnSlot, NotDueIn

LEMMA ScannerCalls ==
    ASSUME RequestsInv, ScannerStep
    PROVE  RequestsInv'
<1>1. "scanner" \in Callers
    BY ScannerAssumption
<1>2. CASE Ask
    BY <1>1, <1>2, CallKeeps, RequestsStill DEF Ask, BeginRefresh
<1>3. CASE Details
    BY <1>1, <1>3, CallKeeps DEF Details
<1>4. CASE Ranked \/ DetailFound
    BY <1>1, <1>4, EnterKeeps, NoCallIs DEF Ranked, DetailFound
<1>5. CASE UniverseFound \/ UniverseFails \/ Judge \/ DetailsFail
    BY <1>1, <1>5, ReturnKeeps DEF UniverseFound, UniverseFails, Judge, DetailsFail
<1>6. CASE Look \/ Expire \/ Filings \/ Pause \/ Finish \/ \E s \in Stocks : MarketData(s)
    BY <1>6, RequestsStill DEF Look, Expire, Filings, Pause, Finish, MarketData
<1> QED
    BY <1>2, <1>3, <1>4, <1>5, <1>6 DEF ScannerStep, ScanProgress

LEMMA MarketCalls ==
    ASSUME RequestsInv, MarketStep
    PROVE  RequestsInv'
<1>1. "workspace" \in Callers
    BY WorkspaceAssumption
<1>2. CASE MarketDue
    BY <1>1, <1>2, CallKeeps DEF MarketDue, BeginMarket
<1>3. CASE SwitchInstrument
    <2>1. PICK symbol \in Symbols : RefreshMarket(symbol)
        BY <1>3 DEF SwitchInstrument
    <2> QED
        BY <1>1, <2>1, CallKeeps, RequestsStill DEF RefreshMarket, BeginMarket
<1>4. CASE QuoteFound \/ BookFound
    BY <1>1, <1>4, EnterKeeps, NoCallIs DEF QuoteFound, BookFound
<1>5. CASE BarsFound \/ MarketFails
    BY <1>1, <1>5, ReturnKeeps DEF BarsFound, MarketFails
<1>6. CASE \E s \in Symbols : MarketDataOf(s)
    BY <1>6, RequestsStill DEF MarketDataOf
<1> QED
    BY <1>2, <1>3, <1>4, <1>5, <1>6 DEF MarketStep, MarketProgress

LEMMA ScreenNextKeeps == ScreenInv /\ [Next]_vars => ScreenInv'
<1> SUFFICES ASSUME ScreenInv, [Next]_vars PROVE ScreenInv'
    OBVIOUS
<1>0. RequestsInv /\ ScannerInv /\ OrdersInv
    BY DEF ScreenInv
<1>1. ASSUME UNCHANGED scannerVars PROVE ScannerInv'
    BY <1>0, <1>1, ScanStill DEF scannerVars
<1>2. ASSUME UNCHANGED accountVars PROVE OrdersInv'
    BY <1>0, <1>2 DEF accountVars, OrdersInv, OwnRefresh
<1>3. CASE Requests
    <2>1. RequestsInv'
        BY <1>0, <1>3, TickKeeps, ProgressKeeps DEF Requests, RequestStep
    <2> QED
        BY <1>1, <1>2, <1>3, <2>1 DEF Requests, screenVars, ScreenInv
<1>4. CASE Scanner
    <2>1. ScannerStep
        BY <1>4 DEF Scanner, Rankings, ScannerStep, ScanProgress
    <2> QED
        BY <1>0, <1>2, <1>4, <2>1, ScannerKeeps, ScannerCalls DEF Scanner, screenVars, ScreenInv
<1>5. CASE Market
    <2>1. MarketStep
        BY <1>5 DEF Market, MarketStep
    <2>2. UNCHANGED accountVars
        BY <2>1 DEF MarketStep, MarketProgress, MarketDue, SwitchInstrument, QuoteFound, BookFound,
                    BarsFound, MarketFails, MarketDataOf
    <2> QED
        BY <1>0, <1>1, <1>2, <1>5, <2>1, <2>2, MarketCalls DEF Market, ScreenInv
<1>6. CASE Account
    <2>1. AccountStep /\ UNCHANGED scannerVars
        BY <1>6 DEF Account
    <2>2. UNCHANGED requestVars
        BY <2>1 DEF AccountStep, AccountDue, AccountAnswered, Submit, OrderAnswered
    <2> QED
        BY <1>0, <1>1, <2>1, <2>2, AccountKeeps, RequestsStill DEF ScreenInv
<1>7. CASE UNCHANGED vars
    BY <1>0, <1>1, <1>2, <1>7, RequestsStill DEF vars, screenVars, scannerVars, ScreenInv
<1> QED
    BY <1>3, <1>4, <1>5, <1>6, <1>7 DEF Next

(* Scanner, screen and data client together, for any callers, stocks and users: *)
(* which slots are still to come, what the refresh has judged, which history an *)
(* order waits for.                                                             *)
THEOREM Invariant == Spec => []ScreenInv
BY ScreenInitKeeps, ScreenNextKeeps, PTL DEF Spec

(* Whenever callers begin, retry and wake, however late: the next slot is never *)
(* further away than an interval for each caller, and nobody sleeps longer      *)
(* (waitForRateLimit of kisRecommendationDataClient.js).                        *)
THEOREM Backlog == Spec => []BacklogBounded
<1>1. ScreenInv => BacklogBounded
    <2> SUFFICES ASSUME ScreenInv PROVE BacklogBounded
        OBVIOUS
    <2>1. ahead <= 0 + Cardinality(NotDueIn(0)) * Interval
        BY DEF ScreenInv, RequestsInv, Spaced
    <2>2. /\ Cardinality(NotDueIn(0)) * Interval \in Nat /\ Cardinality(Callers) * Interval \in Nat
          /\ Cardinality(NotDueIn(0)) * Interval <= Cardinality(Callers) * Interval
        BY Counted, MoreSlots
    <2>3. ahead \in Nat /\ ahead <= Cardinality(Callers) * Interval
        BY <2>1, <2>2 DEF ScreenInv, RequestsInv, RequestTypes
    <2>4. \A c \in Callers : call[c].at = "waiting" => call[c].left <= ahead /\ call[c].left \in Nat
        BY DEF ScreenInv, RequestsInv, RequestTypes, WaitsForOwnSlot, Request
    <2> QED
        BY <2>2, <2>3, <2>4 DEF BacklogBounded
<1> QED
    BY <1>1, Invariant, PTL

(* For any stocks and limits: ENTRY_READY, which the auto trader buys, is a     *)
(* stage of a candidate of the value now held (trackRealtimeState).             *)
THEOREM Ready == Spec => []ReadyIsCurrent
<1>1. ScreenInv => ReadyIsCurrent
    BY DEF ScreenInv, ScannerInv
<1> QED
    BY <1>1, Invariant, PTL

(* For any number of users: when an accepted order is answered, the history its *)
(* user sees was read after KIS accepted the order, or there is an error        *)
(* (refreshAccount with forceOrderHistory); not that KIS lists the order yet.   *)
THEOREM ReadAfter == Spec => ReadAfterOrder
<1> DEFINE Told == \A u \in Users :
              order[u].at = "joined" /\ order'[u].at = "none" => readAt' >= order[u].number \/ trouble'
<1>1. ScreenInv /\ [Next]_vars => Told
    <2> SUFFICES ASSUME ScreenInv, [Next]_vars, NEW u \in Users,
                        order[u].at = "joined", order'[u].at = "none"
                 PROVE  readAt' >= order[u].number \/ trouble'
        OBVIOUS
    <2>0. OrdersInv
        BY DEF ScreenInv
    <2>1. /\ account.history /\ order[u].number <= account.from
          /\ order[u].number \in Nat /\ account.from \in Nat /\ accepted \in Nat
        BY <2>0 DEF OrdersInv, OwnRefresh, Manual, Polling
    <2>2. CASE UNCHANGED order
        BY <2>2
    <2>3. CASE AccountAnswered
        <3>1. CASE trouble'
            BY <3>1
        <3>2. CASE readAt' \in account.from..accepted
            BY <2>1, <3>2
        <3> QED
            BY <2>1, <2>3, <3>1, <3>2 DEF AccountAnswered
    <2>4. CASE AccountDue
        BY <2>2, <2>4 DEF AccountDue
    <2>5. CASE \E v \in Users : Submit(v) \/ OrderAnswered(v)
        <3>1. PICK v \in Users : Submit(v) \/ OrderAnswered(v)
            BY <2>5
        <3>2. order[v].at # "joined"
            BY <3>1 DEF Submit, OrderAnswered
        <3>3. order'[u] = order[u]
            BY <2>0, <3>1, <3>2 DEF Submit, OrderAnswered, OrdersInv
        <3> QED
            BY <3>3
    <2>6. AccountAnswered \/ AccountDue \/ (\E v \in Users : Submit(v) \/ OrderAnswered(v))
            \/ UNCHANGED order
        <3>1. CASE Account
            BY <3>1 DEF Account, AccountStep
        <3>2. CASE Market
            <4>1. MarketStep
                BY <3>2 DEF Market, MarketStep
            <4> QED
                BY <4>1 DEF MarketStep, MarketProgress, MarketDue, SwitchInstrument, QuoteFound,
                        BookFound, BarsFound, MarketFails, MarketDataOf, accountVars
        <3> QED
            BY <3>1, <3>2 DEF Next, Requests, Scanner, screenVars, accountVars, vars
    <2> QED
        BY <2>2, <2>3, <2>4, <2>5, <2>6
<1>2. Told => [Told]_order
    OBVIOUS
<1> QED
    BY <1>1, <1>2, Invariant, PTL DEF Spec, ReadAfterOrder
=============================================================================
