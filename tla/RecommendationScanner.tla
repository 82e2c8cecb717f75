------------------------ MODULE RecommendationScanner ------------------------
(* The recommendation scanner: recommendationScanner.js with the universe of    *)
(* kisRecommendationResearchDataClient.js and the judgement of                  *)
(* realtimeConfirmationEngine.js. One refresh at a time collects the rankings,  *)
(* looks at each candidate with three spaced requests, and replaces the value;  *)
(* realtime events change what is known of the candidates at any time. Scores,  *)
(* thresholds and the order of the candidates are left out: a judgement is a    *)
(* choice among the stages.                                                     *)
EXTENDS KisRecommendationDataClient

CONSTANTS
    Stocks,         \* the common stocks
    Others,         \* in the rankings, but no common stock: an ETF, a SPAC
    Filed,          \* the stocks with a filing of high risk
    MaxEnriched,    \* settings.maxEnriched
    Snapshots,      \* the realtime snapshots told apart, of AllSnapshots
    NoState         \* lastRealtimeStates has no entry

(* No client; no connection; the order book or the trade missing; one of the    *)
(* two too old; halted, a wide spread or too far above the average price; the   *)
(* book or the execution strength below its threshold; none of these.           *)
AllSnapshots == {"none", "disconnected", "partial", "old", "halted", "weak", "strong"}

ASSUME ScannerAssumption ==
    /\ IsFiniteSet(Stocks) /\ Stocks \cap Others = {} /\ Filed \subseteq Stocks
    /\ MaxEnriched \in Nat \ {0} /\ Snapshots \subseteq AllSnapshots
    /\ "scanner" \in Callers /\ NoState # "ENTRY_READY"

VARIABLES
    value,      \* value: its state, whether it has not expired, the candidates' stages
    scan,       \* inFlight: the refresh under way
    known,      \* lastRealtimeStates
    asked       \* somebody waits for the refresh

scannerVars == <<value, scan, known, asked>>

(* LOW_PRIORITY is told apart from WATCH by nobody.                             *)
RestStages == {"CONFIRMATION_REQUIRED", "WATCH", "BLOCKED"}

NoScan == [step |-> "none", todo |-> {}, filed |-> {}, stock |-> NoState, judged |-> <<>>]

ScannerInit ==
    /\ value = [state |-> "STALE", fresh |-> FALSE, candidates |-> <<>>]
    /\ scan = NoScan /\ asked = FALSE
    /\ known = [s \in Stocks |-> NoState]

(* evaluateRealtimeConfirmation.                                                *)
Confirmed(stage, snapshot) ==
    CASE stage = "BLOCKED" \/ (snapshot = "halted") -> "BLOCKED"
      [] snapshot = "none" -> "SCANNED"
      [] snapshot = "disconnected" -> "DISCONNECTED"
      [] snapshot = "partial" -> "REALTIME_CONFIRMING"
      [] snapshot = "old" -> "STALE"
      [] snapshot = "weak" \/ (snapshot = "strong" /\ stage # "CONFIRMATION_REQUIRED") -> "WATCH"
      [] OTHER -> "ENTRY_READY"

(* snapshot() of the scanner: attachRealtime and trackRealtimeState for every   *)
(* candidate, with whatever the realtime client has of it by now.               *)
Attach(candidates, states) ==
    \E seen \in [DOMAIN candidates -> Snapshots] :
        known' = [s \in Stocks |->
            IF s \in DOMAIN candidates THEN Confirmed(candidates[s], seen[s]) ELSE states[s]]

(* get({refreshIfStale: true}) and refresh({force: true}): a caller joins the   *)
(* refresh under way, begins one, or takes the value as it is.                  *)
BeginRefresh ==
    /\ scan.step = "none"
    /\ scan' = [NoScan EXCEPT !.step = "rank1"]
    /\ Call("scanner", "json")

Ask ==
    /\ ~asked
    /\ asked' = TRUE
    /\ IF scan.step = "none" THEN BeginRefresh ELSE UNCHANGED <<scan, requestVars>>
    /\ UNCHANGED <<value, known>>

(* A caller takes the value as it is, or the status of the connection changed.  *)
Look ==
    /\ Attach(value.candidates, known)
    /\ UNCHANGED <<value, scan, asked, requestVars>>

NextRank == [rank1 |-> "rank2", rank2 |-> "rank3"]

(* collectUniverseSnapshot: three rankings one after the other.                 *)
Ranked ==
    /\ scan.step \in {"rank1", "rank2"} /\ call["scanner"].at = "ok"
    /\ scan' = [scan EXCEPT !.step = NextRank[scan.step]]
    /\ Enter("scanner", NoCall)
    /\ UNCHANGED <<value, known, asked>>

(* filterCommonStockCandidates: the instrument catalogue tells stocks from the  *)
(* rest; then the first MaxEnriched.                                            *)
CommonStocks(ranking) == {t \in SUBSET (ranking \ Others) : Cardinality(t) <= MaxEnriched}

UniverseFound ==
    /\ scan.step = "rank3" /\ call["scanner"].at = "ok"
    /\ \E ranking \in SUBSET (Stocks \cup Others) : \E found \in CommonStocks(ranking) :
          scan' = [scan EXCEPT !.step = "filings", !.todo = found]
    /\ Return("scanner")
    /\ UNCHANGED <<value, known, asked>>

ScanOver == NoScan

(* A ranking or the catalogue cannot be had: the old value stays, and its       *)
(* candidates with it; only its state says so.                                  *)
UniverseFails ==
    /\ \/ scan.step \in {"rank1", "rank2", "rank3"} /\ call["scanner"].at = "failed"
       \/ scan.step = "rank3" /\ call["scanner"].at = "ok"
    /\ value' = [value EXCEPT !.state = "ERROR"]
    /\ Attach(value.candidates, known)
    /\ scan' = ScanOver /\ asked' = FALSE
    /\ Return("scanner")

(* OpenDART's filings; when they cannot be had, nobody counts as risky.         *)
Filings ==
    /\ scan.step = "filings"
    /\ \E filed \in {Filed, {}} : scan' = [scan EXCEPT !.step = "next", !.filed = filed]
    /\ UNCHANGED <<value, known, asked, requestVars>>

(* getCandidateDetails: the price, then the order book, then the minute bars.   *)
Details ==
    /\ scan.step = "next"
    /\ \E s \in scan.todo :
          scan' = [scan EXCEPT !.step = "price", !.stock = s, !.todo = @ \ {s}]
    /\ Call("scanner", "price")
    /\ UNCHANGED <<value, known, asked>>

NextDetail == [price |-> "book", book |-> "bars"]

DetailFound ==
    /\ scan.step \in {"price", "book"} /\ call["scanner"].at = "ok"
    /\ scan' = [scan EXCEPT !.step = NextDetail[scan.step]]
    /\ Enter("scanner", NoCall)
    /\ UNCHANGED <<value, known, asked>>

(* attachAuxiliarySignals: a filing of high risk blocks the stock; news and     *)
(* posts change nothing.                                                        *)
StageAfterFilings(s, stage) == IF s \in scan.filed THEN "BLOCKED" ELSE stage

With(judged, s, stage) == [t \in DOMAIN judged \cup {s} |-> IF t = s THEN stage ELSE judged[t]]

(* evaluateRecommendationCandidate.                                             *)
Judge ==
    /\ scan.step = "bars" /\ call["scanner"].at = "ok"
    /\ \E stage \in RestStages :
          scan' = [scan EXCEPT !.step = "pause", !.stock = NoState,
                     !.judged = With(@, scan.stock, StageAfterFilings(scan.stock, stage))]
    /\ Return("scanner")
    /\ UNCHANGED <<value, known, asked>>

(* A stock whose details cannot be had is left out of the candidates.           *)
DetailsFail ==
    /\ scan.step \in {"price", "book", "bars"} /\ call["scanner"].at = "failed"
    /\ scan' = [scan EXCEPT !.step = "pause", !.stock = NoState]
    /\ Return("scanner")
    /\ UNCHANGED <<value, known, asked>>

(* sleep(requestSpacingMs) between two candidates.                              *)
Pause ==
    /\ scan.step = "pause" /\ scan.todo # {}
    /\ scan' = [scan EXCEPT !.step = "next"]
    /\ UNCHANGED <<value, known, asked, requestVars>>

(* Mutant: a dropped candidate keeps its realtime state. *)
KnownKept == known

(* The states of the candidates that stayed; the others are recorded DROPPED.   *)
KnownOf(candidates) == [s \in Stocks |-> IF s \in DOMAIN candidates THEN known[s] ELSE NoState]

Forget == KnownOf(scan.judged)

(* The new value, the records of the dropped candidates, the subscription of    *)
(* the candidates, and the answer to everybody who waited, in one run.          *)
Finish ==
    /\ scan.step \in {"next", "pause"} /\ scan.todo = {}
    /\ value' = [state |-> IF DOMAIN scan.judged = {} THEN "EMPTY" ELSE "READY", fresh |-> TRUE,
                 candidates |-> scan.judged]
    /\ Attach(scan.judged, Forget)
    /\ scan' = ScanOver /\ asked' = FALSE
    /\ UNCHANGED requestVars

(* A tick counts for a candidate only; the subscription changes later than the  *)
(* value, so ticks of dropped candidates still come.                            *)
Tracked(s) == s \in DOMAIN value.candidates

StageOf(s) == IF s \in DOMAIN value.candidates THEN value.candidates[s] ELSE "WATCH"

MarketData(s) ==
    /\ Tracked(s)
    /\ \E snapshot \in Snapshots : known' = [known EXCEPT ![s] = Confirmed(StageOf(s), snapshot)]
    /\ UNCHANGED <<value, scan, asked, requestVars>>

(* cacheTtlMs has passed.                                                       *)
Expire ==
    /\ value.fresh
    /\ value' = [value EXCEPT !.fresh = FALSE]
    /\ UNCHANGED <<scan, known, asked, requestVars>>

ScanProgress ==
    Ranked \/ UniverseFound \/ UniverseFails \/ Filings \/ Details \/ DetailFound
        \/ Judge \/ DetailsFail \/ Pause \/ Finish

ScannerStep == Ask \/ Look \/ Expire \/ ScanProgress \/ \E s \in Stocks : MarketData(s)

-----------------------------------------------------------------------------

(* Whatever the order of refreshes, ticks and expiries: a stock is ENTRY_READY  *)
(* only as a candidate of the value now held, at the stage the REST analysis    *)
(* gave it there, and a dropped stock has no state (trackRealtimeState,         *)
(* performRefresh; the auto trader buys ENTRY_READY candidates).                *)
ReadyIsCurrent ==
    \A s \in Stocks :
        /\ known[s] # NoState => s \in DOMAIN value.candidates
        /\ known[s] = "ENTRY_READY" => value.candidates[s] = "CONFIRMATION_REQUIRED"
=============================================================================
