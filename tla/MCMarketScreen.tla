---------------------------- MODULE MCMarketScreen ----------------------------
(* The recommendation scanner and the main screen over the one data client they *)
(* share in the server. They share nothing else, so a behaviour moves the       *)
(* scanner whole, or the market of the main screen whole, or the rankings of    *)
(* the one against the refreshes of the other for the slots of the client, or   *)
(* the account, which takes none of them.                                       *)
EXTENDS RecommendationScanner, KisMainWorkspace
CONSTANTS a, b, fund, u1, u2, u3

VARIABLE part

Parts == {"scanner", "market", "slots", "account"}

screenVars == <<marketVars, accountVars>>

vars == <<requestVars, scannerVars, screenVars, part>>

(* The stocks that can be selected are alike: one of them is selected first.    *)
Init == RequestsInit /\ ScannerInit /\ WorkspaceInit /\ selection = a /\ part \in Parts

Requests == part # "account" /\ RequestStep /\ UNCHANGED <<scannerVars, screenVars>>

(* Without a universe there are no candidates, and nothing else to ask for.     *)
Rankings == Ask \/ Ranked \/ UniverseFails

Scanner ==
    /\ \/ part = "scanner" /\ ScannerStep
       \/ part = "slots" /\ Rankings
    /\ UNCHANGED screenVars

Market ==
    /\ \/ part = "market" /\ MarketStep
       \/ part = "slots" /\ (MarketDue \/ MarketProgress)
    /\ UNCHANGED scannerVars

Account == part = "account" /\ AccountStep /\ UNCHANGED scannerVars

Next == (Requests \/ Scanner \/ Market \/ Account) /\ UNCHANGED part

Spec == Init /\ [][Next]_vars

(* The refresh of the main screen is due again and again, its timers are served, *)
(* its requests end, and KIS answers each kind of them now and then. Nothing is  *)
(* asked of the scanner.                                                         *)
Fairness ==
    /\ WF_vars(part = "market" /\ Tick /\ UNCHANGED <<scannerVars, screenVars, part>>)
    /\ WF_vars(Progress("workspace") /\ UNCHANGED <<scannerVars, screenVars, part>>)
    /\ WF_vars(part = "market" /\ (MarketDue \/ MarketProgress) /\ UNCHANGED <<scannerVars, part>>)
    /\ \A step \in {"quote", "book", "bars"} :
          /\ SF_vars(refresh.step = step /\ Leave("workspace") /\ UNCHANGED <<scannerVars, screenVars, part>>)
          /\ SF_vars(refresh.step = step /\ Answered("workspace") /\ UNCHANGED <<scannerVars, screenVars, part>>)

FairSpec == Spec /\ Fairness
=============================================================================
