------------------ MODULE KisRealtimeSubscriptionCoordinator ------------------
(* One WebSocket session for three users: kisRealtimeSubscriptionCoordinator.js *)
(* over KisRealtimeMarketDataClient. Each view keeps its list; every change     *)
(* merges the lists by priority into the limit of the session. The views and    *)
(* their priorities are app.js's: the main screen (one symbol), the positions   *)
(* held by the auto trader, the recommendations.                                *)
EXTENDS KisRealtimeMarketDataClient, Sequences

CONSTANTS
    MaxSymbols,     \* client.maxSymbols
    Lists,          \* what a view may ask for: a set of sequences for each view
    Malformed       \* items normalizeSymbol refuses

Views == {"main-workspace", "held-positions", "recommendations"}

ASSUME CoordinatorAssumption ==
    /\ MaxSymbols \in Nat \ {0} /\ Malformed \subseteq Items
    /\ Lists \in [Views -> SUBSET Seq(Items)]

VARIABLE groups     \* the list of each view

vars == <<client, desired, active, phase, settled, remote, spoilt, stops, groups>>

(* Mutant: the lists are merged in the order of registration. *)
ByRegistration(g) == g["recommendations"] \o g["main-workspace"] \o g["held-positions"]

(* app.js: the priorities 100, 50 and 10.                                       *)
ByPriority(g) == g["main-workspace"] \o g["held-positions"] \o g["recommendations"]

(* sync: without repetitions, cut at the limit.                                 *)
Merged(g) ==
    LET all == ByPriority(g)
        firsts == {i \in DOMAIN all : \A j \in 1..(i - 1) : all[j] # all[i]}
    IN  {all[i] : i \in {f \in firsts : Cardinality({e \in firsts : e <= f}) <= MaxSymbols}}

(* setGroup and clearGroup. The list is kept before client.watchSymbols looks   *)
(* at it; one malformed item makes it throw for every view.                     *)
SetGroup(view) ==
    /\ \E list \in Lists[view] : groups' = [groups EXCEPT ![view] = list]
    /\ IF Merged(groups') \cap Malformed = {}
       THEN WatchSymbols(Merged(groups'))
       ELSE UNCHANGED clientVars

CoordinatorInit ==
    /\ Init
    /\ groups = [v \in Views |-> <<>>]

CoordinatorNext ==
    \/ \E v \in Views : SetGroup(v)
    \/ SocketStep /\ UNCHANGED groups

Spec == CoordinatorInit /\ [][CoordinatorNext]_vars

(* The event loop runs due timers, requests and handshakes end by their         *)
(* timeouts, and a closing socket closes.                                       *)
Fairness ==
    /\ WF_vars(TimerFires /\ UNCHANGED groups)
    /\ \A s \in Slots :
          /\ WF_vars((Approved(s) \/ ConnectFails(s)) /\ UNCHANGED groups)
          /\ WF_vars(OpenTimeout(s) /\ UNCHANGED groups)
          /\ WF_vars(phase[s] = "closing" /\ Closed(s) /\ UNCHANGED groups)

FairSpec == Spec /\ Fairness

-----------------------------------------------------------------------------
Held == {groups["held-positions"][i] : i \in DOMAIN groups["held-positions"]}
Main == {groups["main-workspace"][i] : i \in DOMAIN groups["main-workspace"]}

(* The positions of the auto trader keep their ticks, which its trailing stop   *)
(* lives from, whatever the recommendations ask for: they are wanted whenever   *)
(* they fit beside the main screen and nothing malformed is in the lists        *)
(* (comment at heldPositionsRealtimeClient, app.js).                            *)
HeldWatched ==
    /\ Cardinality(Main \cup Held) <= MaxSymbols
    /\ Merged(groups) \cap Malformed = {}
    => Held \subseteq desired

(* A client that wants something and has no socket and no connect() under way   *)
(* tries again, unless it is stopped, blocked or wants nothing.                 *)
Down == Wants(client, desired) /\ ~\E s \in Slots : phase[s] \in {"approval", "opening", "open"}

TriesAgain == Down ~> ~Down
=============================================================================
