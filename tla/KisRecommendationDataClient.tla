--------------------- MODULE KisRecommendationDataClient ---------------------
(* The REST requests for market data, and their spacing:                        *)
(* kisRecommendationDataClient.js over kisProdReadOnlyClient.js. One client     *)
(* serves the recommendation scanner and the main screen, which call it at the  *)
(* same time. Time is counted in ticks from now: what matters of nextRequestAt  *)
(* is how far it lies ahead. What a request asks for and what the answer says   *)
(* are left to the callers.                                                     *)
EXTENDS Integers, FiniteSets

CONSTANTS
    Callers,        \* who calls: each has one request at a time
    Interval,       \* minimumIntervalMs, in ticks
    RetryCount,     \* rateLimitRetryCount
    RetryBase       \* rateLimitRetryBaseMs, in ticks

ASSUME DataClientAssumption ==
    /\ IsFiniteSet(Callers)
    /\ Interval \in Nat \ {0} /\ RetryCount \in Nat /\ RetryBase \in Nat \ {0}

VARIABLES
    ahead,      \* nextRequestAt - now, 0 when it is past
    call        \* the request of each caller

requestVars == <<ahead, call>>

(* A request: its kind is "json" (getJson), "price" (getCandidateDetails' own   *)
(* wait, then getCurrentPrice) or "bare" (getCurrentPrice called past the data  *)
(* client); `left' is what is left of its sleep.                                *)
NoCall == [at |-> "none", left |-> 0, attempt |-> 0, kind |-> "json"]

Larger(m, n) == IF m > n THEN m ELSE n

RequestsInit ==
    /\ ahead = 0
    /\ call = [c \in Callers |-> NoCall]

(* waitForRateLimit up to its sleep: how long to sleep is decided now. Without  *)
(* a wait the slot is taken in the same run.                                    *)
Enter(c, request) ==
    IF ahead = 0
    THEN /\ ahead' = Interval
         /\ call' = [call EXCEPT ![c] = [request EXCEPT !.at = "token"]]
    ELSE /\ call' = [call EXCEPT ![c] = [request EXCEPT !.at = "waiting", !.left = ahead]]
         /\ UNCHANGED ahead

(* A caller begins a request.                                                   *)
Call(c, kind) ==
    IF kind = "bare"
    THEN call' = [call EXCEPT ![c] = [NoCall EXCEPT !.at = "token", !.kind = kind]] /\ UNCHANGED ahead
    ELSE Enter(c, [NoCall EXCEPT !.kind = kind])

(* Mutant: the slot is counted twice, before the sleep and after it. *)
SlotTwice == ahead + 2 * Interval

(* waitForRateLimit after its sleep: the next slot lies behind all those taken. *)
Slot == ahead + Interval

Wake(c) ==
    /\ call[c].at = "waiting" /\ call[c].left = 0
    /\ ahead' = Slot
    /\ call' = [call EXCEPT ![c].at = "token"]

(* getAccessToken, from the file or issued first; then the request leaves.      *)
Leave(c) ==
    /\ call[c].at = "token"
    /\ call' = [call EXCEPT ![c].at = "sent"]
    /\ UNCHANGED ahead

Answered(c) ==
    /\ call[c].at = "sent"
    /\ call' = [call EXCEPT ![c].at = "ok"]
    /\ UNCHANGED ahead

(* No token; an HTTP status, a refusal, no JSON, the client's timeout.          *)
Fails(c) ==
    /\ call[c].at \in {"token", "sent"}
    /\ call' = [call EXCEPT ![c].at = "failed"]
    /\ UNCHANGED ahead

(* Only getJson tries again, at most RetryCount times.                          *)
Retries(request) == request.kind = "json" /\ request.attempt < RetryCount

(* EGW00201, too many requests per second: sleep longer each time.              *)
RateLimited(c) ==
    /\ call[c].at = "sent"
    /\ call' = [call EXCEPT ![c] =
          IF Retries(@) THEN [@ EXCEPT !.at = "backoff", !.left = RetryBase * (call[c].attempt + 1)]
                        ELSE [@ EXCEPT !.at = "failed"]]
    /\ UNCHANGED ahead

(* The next slot is at least one interval away, and waitForRateLimit begins.    *)
Retry(c) ==
    /\ call[c].at = "backoff" /\ call[c].left = 0
    /\ LET next == Larger(ahead, Interval)
       IN  /\ ahead' = next
           /\ call' = [call EXCEPT ![c].at = "waiting", ![c].left = next, ![c].attempt = @ + 1]

Asleep(c) == call[c].at \in {"waiting", "backoff"} /\ call[c].left > 0

(* Timers may be late, so time never waits for anybody.                         *)
Tick ==
    /\ ahead' = Larger(ahead - 1, 0)
    /\ call' = [c \in Callers |-> IF Asleep(c) THEN [call[c] EXCEPT !.left = @ - 1] ELSE call[c]]

(* Timers are served, requests end by their timeout.                            *)
Progress(c) == Wake(c) \/ Leave(c) \/ Answered(c) \/ Fails(c) \/ RateLimited(c) \/ Retry(c)

RequestStep == Tick \/ \E c \in Callers : Progress(c)

Return(c) == call' = [call EXCEPT ![c] = NoCall] /\ UNCHANGED ahead

-----------------------------------------------------------------------------

(* Slots are handed out when a caller wakes, not when it begins to wait, and    *)
(* several callers sleep towards the same one. The backlog still never exceeds  *)
(* one interval per caller, so nobody sleeps longer than that (waitForRateLimit *)
(* and the retry of getJson).                                                   *)
BacklogBounded ==
    /\ ahead <= Cardinality(Callers) * Interval
    /\ \A c \in Callers : call[c].at = "waiting" => call[c].left <= Cardinality(Callers) * Interval
=============================================================================
