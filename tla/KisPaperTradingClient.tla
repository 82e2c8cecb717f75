------------------------ MODULE KisPaperTradingClient ------------------------
(* The HTTP client of the paper account: kisPaperTradingClient.js, with the     *)
(* token file of kisTokenStore.js. Callers run at any await of each other: they *)
(* share the token request, the balance request, the request of each order      *)
(* history, the two caches, and the queue that sends one request at a time. An  *)
(* answer is known by how many mutations the broker had accepted when its       *)
(* oldest page was read. The spacing of the queue and of a retry only delays,   *)
(* so it is left out; a cache or a token may expire at any time. One query of   *)
(* the order history, the one the reconciler, the performance report and the    *)
(* cancels share.                                                              *)
EXTENDS Integers, Sequences, FiniteSets, SequencesExt

CONSTANTS
    Callers,    \* bound: calls alive at a time
    Asks,       \* bound: what each of them may ask
    None,       \* no caller
    MaxPages,   \* pages of a list at most (10 in the code)
    MaxPosts    \* bound: mutations the broker accepts

ASSUME ClientAssumption ==
    /\ MaxPages \in Nat \ {0} /\ MaxPosts \in Nat
    /\ None \notin Callers /\ IsFiniteSet(Callers)

VARIABLES
    call,       \* each caller: what it asked and where it waits
    queue,      \* requestQueue: callers whose request waits to be sent
    token,      \* the token file: "valid", "missing" (none, or expired), "damaged"
    history,    \* dailyOrdersCache, dailyOrdersRequests, the generation
    balance,    \* balanceCache, balanceRequest
    accepted,   \* mutations the broker accepted
    reported    \* the last of them an accepted answer came back for

vars == <<call, queue, token, history, balance, accepted, reported>>

Operations == {"balance", "history", "submit", "cancel"}
Tokens == {"missing", "valid", "damaged"}
Uncached == -1

(* `asOf' is what the pages read so far show, `begun' what was reported when    *)
(* the call began, `on' the caller whose fetch it waits for or runs.            *)
Free == [op |-> "balance", stage |-> "free", on |-> None, pages |-> 0, retried |-> FALSE,
         posts |-> 0, asOf |-> 0, begun |-> 0, generation |-> 0]

Init ==
    /\ call = [c \in Callers |-> Free]
    /\ queue = <<>>
    /\ token \in Tokens
    /\ history = [cache |-> Uncached, request |-> None, generation |-> 0]
    /\ balance = [cache |-> Uncached, request |-> None]
    /\ accepted = 0 /\ reported = 0

-----------------------------------------------------------------------------
Ended(k, asOf) == [Free EXCEPT !.op = k.op, !.begun = k.begun, !.stage = "answered", !.asOf = asOf]

Begun(op) == [Free EXCEPT !.op = op, !.stage = "ready", !.asOf = MaxPosts,
                          !.begun = IF op = "submit" THEN 0 ELSE reported]

(* getBalance: the cache, the request under way, or a request of its own.       *)
BeginBalance(c) ==
    LET k == Begun("balance")
    IN  IF balance.cache # Uncached
        THEN call' = [call EXCEPT ![c] = Ended(k, balance.cache)] /\ UNCHANGED balance
        ELSE IF balance.request # None
        THEN /\ call' = [call EXCEPT ![c] = [k EXCEPT !.stage = "joined", !.on = balance.request]]
             /\ UNCHANGED balance
        ELSE /\ call' = [call EXCEPT ![c] = [k EXCEPT !.on = c]]
             /\ balance' = [balance EXCEPT !.request = c]

(* assertCancelable: the history shows the order with enough left, or not.      *)
Checked(k, asOf) ==
    IF k.op = "cancel"
    THEN {Ended(k, asOf), [k EXCEPT !.stage = "ready", !.asOf = asOf, !.on = None]}
    ELSE {Ended(k, asOf)}

(* getDailyOrders, for itself or for assertCancelable.                          *)
BeginHistory(c, op) ==
    LET k == [Begun(op) EXCEPT !.generation = history.generation]
    IN  IF history.cache # Uncached
        THEN /\ \E next \in Checked(k, history.cache) : call' = [call EXCEPT ![c] = next]
             /\ UNCHANGED history
        ELSE IF history.request # None
        THEN /\ call' = [call EXCEPT ![c] = [k EXCEPT !.stage = "joined", !.on = history.request]]
             /\ UNCHANGED history
        ELSE /\ call' = [call EXCEPT ![c] = [k EXCEPT !.on = c]]
             /\ history' = [history EXCEPT !.request = c]

Begin(c, op) ==
    /\ call[c].stage \in {"free", "answered"} /\ op \in Asks[c]
    /\ CASE op = "balance" -> BeginBalance(c) /\ UNCHANGED history
         [] op \in {"history", "cancel"} -> BeginHistory(c, op) /\ UNCHANGED balance
         [] op = "submit" -> call' = [call EXCEPT ![c] = Begun(op)] /\ UNCHANGED <<balance, history>>
    /\ UNCHANGED <<queue, token, accepted, reported>>

Posting(c) == call[c].op = "submit" \/ (call[c].op = "cancel" /\ call[c].on = None)

-----------------------------------------------------------------------------
(* The end of a fetch, for whoever waits for it; asOf is Uncached when it       *)
(* failed. A generation that passed keeps it out of the history's cache, and    *)
(* another request's entry is left alone.                                       *)
(* Mutant: the generation is not compared. *)
CacheableAlways(k) == TRUE

Cacheable(k) == k.generation = history.generation

FetchEnds(c, asOf) ==
    LET waiting == {w \in Callers : call[w].on = c}
        k == call[c]
    IN  /\ \E next \in [waiting -> UNION {IF asOf = Uncached THEN {Ended(call[w], Uncached)}
                                          ELSE Checked(call[w], asOf) : w \in waiting}] :
              /\ \A w \in waiting : next[w] \in IF asOf = Uncached THEN {Ended(call[w], Uncached)}
                                                ELSE Checked(call[w], asOf)
              /\ call' = [w \in Callers |-> IF w \in waiting THEN next[w] ELSE call[w]]
        /\ IF k.op = "balance"
           THEN /\ balance' = [cache |-> IF asOf # Uncached THEN asOf ELSE balance.cache,
                               request |-> IF balance.request = c THEN None ELSE balance.request]
                /\ UNCHANGED history
           ELSE /\ history' = [history EXCEPT
                        !.cache = IF asOf # Uncached /\ Cacheable(k) THEN asOf ELSE @,
                        !.request = IF @ = c THEN None ELSE @]
                /\ UNCHANGED balance

(* A request that throws ends a fetch for all who wait, or a mutation.          *)
Throws(c) ==
    IF Posting(c)
    THEN call' = [call EXCEPT ![c] = Ended(call[c], Uncached)] /\ UNCHANGED <<balance, history>>
    ELSE FetchEnds(c, Uncached)

-----------------------------------------------------------------------------
(* authorizedRequest: the token of the file, or a token request shared with     *)
(* whoever waits already; then the queue. A damaged file throws.                *)
Authorize(c) ==
    /\ call[c].stage = "ready"
    /\ CASE token = "valid" ->
              /\ call' = [call EXCEPT ![c].stage = "queued", ![c].retried = FALSE]
              /\ queue' = Append(queue, c)
              /\ UNCHANGED <<balance, history>>
         [] token = "missing" ->
              /\ call' = [call EXCEPT ![c].stage = "token", ![c].retried = FALSE]
              /\ UNCHANGED <<queue, balance, history>>
         [] token = "damaged" -> Throws(c) /\ UNCHANGED queue
    /\ UNCHANGED <<token, accepted, reported>>

TokenWaiters == {c \in Callers : call[c].stage = "token"}

(* issueAccessToken: the token is saved, by a file of its own and a rename, and *)
(* all who wait go on, in some order.                                           *)
TokenIssued ==
    /\ TokenWaiters # {}
    /\ token' = "valid"
    /\ \E order \in SetToSeqs(TokenWaiters) : queue' = queue \o order
    /\ call' = [c \in Callers |->
                  IF c \in TokenWaiters THEN [call[c] EXCEPT !.stage = "queued"] ELSE call[c]]
    /\ UNCHANGED <<balance, history, accepted, reported>>

(* No answer, an answer without a token, or a file that cannot be written: all  *)
(* who wait see it, each fetch with those who joined it.                        *)
(* Mutant: only who asked for the token sees the failure. *)
FailingOne == {CHOOSE c \in TokenWaiters : TRUE}

Failing == TokenWaiters

TokenFails ==
    /\ TokenWaiters # {}
    /\ call' = [c \in Callers |->
                  IF c \in Failing \/ call[c].on \in Failing THEN Ended(call[c], Uncached) ELSE call[c]]
    /\ history' = [history EXCEPT !.request = IF @ \in Failing THEN None ELSE @]
    /\ balance' = [balance EXCEPT !.request = IF @ \in Failing THEN None ELSE @]
    /\ UNCHANGED <<queue, token, accepted, reported>>

-----------------------------------------------------------------------------
(* enqueueAuthorizedRequest: the next request goes out when the one before is   *)
(* answered, whatever the answer.                                               *)
Send ==
    /\ queue # <<>> /\ \A c \in Callers : call[c].stage # "sent"
    /\ LET c == Head(queue)
       IN  call' = [call EXCEPT ![c].stage = "sent",
                                ![c].posts = IF Posting(c) THEN @ + 1 ELSE @]
    /\ queue' = Tail(queue)
    /\ UNCHANGED <<token, balance, history, accepted, reported>>

MorePages(k) == k.pages < MaxPages

(* A page: the last, one more to read, or the most the loop reads.              *)
PageRead(c) ==
    /\ call[c].stage = "sent" /\ ~Posting(c)
    /\ LET k == [call[c] EXCEPT !.pages = @ + 1, !.asOf = IF accepted < @ THEN accepted ELSE @]
       IN  \/ FetchEnds(c, k.asOf)
           \/ /\ MorePages(k)
              /\ call' = [call EXCEPT ![c] = [k EXCEPT !.stage = "ready"]]
              /\ UNCHANGED <<balance, history>>
    /\ UNCHANGED <<queue, token, accepted, reported>>

(* Mutant: a mutation refused for its rate is sent again. *)
AgainAnyMethod(c) == ~call[c].retried

(* A read refused for its rate is tried once more.                              *)
Again(c) == ~call[c].retried /\ ~Posting(c)

RateLimited(c) ==
    /\ call[c].stage = "sent" /\ Again(c)
    /\ call' = [call EXCEPT ![c].stage = "pause", ![c].retried = TRUE]
    /\ UNCHANGED <<queue, token, balance, history, accepted, reported>>

Retry(c) ==
    /\ call[c].stage = "pause"
    /\ call' = [call EXCEPT ![c].stage = "queued"]
    /\ queue' = Append(queue, c)
    /\ UNCHANGED <<token, balance, history, accepted, reported>>

(* A network error, a timeout, an HTTP error, a refusal or a body that is not   *)
(* JSON. A mutation may have arrived all the same.                              *)
RequestFails(c) ==
    /\ call[c].stage = "sent"
    /\ Throws(c)
    /\ \/ UNCHANGED accepted
       \/ Posting(c) /\ accepted < MaxPosts /\ accepted' = accepted + 1
    /\ UNCHANGED <<queue, token, reported>>

(* Accepted: invalidateDailyOrdersCache forgets the caches and the history      *)
(* requests under way, not the balance request.                                 *)
Invalidated(h) == [h EXCEPT !.cache = Uncached, !.request = None, !.generation = @ + 1]

Accepted(c) ==
    /\ call[c].stage = "sent" /\ Posting(c) /\ accepted < MaxPosts
    /\ accepted' = accepted + 1 /\ reported' = accepted'
    /\ call' = [call EXCEPT ![c] = Ended(call[c], 0)]
    /\ history' = Invalidated(history)
    /\ balance' = [balance EXCEPT !.cache = Uncached]
    /\ UNCHANGED <<queue, token>>

-----------------------------------------------------------------------------
CacheExpires ==
    /\ \/ history' = [history EXCEPT !.cache = Uncached] /\ UNCHANGED balance
       \/ balance' = [balance EXCEPT !.cache = Uncached] /\ UNCHANGED history
    /\ UNCHANGED <<call, queue, token, accepted, reported>>

(* loadValid counts a token expired a minute early; another process may write   *)
(* or damage the file.                                                          *)
TokenChanges ==
    /\ token' \in Tokens \ {token}
    /\ UNCHANGED <<call, queue, history, balance, accepted, reported>>

Next ==
    \/ \E c \in Callers, op \in Operations : Begin(c, op)
    \/ \E c \in Callers : Authorize(c)
    \/ TokenIssued
    \/ TokenFails
    \/ Send
    \/ \E c \in Callers : PageRead(c)
    \/ \E c \in Callers : RateLimited(c)
    \/ \E c \in Callers : Retry(c)
    \/ \E c \in Callers : RequestFails(c)
    \/ \E c \in Callers : Accepted(c)
    \/ CacheExpires
    \/ TokenChanges

Spec == Init /\ [][Next]_vars

(* The event loop runs continuations and timers; a request ends by its timeout. *)
Fairness ==
    /\ WF_vars(TokenIssued \/ TokenFails)
    /\ WF_vars(Send)
    /\ \A c \in Callers :
          /\ WF_vars(Authorize(c))
          /\ WF_vars(Retry(c))
          /\ WF_vars(PageRead(c) \/ RequestFails(c) \/ Accepted(c))

FairSpec == Spec /\ Fairness

-----------------------------------------------------------------------------

(* An order history asked for after a mutation was reported accepted is read    *)
(* after it, page by page, whatever caches, joined requests and fetches begun   *)
(* earlier end in between; so is the history a cancel is checked against. The   *)
(* reconciler judges an order of its own as missing when this fails (comment of *)
(* invalidateDailyOrdersCache; test "concurrent order history consumers").      *)
FreshHistory ==
    \A c \in Callers :
        \/ call[c].op = "history" /\ call[c].stage = "answered"
        \/ call[c].op = "cancel" /\ call[c].stage = "ready" /\ call[c].on = None
        => call[c].asOf = Uncached \/ call[c].asOf >= call[c].begun

(* A mutation is sent at most once, also when KIS refuses it for its rate and   *)
(* whatever the reads of other callers do (test "retries EGW00201 once without  *)
(* retrying a mutation").                                                       *)
PostOnce == \A c \in Callers : call[c].posts <= 1

(* Every call ends, although callers wait for requests that others began, whose *)
(* entry an acceptance removed, or that failed.                                 *)
CallsEnd == \A c \in Callers : call[c].stage = "joined" ~> call[c].stage = "answered"
=============================================================================
