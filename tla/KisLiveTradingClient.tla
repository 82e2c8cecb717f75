------------------------- MODULE KisLiveTradingClient -------------------------
(* The HTTP client of the live account: kisLiveTradingClient.js. Its requests,  *)
(* token, queue, paging and order history are those of KisPaperTradingClient    *)
(* with other transaction ids; each balance is a request of its own, and a      *)
(* configuration that switches submissions off refuses them before anything is  *)
(* asked, but not a cancel.                                                     *)
EXTENDS KisPaperTradingClient

CONSTANT OrderEnabled    \* config.orderEnabled

ASSUME OrderEnabled \in BOOLEAN

(* getBalance: pages of its own, shared with nobody.                            *)
LiveBalance(c) == call' = [call EXCEPT ![c] = [Begun("balance") EXCEPT !.on = c]]

(* submitOrder: refused before anything is sent when orders are switched off.   *)
LiveSubmit(c) ==
    call' = [call EXCEPT ![c] = IF OrderEnabled THEN Begun("submit")
                                ELSE Ended(Begun("submit"), Uncached)]

(* getDailyOrders and assertCancelable. *)
LiveHistory(c, op) == BeginHistory(c, op)

LiveBegin(c, op) ==
    /\ call[c].stage \in {"free", "answered"} /\ op \in Asks[c]
    /\ CASE op = "balance" -> LiveBalance(c) /\ UNCHANGED history
         [] op \in {"history", "cancel"} -> LiveHistory(c, op)
         [] op = "submit" -> LiveSubmit(c) /\ UNCHANGED history
    /\ UNCHANGED <<queue, token, balance, accepted, reported>>

(* getAccessToken, authorizedRequest *)
LiveAuthorize(c) == Authorize(c)

(* issueAccessToken *)
LiveTokenIssued == TokenIssued
LiveTokenFails == TokenFails

(* enqueueAuthorizedRequest *)
LiveSend == Send

(* The loops of getBalance and fetchDailyOrders. A balance is kept by nobody.   *)
LivePageRead(c) ==
    \/ call[c].op # "balance" /\ PageRead(c)
    \/ /\ call[c].op = "balance" /\ call[c].stage = "sent"
       /\ LET k == [call[c] EXCEPT !.pages = @ + 1, !.asOf = IF accepted < @ THEN accepted ELSE @]
          IN  \/ call' = [call EXCEPT ![c] = Ended(k, k.asOf)]
              \/ MorePages(k) /\ call' = [call EXCEPT ![c] = [k EXCEPT !.stage = "ready"]]
       /\ UNCHANGED <<queue, token, balance, history, accepted, reported>>

(* isRateLimited, the retry of a read *)
LiveRateLimited(c) == RateLimited(c)
LiveRetry(c) == Retry(c)

(* rawRequest, parseJson, assertSuccessfulPayload *)
LiveRequestFails(c) == RequestFails(c)

(* The order is accepted: invalidateDailyOrdersCache; there is no balance to    *)
(* forget.                                                                      *)
LiveAccepted(c) == Accepted(c)

LiveStep(c) ==
    \/ \E op \in Operations : LiveBegin(c, op)
    \/ LiveAuthorize(c)
    \/ LivePageRead(c)
    \/ LiveRateLimited(c)
    \/ LiveRetry(c)
    \/ LiveRequestFails(c)
    \/ LiveAccepted(c)

LiveNext ==
    \/ \E c \in Callers : LiveStep(c)
    \/ LiveTokenIssued
    \/ LiveTokenFails
    \/ LiveSend
    \/ CacheExpires
    \/ TokenChanges

LiveSpec == Init /\ [][LiveNext]_vars
=============================================================================
