--------------------- MODULE KisRealtimeMarketDataClient ---------------------
(* The WebSocket client of the market data: kisRealtimeMarketDataClient.js.     *)
(* connect() awaits the approval key, then the socket; meanwhile anybody may    *)
(* change the wanted symbols, stop the client or start it again, and events of  *)
(* an older socket may still come. A slot is one run of connect() with the      *)
(* socket it opens. What the messages carry is left out, except the answers to  *)
(* subscriptions.                                                              *)
EXTENDS Integers, FiniteSets

CONSTANTS
    Items,          \* what can be subscribed: a venue and a symbol
    Slots,          \* bound: runs of connect() alive at a time
    MaxAttempt,     \* bound: reconnectAttempt, where the delay has its maximum
    MaxStops,       \* bound: calls of stop()
    None            \* no slot

ASSUME ClientAssumption == MaxAttempt \in Nat \ {0} /\ MaxStops \in Nat /\ None \notin Slots

VARIABLES
    client,     \* the fields of the client
    desired,    \* desired
    active,     \* activeSubscriptions
    phase,      \* of each slot: free, approval, opening, open, closing, closed
    settled,    \* slots whose connect() is resolved
    remote,     \* what KIS streams on the current socket
    spoilt,     \* a request on the current socket failed or was refused
    stops       \* calls of stop() so far

clientVars == <<client, desired, active, phase, settled, remote, spoilt, stops>>

Init ==
    /\ client = [started |-> FALSE, socket |-> None, promise |-> None, timer |-> FALSE,
                 attempt |-> 0, established |-> FALSE, blocked |-> FALSE]
    /\ desired = {} /\ active = {} /\ remote = {} /\ spoilt = FALSE
    /\ phase = [s \in Slots |-> "free"] /\ settled = Slots
    /\ stops = 0

IsOpen(c, ph) == c.socket # None /\ ph[c.socket] = "open"

(* A slot is used again when its connect() is over and its socket is closed.    *)
Reusable(ph, done) == {s \in done : ph[s] \in {"free", "closed"}}

Wants(c, want) == c.started /\ want # {} /\ ~c.blocked

(* ensureConnected, and connect up to its first await.                          *)
EnsureConnected(c, want, ph, done) ==
    IF Wants(c, want) /\ ~IsOpen(c, ph) /\ c.promise = None
    THEN \E s \in Reusable(ph, done) :
            /\ client' = [c EXCEPT !.promise = s]
            /\ phase' = [ph EXCEPT ![s] = "approval"]
            /\ settled' = done \ {s}
    ELSE client' = c /\ phase' = ph /\ settled' = done

(* scheduleReconnect: the delay doubles with each attempt, up to its maximum.   *)
Scheduled(c, want) ==
    IF Wants(c, want) /\ ~c.timer
    THEN [c EXCEPT !.timer = TRUE, !.attempt = IF @ < MaxAttempt THEN @ + 1 ELSE @]
    ELSE c

(* The `finally' of ensureConnected: connectPromise is cleared by any connect() *)
(* that ends.                                                                   *)
Finished(c) == [c EXCEPT !.promise = None]

(* Mutant: a connection that failed is not tried again. *)
FailedForGood(c, want) == Finished(c)

Failed(c, want) == Finished(Scheduled(c, want))

-----------------------------------------------------------------------------

(* watchSymbols: the difference is sent when a socket is open; a send may fail, *)
(* which is recorded and nothing more.                                          *)
Requests(previous, next) == [drop |-> previous \ next, add |-> next \ previous]

WatchSymbols(next) ==
    LET r == Requests(desired, next)
        c == IF client.started THEN client
             ELSE [client EXCEPT !.started = TRUE, !.blocked = FALSE, !.attempt = 0]
    IN  /\ desired' = next
        /\ IF IsOpen(client, phase)
           THEN \E sent \in SUBSET (r.drop \cup r.add) :
                   /\ active' = (active \ (sent \cap r.drop)) \cup (sent \cap r.add)
                   /\ remote' = (remote \ (sent \cap r.drop)) \cup (sent \cap r.add)
                   /\ spoilt' = (spoilt \/ sent # r.drop \cup r.add)
           ELSE UNCHANGED <<active, remote, spoilt>>
        /\ EnsureConnected(c, next, phase, settled)
        /\ UNCHANGED stops

Closing(ph, s) == IF s # None /\ ph[s] \in {"opening", "open"}
                  THEN [ph EXCEPT ![s] = "closing"] ELSE ph

(* stop: neither the approval awaited nor the open timer of a socket is undone. *)
Stop ==
    /\ stops < MaxStops /\ stops' = stops + 1
    /\ client' = [client EXCEPT !.started = FALSE, !.blocked = FALSE, !.established = FALSE,
                                !.timer = FALSE, !.socket = None, !.promise = None]
    /\ active' = {}
    /\ phase' = Closing(phase, client.socket)
    /\ UNCHANGED <<desired, settled, remote, spoilt>>

-----------------------------------------------------------------------------
(* getApprovalKey answers a connect(): with a key, whatever happened since, the *)
(* socket is created and takes the place of this.socket.                        *)
Approved(s) ==
    /\ phase[s] = "approval"
    /\ phase' = [phase EXCEPT ![s] = "opening"]
    /\ client' = [client EXCEPT !.socket = s]
    /\ UNCHANGED <<desired, active, settled, remote, spoilt, stops>>

(* No key, or the constructor of the socket throws: fail.                       *)
ConnectFails(s) ==
    /\ phase[s] = "approval"
    /\ phase' = [phase EXCEPT ![s] = "closed"]
    /\ settled' = settled \cup {s}
    /\ client' = Failed(client, desired)
    /\ UNCHANGED <<desired, active, remote, spoilt, stops>>

(* The `open' event: all that is wanted now is subscribed. An older socket that *)
(* opens is left as it is.                                                      *)
Opened(s) ==
    /\ phase[s] = "opening"
    /\ phase' = [phase EXCEPT ![s] = "open"]
    /\ settled' = settled \cup {s}
    /\ IF s = client.socket
       THEN \E sent \in SUBSET desired :
               /\ client' = Finished([client EXCEPT !.established = FALSE])
               /\ active' = active \cup sent
               /\ remote' = sent
               /\ spoilt' = (sent # desired)
       ELSE client' = Finished(client) /\ UNCHANGED <<active, remote, spoilt>>
    /\ UNCHANGED <<desired, stops>>

(* The open timer of a connect() not resolved; stop leaves it running.          *)
OpenTimeout(s) ==
    /\ s \notin settled /\ phase[s] \in {"opening", "closing", "closed"}
    /\ phase' = Closing(phase, s)
    /\ settled' = settled \cup {s}
    /\ client' = Failed(client, desired)
    /\ UNCHANGED <<desired, active, remote, spoilt, stops>>

ClosedCurrent(s) == s = client.socket

(* The `close' event; of an older socket it is ignored, and then its connect()  *)
(* stays unresolved until its timer.                                            *)
Closed(s) ==
    /\ phase[s] \in {"opening", "open", "closing"}
    /\ phase' = [phase EXCEPT ![s] = "closed"]
    /\ IF ClosedCurrent(s)
       THEN LET c == [client EXCEPT !.socket = None]
            IN  /\ client' = IF s \in settled THEN Scheduled(c, desired) ELSE Failed(c, desired)
                /\ active' = {}
                /\ settled' = settled \cup {s}
       ELSE UNCHANGED <<client, active, settled>>
    /\ UNCHANGED <<desired, remote, spoilt, stops>>

(* handleSystemMessage, from any socket that is not closed yet: a subscription  *)
(* is confirmed, refused, or refused because the App Key is in use elsewhere.   *)
Confirmed(s) ==
    /\ phase[s] \in {"open", "closing"} /\ ~client.established
    /\ client' = [client EXCEPT !.established = TRUE, !.attempt = 0]
    /\ UNCHANGED <<desired, active, phase, settled, remote, spoilt, stops>>

Refused(s) ==
    /\ phase[s] = "open" /\ s = client.socket
    /\ \E i \in remote : remote' = remote \ {i}
    /\ spoilt' = TRUE
    /\ UNCHANGED <<client, desired, active, phase, settled, stops>>

(* blockForAppKeyInUse: only clearBlock, stop or a new start end it.            *)
AppKeyInUse(s) ==
    /\ phase[s] \in {"open", "closing"} /\ ~client.blocked
    /\ client' = [client EXCEPT !.blocked = TRUE, !.timer = FALSE, !.socket = None,
                                !.established = FALSE]
    /\ active' = {}
    /\ phase' = Closing(phase, client.socket)
    /\ UNCHANGED <<desired, settled, remote, spoilt, stops>>

ClearBlock ==
    /\ client.blocked
    /\ LET c == [client EXCEPT !.blocked = FALSE, !.attempt = 0]
       IN  EnsureConnected(c, desired, phase, settled)
    /\ UNCHANGED <<desired, active, remote, spoilt, stops>>

TimerFires ==
    /\ client.timer
    /\ EnsureConnected([client EXCEPT !.timer = FALSE], desired, phase, settled)
    /\ UNCHANGED <<desired, active, remote, spoilt, stops>>

SocketStep ==
    \/ \E s \in Slots : Approved(s)
    \/ \E s \in Slots : ConnectFails(s)
    \/ \E s \in Slots : Opened(s)
    \/ \E s \in Slots : OpenTimeout(s)
    \/ \E s \in Slots : Closed(s)
    \/ \E s \in Slots : Confirmed(s)
    \/ \E s \in Slots : Refused(s)
    \/ \E s \in Slots : AppKeyInUse(s)
    \/ ClearBlock
    \/ TimerFires
    \/ Stop

-----------------------------------------------------------------------------

Live == {s \in Slots : phase[s] \in {"opening", "open"}}

(* KIS gives an App Key one session (comment at APPKEY_IN_USE_PATTERN): as long *)
(* as nobody calls stop, the client never has two sockets opening or open,      *)
(* however timers, closes and changes of what is wanted fall.                   *)
OneSession == stops = 0 => Cardinality(Live) <= 1

(* On an open socket KIS streams exactly what is wanted, and before any stop    *)
(* the client counts the same, unless a request on that socket failed or was    *)
(* refused: a change made while connecting, or between a close and an open, is  *)
(* not lost.                                                                    *)
SubscriptionsFollow ==
    IsOpen(client, phase) /\ ~spoilt => remote = desired /\ (stops = 0 => active = desired)

(* A client that is started, wants something and is not blocked always has a    *)
(* wake-up ahead: an open socket, a connect() not over, a timer, or the close   *)
(* of its socket still to come; also after stops and starts.                    *)
NeverStranded ==
    Wants(client, desired) =>
        \/ client.timer
        \/ settled # Slots
        \/ client.socket # None /\ phase[client.socket] \in {"opening", "open", "closing"}

(* Through drops, refusals, stops and starts in any order the client has one    *)
(* session, subscribed to what is wanted, or a wake-up ahead that will open it. *)
SessionKept == OneSession /\ SubscriptionsFollow /\ NeverStranded

=============================================================================
