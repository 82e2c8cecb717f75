--------------------------- MODULE KisLiveReconciler ---------------------------
(* The verdict on the live account: kisLiveReconciler.js. Commands of the       *)
(* journal, the order history and the balance are compared, one symbol, one     *)
(* share an order (the canary limit), one day. What a KIS answer shows is a     *)
(* function from the orders listed to whether they are filled and canceled. The *)
(* cancelable orders are a part of the same history (getCancelableOrders joins  *)
(* its request), so their comparison finds nothing and is left out. Whether a   *)
(* wait has outlived the grace period of 30 s is a choice. A baseline in memory *)
(* is the one on disk.                                                          *)
EXTENDS Integers, FiniteSets, FiniteSetsExt

CONSTANTS
    Ids,         \* client order ids
    Operation,   \* [Ids -> "SUBMIT", "REVISE" or "CANCEL"]
    Foreign,     \* orders the user places elsewhere
    Signed,      \* each order: +1 a purchase, -1 a sale, 0 a cancel
    None         \* no value

VARIABLES
    baseline,    \* the day's opening quantity in the journal, or None
    latched,     \* latchedDays has today
    diskLatched, \* a MISMATCH event with no ACKNOWLEDGED after it
    current      \* status of the current report

verdicts == <<baseline, latched, diskLatched, current>>

Orders == Ids \cup Foreign

SignedSum(orders) == MapThenSumSet(LAMBDA o : Signed[o], orders)

Statuses == {"UNAVAILABLE", "PENDING", "CONSISTENT", "MISMATCH"}

ReconcilerInit ==
    /\ baseline = None
    /\ latched = FALSE /\ diskLatched = FALSE
    /\ current = "UNAVAILABLE"

Blocked == latched \/ current # "CONSISTENT"

-----------------------------------------------------------------------------
(* evaluateState: m the commands, h the history.                                *)
Tracked(m) == {m[i].order : i \in {j \in Ids : m[j].st = "ACCEPTED"}}

Found(m, h) == {i \in Ids : m[i].st = "ACCEPTED" /\ m[i].order \in DOMAIN h}

Unfinished(m) == {i \in Ids : m[i].st = "PENDING"}

Missing(m, h) == {i \in Ids : m[i].st = "ACCEPTED" /\ m[i].order \notin DOMAIN h}

(* compareCancelFields *)
Uncanceled(m, h) == {i \in Found(m, h) : Operation[i] = "CANCEL" /\ ~h[m[i].order].canceled}

(* Mutant: an order the history does not show yet is not waited for. *)
WaitingFinished(m, h) == Unfinished(m) \cup Uncanceled(m, h)

Waiting(m, h) == Unfinished(m) \cup Missing(m, h) \cup Uncanceled(m, h)

Doubtful(m) == {i \in Ids : m[i].st = "UNKNOWN"}

(* BROKER_ORDER_NOT_IN_JOURNAL                                                  *)
External(m, h) == DOMAIN h \ Tracked(m)

NetFills(h) == SignedSum({o \in DOMAIN h : h[o].filled})

(* deriveBaseline: what the day must have opened with; negative, it is invalid. *)
Opening(position, h) == position - NetFills(h)

(* comparePositions: the balance at once, without a grace period.               *)
PositionWrong(position, h, opening) == position # opening + NetFills(h)

(* compareSubmitFields, compareReviseFields: what KIS shows of an order found   *)
(* may differ from what was asked for.                                          *)
Comparable(m, h) == {i \in Found(m, h) : Operation[i] # "CANCEL"}

Verdict(m, h, position, opening, differing, overdue) ==
    IF \/ Doubtful(m) # {} \/ External(m, h) # {} \/ differing # {}
       \/ overdue # {}
       \/ opening < 0 \/ PositionWrong(position, h, opening)
    THEN "MISMATCH"
    ELSE IF Waiting(m, h) # {} THEN "PENDING" ELSE "CONSISTENT"

(* markUnavailable *)
MarkUnavailable == current' = "UNAVAILABLE"

(* reconcile: the first round with a valid opening quantity writes it as the    *)
(* day's baseline; a mismatch latches and is written unless the same one is     *)
(* already. When one of the two appends fails, what went before it stays and    *)
(* the report is unavailable; so it is when performanceTracker.record, which    *)
(* the service calls next, throws after everything was written.                 *)
Reconcile(m, h, position) ==
    LET opening == IF baseline = None THEN Opening(position, h) ELSE baseline
        outcomes == {Verdict(m, h, position, opening, differing, overdue) :
                        differing \in SUBSET Comparable(m, h), overdue \in SUBSET Waiting(m, h)}
        kept == IF opening < 0 THEN baseline ELSE opening
    IN  \/ \E verdict \in outcomes :
            /\ current' = verdict \/ MarkUnavailable
            /\ baseline' = kept
            /\ IF verdict = "MISMATCH" THEN latched' = TRUE /\ diskLatched' = TRUE
               ELSE UNCHANGED <<latched, diskLatched>>
        \/ /\ baseline = None /\ opening >= 0
           /\ MarkUnavailable /\ UNCHANGED <<baseline, latched, diskLatched>>
        \/ /\ "MISMATCH" \in outcomes
           /\ MarkUnavailable /\ latched' = TRUE /\ baseline' = kept
           /\ UNCHANGED diskLatched

(* acknowledge: the event, then the latch.                                      *)
Acknowledge ==
    /\ latched' = FALSE
    /\ diskLatched' = IF latched THEN FALSE ELSE diskLatched

(* Mutant: the day's baseline is not replayed. *)
BaselineReplayedLost == None

BaselineReplayed == baseline

ReplayedLatch == diskLatched
=============================================================================
