-------------------------- MODULE KisLiveOrderService --------------------------
(* The live order service with its reconciler: kisLiveOrderService.js. It runs  *)
(* the same protocol as the paper service, with a hard limit of one share an    *)
(* order, no protective exits, and a reconciler that compares positions without *)
(* a grace period. What KisPaperOrderService leaves to a choice is modelled     *)
(* here: a round reads the balance and the order history at moments of their    *)
(* own, and orders are listed, filled, shown in the balance and canceled later  *)
(* than they are accepted. One day.                                             *)
EXTENDS KisLiveReconciler

CONSTANTS
    Original,        \* [Ids -> the order a REVISE or CANCEL is about, or None]
    Shape,           \* [Ids \cup Foreign -> what was asked for]
    OpeningPosition, \* shares held when the day opens
    MaxDailyOrders,  \* limits.maxDailyOrders
    MaxCommands,     \* bound: commands of the callers
    MaxTroubles      \* bound: crashes of the process and orders placed elsewhere

ASSUME LiveAssumption ==
    /\ Ids \cap Foreign = {} /\ None \notin Ids \cup Foreign \cup Nat
    /\ Operation \in [Ids -> {"SUBMIT", "REVISE", "CANCEL"}]
    /\ Original \in [Ids -> Ids \cup {None}]
    /\ \A i \in Ids : Operation[i] = "CANCEL" => Signed[i] = 0
    /\ OpeningPosition \in Nat /\ MaxDailyOrders \in Nat
    /\ MaxCommands \in Nat /\ MaxTroubles \in Nat

VARIABLES
    up, troubles,
    disk,            \* [Ids -> the command and its last outcome in the journal]
    mem,             \* this.commands
    killSwitch, unknownResult,
    task,            \* the task at the head of this.queue
    round,           \* reconciliationPromise: what it has read so far
    sent,            \* mutations that left
    broker           \* [Orders -> what KIS knows of the order]

memory == <<mem, killSwitch, unknownResult>>
vars == <<up, troubles, disk, memory, task, round, sent, broker, verdicts>>

Blank == [st |-> "NONE", order |-> None]
Idle == [stage |-> "idle", id |-> None]
NoRound == [stage |-> "idle", position |-> None, history |-> None]
Absent == [st |-> "none", listed |-> FALSE, filled |-> FALSE, shown |-> FALSE, canceled |-> FALSE]

Gated == {i \in Ids : Operation[i] # "CANCEL"}

Init ==
    /\ ReconcilerInit
    /\ up = TRUE /\ troubles = 0
    /\ disk = [i \in Ids |-> Blank] /\ mem = disk
    /\ killSwitch = FALSE /\ unknownResult = FALSE
    /\ task = Idle /\ round = NoRound
    /\ sent = [i \in Ids |-> 0]
    /\ broker = [o \in Orders |-> Absent]

-----------------------------------------------------------------------------
(* What KIS answers: the history it lists, the shares its balance shows.        *)
Rows == [o \in {q \in Orders : broker[q].listed} |->
            [filled |-> broker[o].filled, canceled |-> broker[o].canceled]]

Held == OpeningPosition + SignedSum({o \in Orders : broker[o].shown})

(* One request at a time: nothing is read while a mutation is under way.        *)
ClientFree == task.stage # "posted"

KillStatus == killSwitch \/ unknownResult \/ Blocked

-----------------------------------------------------------------------------
(* refreshReconciliation joins the round under way or starts one. getBalance    *)
(* brings the balance it has just read.                                         *)
Started(position) == [stage |-> "open", position |-> position, history |-> None]

JoinRound == round' = IF round = NoRound THEN Started(None) ELSE round

GetBalance ==
    /\ up /\ round = NoRound /\ ClientFree
    /\ round' = Started(Held)
    /\ UNCHANGED <<up, troubles, disk, memory, task, sent, broker, verdicts>>

ReadPosition ==
    /\ up /\ round # NoRound /\ round.position = None /\ ClientFree
    /\ round' = [round EXCEPT !.position = Held]
    /\ UNCHANGED <<up, troubles, disk, memory, task, sent, broker, verdicts>>

(* The client keeps a history for a second, but not past an acceptance          *)
(* (KisPaperTradingClient, FreshHistory).                                       *)
ReadHistory ==
    /\ up /\ round # NoRound /\ round.history = None /\ ClientFree
    /\ round' = [round EXCEPT !.history = Rows]
    /\ UNCHANGED <<up, troubles, disk, memory, task, sent, broker, verdicts>>

Wake(t) == CASE t.stage = "reconcile" -> [t EXCEPT !.stage = "gate"]
             [] t.stage = "resolved" -> Idle
             [] OTHER -> t

(* performReconciliation: judged against the commands as they stand now.        *)
FinishRound ==
    /\ up /\ round.position # None /\ round.history # None
    /\ Reconcile(mem, round.history, round.position)
    /\ round' = NoRound /\ task' = Wake(task)
    /\ UNCHANGED <<up, troubles, disk, memory, sent, broker>>

FailRound ==
    /\ up /\ round # NoRound
    /\ MarkUnavailable
    /\ round' = NoRound /\ task' = Wake(task)
    /\ UNCHANGED <<up, troubles, disk, memory, sent, broker, baseline, latched, diskLatched>>

-----------------------------------------------------------------------------
SetKillSwitchOn ==
    /\ up /\ killSwitch' = TRUE
    /\ UNCHANGED <<up, troubles, disk, mem, unknownResult, task, round, sent, broker, verdicts>>

(* Acknowledges a mismatch that is over; refused while anything else blocks.    *)
SetKillSwitchOff ==
    /\ up /\ ~unknownResult /\ current = "CONSISTENT"
    /\ killSwitch' = FALSE
    /\ Acknowledge
    /\ UNCHANGED <<up, troubles, disk, mem, unknownResult, task, round, sent, broker,
                   baseline, current>>

-----------------------------------------------------------------------------
(* execute: the command is written before it is sent, or the append fails.      *)
Pending == [st |-> "PENDING", order |-> None]

JournalCommand(i) ==
    \/ /\ disk' = [disk EXCEPT ![i] = Pending]
       /\ mem' = [mem EXCEPT ![i] = Pending]
       /\ task' = [stage |-> "calling", id |-> i]
    \/ task' = Idle /\ UNCHANGED <<disk, mem>>

Begin(i) ==
    /\ up /\ task = Idle /\ mem[i] = Blank
    /\ Cardinality({j \in Ids : mem[j] # Blank}) < MaxCommands
    /\ \/ /\ i \in Gated
          /\ task' = [stage |-> "reconcile", id |-> i] /\ JoinRound
          /\ UNCHANGED <<disk, mem>>
       \/ i \notin Gated /\ JournalCommand(i) /\ UNCHANGED round
    /\ UNCHANGED <<up, troubles, killSwitch, unknownResult, sent, broker, verdicts>>

OverDailyLimit == Cardinality({i \in Ids : mem[i] # Blank}) >= MaxDailyOrders

(* enforceSafety: the switch, the quantity (one share exactly) and the value,   *)
(* the daily count.                                                             *)
GateRefuses(i) ==
    /\ up /\ task = [stage |-> "gate", id |-> i]
    /\ \E withinLimits \in BOOLEAN : KillStatus \/ ~withinLimits \/ OverDailyLimit
    /\ task' = Idle
    /\ UNCHANGED <<up, troubles, disk, memory, round, sent, broker, verdicts>>

(* Mutant: the report decides, not the latch. *)
GateOpenByReport == ~killSwitch /\ ~unknownResult /\ current = "CONSISTENT" /\ ~OverDailyLimit

GateOpen == ~KillStatus /\ ~OverDailyLimit

(* The balance for the daily loss limit is awaited, when there is one.          *)
GatePasses(i) ==
    /\ up /\ task = [stage |-> "gate", id |-> i] /\ GateOpen
    /\ \/ task' = [stage |-> "balance", id |-> i] /\ UNCHANGED <<disk, mem>>
       \/ JournalCommand(i)
    /\ UNCHANGED <<up, troubles, killSwitch, unknownResult, round, sent, broker, verdicts>>

(* The loss or the losing streak is at its limit, or the balance fails.         *)
LossLimit(i) ==
    /\ up /\ task = [stage |-> "balance", id |-> i]
    /\ \/ JournalCommand(i) /\ UNCHANGED killSwitch
       \/ task' = Idle /\ killSwitch' \in {killSwitch, TRUE} /\ UNCHANGED <<disk, mem>>
    /\ UNCHANGED <<up, troubles, unknownResult, round, sent, broker, verdicts>>

(* assertCancelable, of a revision or a cancel.                                 *)
Cancelable(i) ==
    Operation[i] # "SUBMIT" => /\ Original[i] \in DOMAIN Rows
                               /\ ~Rows[Original[i]].filled /\ ~Rows[Original[i]].canceled

Post(i) ==
    /\ up /\ task = [stage |-> "calling", id |-> i] /\ Cancelable(i)
    /\ task' = [task EXCEPT !.stage = "posted"]
    /\ sent' = [sent EXCEPT ![i] = @ + 1]
    /\ broker' = [broker EXCEPT ![i].st = "inflight"]
    /\ UNCHANGED <<up, troubles, disk, memory, round, verdicts>>

Concluded(i, outcome) == [st |-> outcome, order |-> IF outcome = "ACCEPTED" THEN i ELSE None]

Conclude(i, outcome) ==
    /\ mem' = [mem EXCEPT ![i] = Concluded(i, outcome)]
    /\ disk' = [disk EXCEPT ![i] = mem'[i]]
    /\ UNCHANGED <<killSwitch, unknownResult>>

(* enterUnknownResult: its event may fail.                                      *)
EnterUnknownResult(i) ==
    /\ mem' = [mem EXCEPT ![i] = Concluded(i, "UNKNOWN")]
    /\ disk' \in {disk, [disk EXCEPT ![i] = mem'[i]]}
    /\ unknownResult' = TRUE /\ killSwitch' = TRUE

(* Refused before it is sent: submissions switched off, no token, bad input,    *)
(* nothing to cancel.                                                           *)
RefusedLocally(i) ==
    /\ up /\ task = [stage |-> "calling", id |-> i]
    /\ Conclude(i, "REJECTED") \/ EnterUnknownResult(i)
    /\ task' = Idle
    /\ UNCHANGED <<up, troubles, round, sent, broker, verdicts>>

(* The answer; a definite one that cannot be written is as doubtful as none.    *)
Definite(i) == {st \in {"accepted", "rejected"} : broker[i].st = st}

Answer(i) ==
    /\ up /\ task = [stage |-> "posted", id |-> i]
    /\ \/ \E st \in Definite(i) : Conclude(i, IF st = "accepted" THEN "ACCEPTED" ELSE "REJECTED")
       \/ EnterUnknownResult(i)
    /\ task' = Idle
    /\ UNCHANGED <<up, troubles, round, sent, broker, verdicts>>

-----------------------------------------------------------------------------
(* resolveUnknownResult, a task of the queue: linked to an untracked order of   *)
(* the same request, dismissed when there is none, or refused.                  *)
BeginResolve(i) ==
    /\ up /\ task = Idle /\ mem[i].st = "UNKNOWN"
    /\ task' = [stage |-> "evidence", id |-> i]
    /\ UNCHANGED <<up, troubles, disk, memory, round, sent, broker, verdicts>>

Linkable(i) ==
    {o \in DOMAIN Rows : Shape[o] = Shape[i] /\ \A j \in Ids \ {i} : mem[j].order # o}

Settled(i) ==
    {[st |-> "ACCEPTED", order |-> o] : o \in Linkable(i)}
      \cup IF Linkable(i) = {} THEN {[st |-> "DISMISSED", order |-> None]} ELSE {}

Resolve(i) ==
    /\ up /\ task = [stage |-> "evidence", id |-> i] /\ ClientFree
    /\ \/ /\ \E line \in Settled(i) : mem' = [mem EXCEPT ![i] = line]
          /\ disk' = [disk EXCEPT ![i] = mem'[i]]
          /\ unknownResult' = \E j \in Ids : mem'[j].st = "UNKNOWN"
          /\ task' = [task EXCEPT !.stage = "resolved"] /\ JoinRound
       \/ task' = Idle /\ UNCHANGED <<disk, mem, unknownResult, round>>
    /\ UNCHANGED <<up, troubles, killSwitch, sent, broker, verdicts>>

-----------------------------------------------------------------------------
Crash ==
    /\ up /\ troubles < MaxTroubles
    /\ up' = FALSE /\ troubles' = troubles + 1
    /\ mem' = [i \in Ids |-> Blank]
    /\ killSwitch' = FALSE /\ unknownResult' = FALSE
    /\ task' = Idle /\ round' = NoRound
    /\ current' = "UNAVAILABLE" /\ latched' = FALSE
    /\ UNCHANGED <<disk, sent, broker, baseline, diskLatched>>

(* Mutant: a command interrupted by the crash is forgotten. *)
ReplayedForgetting(c) == IF c.st = "PENDING" THEN Blank ELSE c

Replayed(c) == IF c.st = "PENDING" THEN [c EXCEPT !.st = "UNKNOWN"] ELSE c

(* replayJournal, markInterruptedCommandsUnknown; the constructor throws when   *)
(* an UNKNOWN event cannot be written, with some of them marked.                *)
Restart ==
    /\ ~up
    /\ \/ /\ up' = TRUE
          /\ mem' = [i \in Ids |-> Replayed(disk[i])] /\ disk' = mem'
          /\ unknownResult' = \E i \in Ids : mem'[i].st = "UNKNOWN"
          /\ killSwitch' = unknownResult'
          /\ latched' = ReplayedLatch /\ baseline' = BaselineReplayed
       \/ /\ \E S \in SUBSET {i \in Ids : disk[i].st = "PENDING"} :
                disk' = [i \in Ids |-> IF i \in S THEN Replayed(disk[i]) ELSE disk[i]]
          /\ UNCHANGED <<up, memory, latched, baseline>>
    /\ UNCHANGED <<troubles, task, round, sent, broker, diskLatched, current>>

-----------------------------------------------------------------------------
(* The broker: a request arrives or is lost, an order is listed, filled, shown  *)
(* in the balance; a cancel ends the order it is about. Orders of the user.     *)
Open(o) == broker[o].st = "accepted" /\ Signed[o] # 0 /\ ~broker[o].filled /\ ~broker[o].canceled

Decides(i) ==
    /\ broker[i].st = "inflight"
    /\ \/ \E st \in {"lost", "rejected"} : broker' = [broker EXCEPT ![i].st = st]
       \/ /\ Operation[i] # "SUBMIT" => Open(Original[i])
          /\ broker' = IF Operation[i] = "SUBMIT" THEN [broker EXCEPT ![i].st = "accepted"]
                       ELSE [broker EXCEPT ![i].st = "accepted", ![Original[i]].canceled = TRUE]
    /\ UNCHANGED <<up, troubles, disk, memory, task, round, sent, verdicts>>

PlacedElsewhere(o) ==
    /\ broker[o].st = "none" /\ troubles < MaxTroubles /\ troubles' = troubles + 1
    /\ broker' = [broker EXCEPT ![o].st = "accepted"]
    /\ UNCHANGED <<up, disk, memory, task, round, sent, verdicts>>

Advances(o) ==
    /\ broker[o].st = "accepted"
    /\ \/ ~broker[o].listed /\ broker' = [broker EXCEPT ![o].listed = TRUE]
       \/ Open(o) /\ broker' = [broker EXCEPT ![o].filled = TRUE]
       \/ broker[o].filled /\ ~broker[o].shown /\ broker' = [broker EXCEPT ![o].shown = TRUE]
       \/ /\ o \in Ids /\ Operation[o] = "CANCEL" /\ ~broker[o].canceled
          /\ broker' = [broker EXCEPT ![o].canceled = TRUE]
    /\ UNCHANGED <<up, troubles, disk, memory, task, round, sent, verdicts>>

TaskStep(i) ==
    \/ Begin(i)
    \/ GateRefuses(i)
    \/ GatePasses(i)
    \/ LossLimit(i)
    \/ Post(i)
    \/ RefusedLocally(i)
    \/ Answer(i)
    \/ BeginResolve(i)
    \/ Resolve(i)

Next ==
    \/ GetBalance
    \/ ReadPosition
    \/ ReadHistory
    \/ FinishRound
    \/ FailRound
    \/ SetKillSwitchOn
    \/ SetKillSwitchOff
    \/ \E i \in Ids : TaskStep(i)
    \/ Crash
    \/ Restart
    \/ \E i \in Ids : Decides(i)
    \/ \E o \in Foreign : PlacedElsewhere(o)
    \/ \E o \in Orders : Advances(o)

Spec == Init /\ [][Next]_vars

-----------------------------------------------------------------------------

(* The live service keeps the promises of the ledger, as the paper service does *)
(* (docs/ARCHITECTURE.md, invariants 4, 5 and 7).                               *)
Ledger == INSTANCE OrderLedger WITH line <- [i \in Ids |-> disk[i].st], posted <- sent

ImplementsLedger == Ledger!Spec

(* At most one order of the service is out of its sight: sent, perhaps          *)
(* accepted, and not in the history KIS lists. A task that joins a round begun  *)
(* before the last order, a lost answer and a restart do not let a second one   *)
(* out. The user may dismiss an order that arrives later, or take an order like *)
(* it for it.                                                                   *)
TakenForAnother(i) == disk[i].st = "ACCEPTED" /\ disk[i].order # i

OutOfSight == {i \in Gated : /\ broker[i].st \in {"inflight", "accepted"} /\ ~broker[i].listed
                             /\ disk[i].st # "DISMISSED" /\ ~TakenForAnother(i)}

OneOutOfSight == Cardinality(OutOfSight) <= 1

(* Once the account was found to disagree and that was written, no order that   *)
(* adds risk passes the gate before the user acknowledged it: not after a       *)
(* restart, nor while a round that finds nothing wrong follows.                 *)
LatchHolds ==
    [][\A i \in Gated : task = [stage |-> "gate", id |-> i] /\ task'.stage \in {"balance", "calling"}
                         => ~diskLatched]_vars

(* Orders of the service never falsify the day's baseline, however their fills  *)
(* reach the history and the balance: only fills of orders placed elsewhere,    *)
(* between the two reads of the first round, do; no later round corrects it.    *)
BaselineRight ==
    baseline \in {None, OpeningPosition} \/ \E o \in Foreign : broker[o].filled
=============================================================================
