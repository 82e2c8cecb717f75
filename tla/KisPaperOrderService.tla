------------------------- MODULE KisPaperOrderService -------------------------
(***************************************************************************)
(* The KIS paper order service: a serial queue of broker commands in front *)
(* of one brokerage account, a write-ahead execution journal, a kill       *)
(* switch and an account reconciliation that gates every order that adds   *)
(* risk.                                                                   *)
(*                                                                         *)
(* One task of the queue runs at a time (variable task); beside it run the *)
(* balance polls with their reconciliation (variable rp), the user's kill  *)
(* switch, the broker, the calendar and the crash of the process.  The     *)
(* journal is kept as its replay sees it: per client order id the command  *)
(* with its last recorded outcome (disk), plus the days whose mismatch     *)
(* latch or daily risk baseline it holds.  A failed append leaves nothing  *)
(* on disk here; ExecutionJournal studies the appends that fail halfway.   *)
(***************************************************************************)
EXTENDS Naturals, FiniteSets

CONSTANTS
  Ids,               \* client order ids the callers use
  Gated,             \* ids of SUBMIT and REVISE commands; the rest are CANCELs
  Shape,             \* [Ids -> Nat]: what the request asks for (symbol, side,
                     \* quantity, or original order number)
  NoOrder,           \* absence of a broker order number
  MaxDay,            \* bound: KST calendar days the model runs over
  MaxDailyOrders,    \* limits.maxDailyOrders
  DailyLossCheck,    \* limits.maxDailyLoss > 0
  MaxCrashes         \* bound: crashes of the process

ASSUME ServiceAssumption ==
  /\ Gated \subseteq Ids
  /\ Shape \in [Ids -> Nat]
  /\ NoOrder \notin Ids
  /\ MaxDay \in Nat \ {0}
  /\ MaxDailyOrders \in Nat \ {0}
  /\ DailyLossCheck \in BOOLEAN
  /\ MaxCrashes \in Nat

VARIABLES
  day,               \* current KST day
  up,                \* the process is running
  crashes,           \* crashes so far
  (* durable: the execution journal *)
  disk,              \* [Ids -> Command]: command and last outcome journaled
  diskLatched,       \* days with a MISMATCH event and no later ACKNOWLEDGED
  riskBaselines,     \* days with a BROKER_RISK_BASELINE event
  (* volatile: the service object *)
  mem,               \* this.commands
  killSwitch,        \* this.killSwitch, the user's or a limit's switch
  unknownResult,     \* this.unknownResult
  latched,           \* reconciler.latchedDays
  report,            \* reconciler.current
  rp,                \* the reconciliation in flight, this.reconciliationPromise
  task,              \* the task at the head of this.queue
  (* environment: the broker *)
  sent,              \* [Ids -> Nat]: mutation requests that left the process
  broker             \* [Ids -> what the broker did with the request, and when]

durable == <<disk, diskLatched, riskBaselines>>
service == <<mem, killSwitch, unknownResult, latched, report, rp, task>>
world   == <<sent, broker>>
vars    == <<day, up, crashes, durable, service, world>>

Days == 1..MaxDay

(* Broker order numbers are named by the id of the command that caused them. *)
Blank    == [st |-> "NONE", day |-> 0, order |-> NoOrder]
Command  == {Blank} \cup
            [st    : {"PENDING", "ACCEPTED", "REJECTED", "DISMISSED", "UNKNOWN"},
             day   : Days,
             order : Ids \cup {NoOrder}]

Idle     == [stage |-> "idle", id |-> NoOrder, today |-> 0]
Tasks    == {Idle} \cup
            [stage : {"reconcile", "gate", "calling", "posted"}, id : Ids,
             today : {0}] \cup
            [stage : {"balance", "evidence", "resolved"}, id : Ids, today : Days]

NoRound  == [stage |-> "idle", day |-> 0, hist |-> {}]
Rounds   == {NoRound} \cup
            [stage : {"fetching", "fetched"}, day : Days, hist : SUBSET Ids]

NoReport == [status |-> "UNAVAILABLE", day |-> 0, external |-> {}]
Reports  == {NoReport} \cup
            [status   : {"UNAVAILABLE", "PENDING", "CONSISTENT", "MISMATCH"},
             day      : Days,
             external : SUBSET Ids]

Quiet    == [st |-> "none", day |-> 0]
Fates    == [st : {"none", "inflight", "lost", "rejected", "accepted", "listed"},
             day : 0..MaxDay]

(* The type invariant: what each variable may hold. *)
TypeOK ==
  /\ day \in Days
  /\ up \in BOOLEAN
  /\ crashes \in Nat
  /\ disk \in [Ids -> Command]
  /\ diskLatched \subseteq Days
  /\ riskBaselines \subseteq Days
  /\ mem \in [Ids -> Command]
  /\ killSwitch \in BOOLEAN
  /\ unknownResult \in BOOLEAN
  /\ latched \subseteq Days
  /\ report \in Reports
  /\ rp \in Rounds
  /\ task \in Tasks
  /\ sent \in [Ids -> Nat]
  /\ broker \in [Ids -> Fates]

Init ==
  /\ day = 1
  /\ up = TRUE
  /\ crashes = 0
  /\ disk = [i \in Ids |-> Blank]
  /\ diskLatched = {}
  /\ riskBaselines = {}
  /\ mem = [i \in Ids |-> Blank]
  /\ killSwitch = FALSE
  /\ unknownResult = FALSE
  /\ latched = {}
  /\ report = NoReport
  /\ rp = NoRound
  /\ task = Idle
  /\ sent = [i \in Ids |-> 0]
  /\ broker = [i \in Ids |-> Quiet]

(***************************************************************************)
(* status()                                                                *)
(***************************************************************************)
(* The report counts only on the day it was made. *)
ReportStatus == IF report.day = day THEN report.status ELSE "UNAVAILABLE"

Blocked == day \in latched \/ ReportStatus # "CONSISTENT"

KillStatus == killSwitch \/ unknownResult \/ Blocked

(* Mutant: settling one doubtful command clears the flag for all of them. *)
UnknownLeftCleared(m) == FALSE

UnknownLeft(m) == \E i \in Ids : m[i].st = "UNKNOWN"

TodayCount(d) == Cardinality({i \in Ids : mem[i].day = d})

(* Mutant: the daily limit lets one more command through. *)
OverDailyLimitByOne(d) == TodayCount(d) > MaxDailyOrders

OverDailyLimit(d) == TodayCount(d) >= MaxDailyOrders

(***************************************************************************)
(* Reconciliation.  A round asks KIS for the balance, the day's order      *)
(* history and the cancelable orders, then judges them against the         *)
(* commands as they stand when the answers are in.  Positions, prices and  *)
(* quantities are data the model leaves out: their verdict is a choice     *)
(* (ledger), and so is whether a wait has outlived the grace period        *)
(* (overdue).                                                              *)
(***************************************************************************)
Today(d)    == {i \in Ids : mem[i].day = d}
TrackedOn(d) == {mem[i].order : i \in {j \in Today(d) : mem[j].st = "ACCEPTED"}}
Waiting(d, hist) ==
  {i \in Today(d) : \/ mem[i].st = "PENDING"
                    \/ mem[i].st = "ACCEPTED" /\ mem[i].order \notin hist}
External(d, hist) == hist \ TrackedOn(d)

Verdict(d, hist, overdue, ledger) ==
  IF \/ \E i \in Today(d) : mem[i].st = "UNKNOWN"
     \/ External(d, hist) # {}
     \/ overdue /\ Waiting(d, hist) # {}
     \/ ledger = "MISMATCH"
  THEN "MISMATCH"
  ELSE IF Waiting(d, hist) # {} \/ ledger = "PENDING" THEN "PENDING"
  ELSE "CONSISTENT"

(* The trading client sends one authorized request at a time, answer       *)
(* included, so nothing is read from KIS while an order POST is in flight.  *)
(* Mutant: reads overtake a POST that is still waiting for its answer. *)
ClientFreeAlways == TRUE

ClientFree == task.stage # "posted"

(* Orders of day d the history shows at this moment. *)
Listed(d) == {i \in Ids : broker[i].st = "listed" /\ broker[i].day = d}

(* Mutant: a round that ends forgets the task awaiting it. *)
WakeNobody(t) == t

(* A task that awaited the round goes on when the round ends. *)
Wake(t) == IF t.stage = "reconcile" THEN [t EXCEPT !.stage = "gate"]
           ELSE IF t.stage = "resolved" THEN Idle
           ELSE t

Round == [stage |-> "fetching", day |-> day, hist |-> {}]

(* refreshReconciliation joins the round in flight, or starts one. *)
JoinRound == rp' = IF rp = NoRound THEN Round ELSE rp

(* A balance poll whose refresh interval has passed. *)
Poll ==
  /\ up
  /\ rp = NoRound
  /\ rp' = Round
  /\ UNCHANGED <<day, up, crashes, durable, mem, killSwitch, unknownResult,
                 latched, report, task, world>>

FetchHistory ==
  /\ up
  /\ rp.stage = "fetching"
  /\ ClientFree
  /\ rp' = [stage |-> "fetched", day |-> rp.day, hist |-> Listed(rp.day)]
  /\ UNCHANGED <<day, up, crashes, durable, mem, killSwitch, unknownResult,
                 latched, report, task, world>>

(* reconcile(): the verdict is the report; a mismatch latches the day and  *)
(* is journaled unless the same mismatch already is.                       *)
FinishRound ==
  /\ up
  /\ rp.stage = "fetched"
  /\ \E overdue \in BOOLEAN, ledger \in {"CONSISTENT", "PENDING", "MISMATCH"} :
       LET verdict == Verdict(day, rp.hist, overdue, ledger) IN
       /\ report' = [status |-> verdict, day |-> day,
                     external |-> IF verdict = "MISMATCH"
                                  THEN External(day, rp.hist) ELSE {}]
       /\ IF verdict = "MISMATCH"
          THEN latched' = latched \cup {day} /\ diskLatched' = diskLatched \cup {day}
          ELSE UNCHANGED <<latched, diskLatched>>
  /\ rp' = NoRound
  /\ task' = Wake(task)
  /\ UNCHANGED <<day, up, crashes, disk, riskBaselines, mem, killSwitch,
                 unknownResult, world>>

(* A request of the round fails; or a mismatch is found, latched, and then  *)
(* cannot be journaled; or it is journaled and performanceTracker.record()  *)
(* throws: each time markUnavailable().                                     *)
FailRound ==
  /\ up
  /\ rp # NoRound
  /\ report' = [status |-> "UNAVAILABLE", day |-> day, external |-> {}]
  /\ \/ UNCHANGED <<latched, diskLatched>>
     \/ /\ rp.stage = "fetched"
        /\ latched' = latched \cup {day}
        /\ diskLatched' \in {diskLatched, diskLatched \cup {day}}
  /\ rp' = NoRound
  /\ task' = Wake(task)
  /\ UNCHANGED <<day, up, crashes, disk, riskBaselines, mem, killSwitch,
                 unknownResult, world>>

(***************************************************************************)
(* setKillSwitch()                                                         *)
(***************************************************************************)
SetKillSwitchOn ==
  /\ up
  /\ killSwitch' = TRUE
  /\ UNCHANGED <<day, up, crashes, durable, mem, unknownResult, latched, report,
                 rp, task, world>>

(* Turning it off acknowledges a resolved mismatch (an append that may     *)
(* fail, leaving everything as it was) and is refused while an outcome is  *)
(* unknown or the reconciliation blocks.                                   *)
SetKillSwitchOff ==
  /\ up
  /\ ~unknownResult
  /\ ReportStatus = "CONSISTENT"
  /\ killSwitch' = FALSE
  /\ latched' = latched \ {day}
  /\ diskLatched' = diskLatched \ ({day} \cap latched)
  /\ UNCHANGED <<day, up, crashes, disk, riskBaselines, mem, unknownResult,
                 report, rp, task, world>>

(***************************************************************************)
(* execute(): one command of the queue.                                    *)
(***************************************************************************)

Pending == [st |-> "PENDING", day |-> day, order |-> NoOrder]

(* The COMMAND event is on disk before the client is called. *)
JournalCommand(i) ==
  /\ disk' = [disk EXCEPT ![i] = Pending]
  /\ mem' = [mem EXCEPT ![i] = Pending]
  /\ task' = [stage |-> "calling", id |-> i, today |-> 0]

(* The append fails (or, before it, the balance request or the baseline's  *)
(* append): the caller gets the error and nothing is remembered.           *)
AbandonCommand(i) ==
  /\ task' = Idle
  /\ UNCHANGED <<disk, mem>>

(* A SUBMIT or REVISE not seen before starts with a forced reconciliation. *)
BeginGated(i) ==
  /\ up
  /\ task = Idle
  /\ i \in Gated
  /\ mem[i] = Blank
  /\ task' = [stage |-> "reconcile", id |-> i, today |-> 0]
  /\ JoinRound
  /\ UNCHANGED <<day, up, crashes, durable, mem, killSwitch, unknownResult,
                 latched, report, world>>

(* A CANCEL skips every safety check. *)
BeginCancel(i) ==
  /\ up
  /\ task = Idle
  /\ i \in Ids \ Gated
  /\ mem[i] = Blank
  /\ JournalCommand(i) \/ AbandonCommand(i)
  /\ UNCHANGED <<day, up, crashes, diskLatched, riskBaselines, killSwitch,
                 unknownResult, latched, report, rp, world>>

(* Refused by the switch, by the daily count, or by the size limits        *)
(* (withinSize; the sizes are data the model leaves out).                  *)
GateRefuses(i) ==
  /\ up
  /\ task.stage = "gate" /\ task.id = i
  /\ \E withinSize \in BOOLEAN : KillStatus \/ ~withinSize \/ OverDailyLimit(day)
  /\ task' = Idle
  /\ UNCHANGED <<day, up, crashes, durable, mem, killSwitch, unknownResult,
                 latched, report, rp, world>>

GateOpen(i) ==
  /\ up
  /\ task.stage = "gate" /\ task.id = i
  /\ ~KillStatus
  /\ ~OverDailyLimit(day)

(* With a daily loss limit the balance is awaited before the command is    *)
(* written; "today" is the day the limit was looked up for.                *)
GateAwaitsBalance(i) ==
  /\ GateOpen(i)
  /\ DailyLossCheck
  /\ task' = [stage |-> "balance", id |-> i, today |-> day]
  /\ UNCHANGED <<day, up, crashes, durable, mem, killSwitch, unknownResult,
                 latched, report, rp, world>>

GatePasses(i) ==
  /\ GateOpen(i)
  /\ ~DailyLossCheck
  /\ JournalCommand(i) \/ AbandonCommand(i)
  /\ UNCHANGED <<day, up, crashes, diskLatched, riskBaselines, killSwitch,
                 unknownResult, latched, report, rp, world>>

(* The first balance of a day that shows a total evaluation becomes the    *)
(* day's risk baseline; it is journaled under the remembered day.          *)
RiskBaseline == \/ UNCHANGED riskBaselines
                \/ riskBaselines' = riskBaselines \cup {task.today}

BalancePasses(i) ==
  /\ up
  /\ task.stage = "balance" /\ task.id = i
  /\ \/ JournalCommand(i) /\ RiskBaseline
     \/ AbandonCommand(i) /\ RiskBaseline
  /\ UNCHANGED <<day, up, crashes, diskLatched, killSwitch, unknownResult,
                 latched, report, rp, world>>

(* The daily loss or the losing streak reached its limit. *)
LossLimitTrips(i) ==
  /\ \/ GateOpen(i) /\ ~DailyLossCheck /\ UNCHANGED riskBaselines
     \/ /\ up
        /\ task.stage = "balance" /\ task.id = i
        /\ RiskBaseline
  /\ killSwitch' = TRUE
  /\ task' = Idle
  /\ UNCHANGED <<day, up, crashes, disk, diskLatched, mem, unknownResult, latched,
                 report, rp, world>>

(* The client posts the mutation, once: a POST is never retried. *)
Post(i) ==
  /\ up
  /\ task.stage = "calling" /\ task.id = i
  /\ task' = [task EXCEPT !.stage = "posted"]
  /\ sent' = [sent EXCEPT ![i] = @ + 1]
  /\ broker' = [broker EXCEPT ![i] = [st |-> "inflight", day |-> 0]]
  /\ UNCHANGED <<day, up, crashes, durable, mem, killSwitch, unknownResult,
                 latched, report, rp>>

(* The outcome and its journal entry. *)
Concluded(i, outcome) ==
  [st |-> outcome, day |-> mem[i].day,
   order |-> IF outcome = "ACCEPTED" THEN i ELSE NoOrder]

Conclude(i, outcome) ==
  /\ mem' = [mem EXCEPT ![i] = Concluded(i, outcome)]
  /\ disk' = [disk EXCEPT ![i] = Concluded(i, outcome)]
  /\ UNCHANGED <<killSwitch, unknownResult>>

(* enterUnknownResult(): the UNKNOWN event itself may fail to be written. *)
EnterUnknownResult(i) ==
  /\ mem' = [mem EXCEPT ![i] = Concluded(i, "UNKNOWN")]
  /\ \/ disk' = [disk EXCEPT ![i] = Concluded(i, "UNKNOWN")]
     \/ UNCHANGED disk
  /\ unknownResult' = TRUE
  /\ killSwitch' = TRUE

(* The client refuses before posting: no token, not cancelable, bad input. *)
RefusedLocally(i) ==
  /\ up
  /\ task.stage = "calling" /\ task.id = i
  /\ Conclude(i, "REJECTED") \/ EnterUnknownResult(i)
  /\ task' = Idle
  /\ UNCHANGED <<day, up, crashes, diskLatched, riskBaselines, latched, report,
                 rp, world>>

AcceptedAt(b) == b.st \in {"accepted", "listed"}

(* Mutant: a request that timed out is recorded as rejected. *)
DefiniteWithTimeouts(i) ==
  IF AcceptedAt(broker[i]) THEN {"ACCEPTED", "REJECTED"} ELSE {"REJECTED"}

(* The definite answers the broker can give. "rejected" is any order it     *)
(* says it did not take: a 4xx, or a 200 whose rt_cd is not "0". A timeout, *)
(* a broken connection, a 5xx or a garbled body is no answer.               *)
Definite(i) ==
  (IF AcceptedAt(broker[i]) THEN {"ACCEPTED"} ELSE {}) \cup
  (IF broker[i].st = "rejected" THEN {"REJECTED"} ELSE {})

(* The answer, definite or ambiguous; a definite one whose journal entry   *)
(* fails is as unknown as an ambiguous one.                                *)
Answer(i) ==
  /\ up
  /\ task.stage = "posted" /\ task.id = i
  /\ \/ \E outcome \in Definite(i) : Conclude(i, outcome)
     \/ EnterUnknownResult(i)
  /\ task' = Idle
  /\ UNCHANGED <<day, up, crashes, diskLatched, riskBaselines, latched, report,
                 rp, world>>

(***************************************************************************)
(* resolveUnknownResult(): the user settles a doubtful command against     *)
(* today's order history, as a task of the same queue.                     *)
(***************************************************************************)
BeginResolve(i) ==
  /\ up
  /\ task = Idle
  /\ mem[i].st = "UNKNOWN"
  /\ task' = [stage |-> "evidence", id |-> i, today |-> day]
  /\ UNCHANGED <<day, up, crashes, durable, mem, killSwitch, unknownResult,
                 latched, report, rp, world>>

(* Order numbers recorded for commands other than i, whatever their day. *)
TrackedExcept(i) == {mem[j].order : j \in Ids \ {i}}

(* Mutant: an order already tracked by another command can be linked again. *)
LinkableAgain(i) == {o \in Listed(task.today) : Shape[o] = Shape[i]}

(* Today's untracked orders of the same shape as i. *)
Linkable(i) ==
  {o \in Listed(task.today) : o \notin TrackedExcept(i) /\ Shape[o] = Shape[i]}

Settled(i, outcome, order) == [st |-> outcome, day |-> mem[i].day, order |-> order]

(* Evidence missing or contradicting, or the event not written. *)
ResolveRefused(i) ==
  /\ up
  /\ task.stage = "evidence" /\ task.id = i
  /\ task' = Idle
  /\ UNCHANGED <<day, up, crashes, durable, mem, killSwitch, unknownResult,
                 latched, report, rp, world>>

Resolve(i) ==
  /\ up
  /\ task.stage = "evidence" /\ task.id = i
  /\ \/ \E o \in Linkable(i) : mem' = [mem EXCEPT ![i] = Settled(i, "ACCEPTED", o)]
     \/ /\ Linkable(i) = {}
        /\ mem' = [mem EXCEPT ![i] = Settled(i, "DISMISSED", NoOrder)]
  /\ disk' = [disk EXCEPT ![i] = mem'[i]]
  /\ unknownResult' = UnknownLeft(mem')
  /\ task' = [task EXCEPT !.stage = "resolved"]
  /\ JoinRound
  /\ UNCHANGED <<day, up, crashes, diskLatched, riskBaselines, killSwitch, latched,
                 report, world>>

(***************************************************************************)
(* The process ends and starts again.                                      *)
(***************************************************************************)
Crash ==
  /\ up
  /\ crashes < MaxCrashes
  /\ crashes' = crashes + 1
  /\ up' = FALSE
  /\ mem' = [i \in Ids |-> Blank]
  /\ killSwitch' = FALSE
  /\ unknownResult' = FALSE
  /\ latched' = {}
  /\ report' = NoReport
  /\ rp' = NoRound
  /\ task' = Idle
  /\ UNCHANGED <<day, durable, world>>

(* replayJournal() and markInterruptedCommandsUnknown(), for one command. *)
(* Mutant: a command interrupted by the crash is forgotten. *)
ReplayedForgetting(c) == IF c.st = "PENDING" THEN Blank ELSE c

Replayed(c) == IF c.st = "PENDING" THEN [c EXCEPT !.st = "UNKNOWN"] ELSE c

(* Mutant: the latch of an unacknowledged mismatch is not replayed. *)
ReplayedLatchesLost == {}

ReplayedLatches == diskLatched

Restart ==
  /\ ~up
  /\ up' = TRUE
  /\ mem' = [i \in Ids |-> Replayed(disk[i])]
  /\ disk' = mem'
  /\ unknownResult' = UnknownLeft(mem')
  /\ killSwitch' = UnknownLeft(mem')
  /\ latched' = ReplayedLatches
  /\ UNCHANGED <<day, crashes, diskLatched, riskBaselines, report, rp, task, world>>

(* An UNKNOWN event cannot be written: the constructor throws after having *)
(* marked only some of the interrupted commands.                           *)
RestartFails ==
  /\ ~up
  /\ \E S \in SUBSET {i \in Ids : disk[i].st = "PENDING"} :
       disk' = [i \in Ids |-> IF i \in S THEN Replayed(disk[i]) ELSE disk[i]]
  /\ UNCHANGED <<day, up, crashes, diskLatched, riskBaselines, service, world>>

(***************************************************************************)
(* Environment: the broker and the calendar.                               *)
(***************************************************************************)
(* A posted request arrives, late or never; arrival is independent of the  *)
(* answer and of the process being up.                                     *)
BrokerDecides(i) ==
  /\ broker[i].st = "inflight"
  /\ \E fate \in {"lost", "rejected", "accepted"} :
       broker' = [broker EXCEPT ![i] = [st |-> fate, day |-> day]]
  /\ UNCHANGED <<day, up, crashes, durable, service, sent>>

(* An accepted order reaches the order history some time later. *)
BrokerLists(i) ==
  /\ broker[i].st = "accepted"
  /\ broker' = [broker EXCEPT ![i] = [st |-> "listed", day |-> broker[i].day]]
  /\ UNCHANGED <<day, up, crashes, durable, service, sent>>

DayRolls ==
  /\ day < MaxDay
  /\ day' = day + 1
  /\ UNCHANGED <<up, crashes, durable, service, world>>

TaskStep(i) ==
  \/ GateRefuses(i) \/ GateAwaitsBalance(i) \/ GatePasses(i)
  \/ BalancePasses(i) \/ LossLimitTrips(i)
  \/ Post(i) \/ RefusedLocally(i) \/ Answer(i)
  \/ Resolve(i) \/ ResolveRefused(i)

RoundStep == FetchHistory \/ FinishRound \/ FailRound

Next ==
  \/ Poll \/ RoundStep
  \/ SetKillSwitchOn \/ SetKillSwitchOff
  \/ \E i \in Ids : BeginGated(i) \/ BeginCancel(i) \/ BeginResolve(i)
  \/ \E i \in Ids : TaskStep(i)
  \/ Crash \/ Restart \/ RestartFails
  \/ \E i \in Ids : BrokerDecides(i) \/ BrokerLists(i)
  \/ DayRolls

Spec == Init /\ [][Next]_vars

(* The event loop runs what is ready, every request to KIS is answered or  *)
(* times out, and nothing else: users, polls, the broker, the calendar and *)
(* the restart of a crashed process are not obliged to act.                *)
Fairness == WF_vars(RoundStep) /\ WF_vars(\E i \in Ids : TaskStep(i))

FairSpec == Spec /\ Fairness

(***************************************************************************)
(* Properties                                                              *)
(***************************************************************************)
(* The paper order service keeps the promises of the ledger: the COMMAND   *)
(* event is on disk before the request leaves (ARCHITECTURE invariant 4),  *)
(* a client order id is sent at most once, over crashes, lost answers,     *)
(* failed appends and repeated submissions (invariant 5), and an outcome   *)
(* on disk is never rewritten (invariant 7).                               *)
Ledger == INSTANCE OrderLedger WITH
            line <- [i \in Ids |-> disk[i].st], posted <- sent

ImplementsLedger == Ledger!Spec

(* Whenever the process is up, every command that is on disk without an    *)
(* outcome and is not the one being executed is doubtful in memory, and a  *)
(* doubtful command keeps the service blocked: also when the UNKNOWN event *)
(* could not be written, and when only one of several was settled.         *)
UnresolvedBlocks ==
  up => \A i \in Ids :
          /\ disk[i].st \in {"PENDING", "UNKNOWN"} =>
               \/ mem[i].st = "UNKNOWN"
               \/ task.stage \in {"calling", "posted"} /\ task.id = i
          /\ mem[i].st = "UNKNOWN" => unknownResult

(* No outcome the journal records is a lie: ACCEPTED names an order the    *)
(* broker accepted, REJECTED a request it did not accept, whatever was     *)
(* lost, delayed or cut off.  (DISMISSED is the user's own word.)          *)
JournalTellsTheTruth ==
  \A i \in Ids :
    /\ disk[i].st = "ACCEPTED" => AcceptedAt(broker[disk[i].order])
    /\ disk[i].st = "REJECTED" => ~AcceptedAt(broker[i])

(* Two commands are never recorded as the same broker order, although the  *)
(* user may link a doubtful command to any order of its shape.             *)
OneOrderOneCommand ==
  \A i, j \in Ids : i # j /\ disk[i].st = "ACCEPTED" /\ disk[j].st = "ACCEPTED"
                     => disk[i].order # disk[j].order

(* On no day do the commands that add risk outnumber limits.maxDailyOrders,*)
(* although the count is taken before an await and the day may change      *)
(* during it.                                                              *)
DailyOrderCap ==
  \A d \in Days : Cardinality({i \in Gated : disk[i].day = d}) <= MaxDailyOrders

(* A mismatch that was journaled and not acknowledged latches the service  *)
(* whenever it is up: a restart does not lift it.                          *)
LatchSurvives == up => diskLatched \subseteq latched

(* No SUBMIT or REVISE is committed while any command is doubtful, however *)
(* old and whatever the user did with the kill switch (invariant 6).       *)
NoNewRiskInDoubt ==
  [][\A i \in Gated : mem[i] = Blank /\ mem'[i].st = "PENDING" =>
        \A j \in Ids : mem[j].st # "UNKNOWN"]_vars

(* No SUBMIT or REVISE is committed while the kill switch, the latch or    *)
(* the reconciliation blocks (invariant 8).                                *)
KillSwitchFirst ==
  [][\A i \in Gated : mem[i] = Blank /\ mem'[i].st = "PENDING" =>
        ~killSwitch /\ ~unknownResult /\ ~Blocked]_vars

(* An order reported as "not in the execution journal" is never one whose  *)
(* command is in flight, nor one recorded as accepted under its number.    *)
ExternalMeansUnknown ==
  [][\A o \in report'.external \ report.external :
       /\ mem[o].st # "PENDING"
       /\ \A i \in Ids : mem[i].st = "ACCEPTED" => mem[i].order # o]_vars

(* The queue moves on: whatever the task at its head waits for ends. *)
QueueMoves == task # Idle ~> task = Idle

=============================================================================
