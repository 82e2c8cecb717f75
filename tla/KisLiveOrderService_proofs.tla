---------------------- MODULE KisLiveOrderService_proofs ----------------------
(* The live order service for any commands, any orders placed elsewhere and any *)
(* number of crashes: it implements the ledger, keeps its latch, lets one order *)
(* out of its sight and does not falsify its own baseline.                      *)
EXTENDS KisLiveOrderService, FiniteSetTheorems, TLAPS

Outcomes == {"NONE", "PENDING", "UNKNOWN", "ACCEPTED", "REJECTED", "DISMISSED"}
Line == [st : Outcomes, order : Orders \cup {None}]
Fate == [st : {"none", "inflight", "accepted", "rejected", "lost"}, listed : BOOLEAN,
         filled : BOOLEAN, shown : BOOLEAN, canceled : BOOLEAN]
Stages == {"reconcile", "gate", "balance", "calling", "posted", "evidence", "resolved"}

RoundType ==
    round = [stage |-> round.stage, position |-> round.position, history |-> round.history]

TypeOK ==
    /\ up \in BOOLEAN /\ killSwitch \in BOOLEAN /\ unknownResult \in BOOLEAN
    /\ latched \in BOOLEAN /\ diskLatched \in BOOLEAN
    /\ current \in Statuses
    /\ disk \in [Ids -> Line] /\ mem \in [Ids -> Line]
    /\ task \in {Idle} \cup [stage : Stages, id : Ids]
    /\ RoundType
    /\ sent \in [Ids -> 0..1]
    /\ broker \in [Orders -> Fate]

Executing(i) == task.stage \in {"calling", "posted"} /\ task.id = i

Definitive == {"ACCEPTED", "REJECTED", "DISMISSED"}

(* What the memory of the running service knows of the journal. *)
MemoryMirrors ==
    up => \A i \in Ids :
            /\ mem[i].st = "NONE" => disk[i].st = "NONE"
            /\ mem[i].st = "PENDING" => Executing(i)
            /\ mem[i].st = "UNKNOWN" => disk[i].st \in {"PENDING", "UNKNOWN"} /\ unknownResult
            /\ disk[i].st \in {"PENDING", "UNKNOWN"} => mem[i].st = "UNKNOWN" \/ Executing(i)
            /\ {mem[i].st, disk[i].st} \cap Definitive # {} => mem[i] = disk[i]

(* What each stage of the task has established. *)
TaskStages ==
    /\ ~up => task = Idle
    /\ \A i \in Ids : task.id = i =>
         /\ task.stage \in {"calling", "posted"} => disk[i] = Pending /\ mem[i] = Pending
         /\ task.stage = "calling" => sent[i] = 0
         /\ task.stage = "posted" => sent[i] = 1
         /\ task.stage \in {"reconcile", "gate", "balance"} => mem[i].st = "NONE" /\ i \in Gated
         /\ task.stage = "evidence" => mem[i].st = "UNKNOWN"

(* What the journal and the broker know of each other, and what the broker does *)
(* in which order.                                                              *)
BrokerAgrees ==
    /\ \A i \in Ids :
         /\ disk[i].st = "NONE" => sent[i] = 0
         /\ sent[i] = 0 => broker[i].st = "none"
         /\ disk[i].st = "REJECTED" => broker[i].st \in {"none", "rejected"}
    /\ \A o \in Orders :
         /\ broker[o].filled => broker[o].st = "accepted" /\ Signed[o] # 0
         /\ broker[o].shown => broker[o].filled

(* A mismatch on disk is known to the running service. *)
LatchKnown == up /\ diskLatched => latched

(* Past a report that finds everything in order, and until the next order that  *)
(* adds risk has left, nothing is out of sight.                                 *)
HistoryListed ==
    round.history # None => \A o \in DOMAIN round.history : o \in Orders /\ broker[o].listed

AtGate ==
    \/ task.stage = "gate" /\ current = "CONSISTENT"
    \/ task.stage \in {"balance", "calling"} /\ task.id \in Gated

GateSees == AtGate => OutOfSight = {}

Sight == HistoryListed /\ GateSees /\ \A i, j \in OutOfSight : i = j

(* As long as no order placed elsewhere is filled: the baseline is right, and   *)
(* until there is one no order that adds risk has left.                         *)
Undisturbed == \A o \in Foreign : ~broker[o].filled

BaselineFirst ==
    baseline = None =>
        /\ current # "CONSISTENT"
        /\ ~(task.stage \in {"balance", "calling"} /\ task.id \in Gated)
        /\ \A i \in Gated : broker[i].st = "none"
        /\ round.position \in {None, OpeningPosition}
        /\ round.history # None =>
             \A o \in DOMAIN round.history : ~round.history[o].filled

BaselineKept == Undisturbed => baseline \in {None, OpeningPosition} /\ BaselineFirst

LiveInv ==
    /\ TypeOK /\ MemoryMirrors /\ TaskStages /\ BrokerAgrees
    /\ LatchKnown /\ Sight /\ BaselineKept

-----------------------------------------------------------------------------
LEMMA Identities == \A i \in Ids : i \in Orders /\ i # None
BY LiveAssumption DEF Orders

LEMMA Outcome ==
  /\ Blank.st = "NONE" /\ Blank.order = None
  /\ Pending.st = "PENDING" /\ Pending.order = None
BY DEF Blank, Pending

LEMMA ConcludedOutcome ==
  \A i \in Ids : \A o \in Outcomes :
    /\ Concluded(i, o) \in Line
    /\ Concluded(i, o).st = o
    /\ o = "ACCEPTED" => Concluded(i, o).order = i
BY Identities DEF Concluded, Line

LEMMA LineTypes == Blank \in Line /\ Pending \in Line
BY DEF Blank, Pending, Line, Outcomes

LEMMA ReplayedOutcome ==
  \A c \in Line : /\ Replayed(c) \in Line
                  /\ c.st = "PENDING" => Replayed(c).st = "UNKNOWN"
                  /\ c.st # "PENDING" => Replayed(c) = c
BY DEF Line, Replayed, Outcomes

LEMMA SettledOutcome ==
  \A i \in Ids : \A c \in Settled(i) : /\ c \in Line
                                       /\ c.st \in {"ACCEPTED", "DISMISSED"}
BY DEF Settled, Linkable, Rows, Line, Outcomes

LEMMA InitInv == Init => LiveInv
<1> SUFFICES ASSUME Init PROVE LiveInv
  OBVIOUS
<1> USE DEF Init, ReconcilerInit
<1>1. TypeOK
  <2>1. Absent \in Fate /\ "UNAVAILABLE" \in Statuses
    BY DEF Absent, Fate, Statuses
  <2>2. RoundType
    BY DEF NoRound, RoundType
  <2>3. broker \in [Orders -> Fate] /\ sent \in [Ids -> 0..1]
    BY <2>1
  <2>4. disk \in [Ids -> Line] /\ mem \in [Ids -> Line]
    BY LineTypes
  <2>5. QED
    BY <2>1, <2>2, <2>3, <2>4 DEF TypeOK
<1>2. MemoryMirrors /\ TaskStages
  BY Outcome, Identities DEF MemoryMirrors, TaskStages, Idle, Definitive
<1>3. BrokerAgrees /\ LatchKnown
  BY Outcome DEF BrokerAgrees, LatchKnown, Absent, Orders
<1>4. OutOfSight = {}
  BY DEF OutOfSight, Absent, Gated, Orders
<1>5. Sight
  BY <1>4 DEF Sight, HistoryListed, GateSees, NoRound
<1>6. BaselineKept
  BY DEF BaselineKept, BaselineFirst, NoRound, Idle, Gated, Absent, Orders
<1>7. QED
  BY <1>1, <1>2, <1>3, <1>5, <1>6 DEF LiveInv

-----------------------------------------------------------------------------
(* Type correctness.                                                            *)
LEMMA JournalCommandTypes ==
  ASSUME TypeOK, NEW i \in Ids, JournalCommand(i)
  PROVE  /\ disk' \in [Ids -> Line] /\ mem' \in [Ids -> Line]
         /\ task' \in {Idle} \cup [stage : Stages, id : Ids]
BY LineTypes DEF JournalCommand, TypeOK, Stages

LEMMA JoinRoundType ==
  ASSUME RoundType, JoinRound
  PROVE  RoundType'
<1>1. CASE round = NoRound
  BY <1>1 DEF JoinRound, Started, RoundType
<1>2. CASE round # NoRound
  BY <1>2 DEF JoinRound, RoundType
<1>3. QED
  BY <1>1, <1>2

LEMMA WakeType ==
  ASSUME TypeOK
  PROVE  Wake(task) \in {Idle} \cup [stage : Stages, id : Ids]
<1>1. CASE task = Idle
  BY <1>1 DEF Wake, Idle
<1>2. CASE task \in [stage : Stages, id : Ids]
  BY <1>2 DEF Wake, Stages
<1>3. QED
  BY <1>1, <1>2 DEF TypeOK

LEMMA RecordedTypes ==
  ASSUME TypeOK, NEW i \in Ids,
         \/ Conclude(i, "ACCEPTED") \/ Conclude(i, "REJECTED") \/ EnterUnknownResult(i)
  PROVE  /\ disk' \in [Ids -> Line] /\ mem' \in [Ids -> Line]
         /\ killSwitch' \in BOOLEAN /\ unknownResult' \in BOOLEAN
<1>1. \A o \in {"ACCEPTED", "REJECTED", "UNKNOWN"} : Concluded(i, o) \in Line
  BY ConcludedOutcome DEF Outcomes
<1>2. CASE Conclude(i, "ACCEPTED") \/ Conclude(i, "REJECTED")
  BY <1>1, <1>2 DEF Conclude, TypeOK
<1>3. CASE EnterUnknownResult(i)
  BY <1>1, <1>3 DEF EnterUnknownResult, TypeOK
<1>4. QED
  BY <1>2, <1>3

LEMMA ReconcileChanges ==
  ASSUME TypeOK, NEW m, NEW h, NEW p, Reconcile(m, h, p)
  PROVE  /\ current' \in Statuses
         /\ \/ latched' = latched /\ diskLatched' = diskLatched
            \/ latched' = TRUE /\ diskLatched' = TRUE
            \/ latched' = TRUE /\ diskLatched' = diskLatched
<1>1. \A q, a, d, w : Verdict(m, h, q, a, d, w) \in Statuses
  BY DEF Verdict, Statuses
<1>2. current' \in Statuses
  BY <1>1 DEF Reconcile, MarkUnavailable, Statuses
<1>3. \/ latched' = latched /\ diskLatched' = diskLatched
      \/ latched' = TRUE /\ diskLatched' = TRUE
      \/ latched' = TRUE /\ diskLatched' = diskLatched
  BY DEF Reconcile, MarkUnavailable
<1>4. QED
  BY <1>2, <1>3

LEMMA FateTypes ==
  ASSUME NEW f \in Fate
  PROVE  /\ \A st \in {"inflight", "accepted", "rejected", "lost"} : [f EXCEPT !.st = st] \in Fate
         /\ [f EXCEPT !.listed = TRUE] \in Fate
         /\ [f EXCEPT !.filled = TRUE] \in Fate
         /\ [f EXCEPT !.shown = TRUE] \in Fate
         /\ [f EXCEPT !.canceled = TRUE] \in Fate
BY DEF Fate

LEMMA TypeOKStep == TypeOK /\ TaskStages /\ [Next]_vars => TypeOK'
<1> SUFFICES ASSUME TypeOK, TaskStages, [Next]_vars PROVE TypeOK'
  OBVIOUS
<1> USE DEF memory, verdicts
<1>1. CASE GetBalance \/ ReadPosition \/ ReadHistory
  BY <1>1 DEF GetBalance, ReadPosition, ReadHistory, Started, TypeOK, RoundType
<1>2. CASE FinishRound \/ FailRound
  <2>1. Wake(task) \in {Idle} \cup [stage : Stages, id : Ids]
    BY WakeType
  <2>2. current' \in Statuses /\ latched' \in BOOLEAN /\ diskLatched' \in BOOLEAN
    BY <1>2, ReconcileChanges DEF FinishRound, FailRound, MarkUnavailable, TypeOK, Statuses
  <2>3. QED
    BY <1>2, <2>1, <2>2 DEF FinishRound, FailRound, TypeOK, RoundType, NoRound
<1>3. CASE SetKillSwitchOn \/ SetKillSwitchOff
  BY <1>3 DEF SetKillSwitchOn, SetKillSwitchOff, Acknowledge, TypeOK, RoundType
<1>4. ASSUME NEW i \in Ids, Begin(i) \/ GatePasses(i) \/ LossLimit(i) PROVE TypeOK'
  <2>1. RoundType'
    <3>1. RoundType
      BY DEF TypeOK
    <3>2. CASE round' = round
      BY <3>1, <3>2 DEF RoundType
    <3>3. QED
      BY <1>4, <3>1, <3>2, JoinRoundType DEF Begin, GatePasses, LossLimit
  <2>2. /\ disk' \in [Ids -> Line] /\ mem' \in [Ids -> Line]
        /\ task' \in {Idle} \cup [stage : Stages, id : Ids]
    <3>1. CASE JournalCommand(i)
      BY <3>1, JournalCommandTypes
    <3>2. CASE /\ task' = Idle \/ \E x \in {"reconcile", "balance"} : task' = [stage |-> x, id |-> i]
               /\ UNCHANGED <<disk, mem>>
      BY <3>2 DEF TypeOK, Stages
    <3>3. QED
      BY <1>4, <3>1, <3>2 DEF Begin, GatePasses, LossLimit
  <2>3. killSwitch' \in BOOLEAN
    BY <1>4 DEF Begin, GatePasses, LossLimit, TypeOK
  <2>4. QED
    BY <1>4, <2>1, <2>2, <2>3 DEF Begin, GatePasses, LossLimit, TypeOK, RoundType
<1>5. ASSUME NEW i \in Ids, GateRefuses(i) \/ BeginResolve(i) PROVE TypeOK'
  BY <1>5 DEF GateRefuses, BeginResolve, TypeOK, RoundType, Stages
<1>6. ASSUME NEW i \in Ids, Post(i) PROVE TypeOK'
  <2>1. sent[i] = 0
    BY <1>6 DEF Post, TaskStages
  <2>2. QED
    BY <1>6, <2>1 DEF Post, TypeOK, RoundType, Stages, Fate, Orders
<1>7. ASSUME NEW i \in Ids, RefusedLocally(i) \/ Answer(i) PROVE TypeOK'
  <2>1. Conclude(i, "ACCEPTED") \/ Conclude(i, "REJECTED") \/ EnterUnknownResult(i)
    BY <1>7 DEF RefusedLocally, Answer
  <2>2. QED
    BY <1>7, <2>1, RecordedTypes DEF RefusedLocally, Answer, TypeOK, RoundType
<1>8. ASSUME NEW i \in Ids, Resolve(i) PROVE TypeOK'
  <2>1. RoundType'
    <3>1. RoundType
      BY DEF TypeOK
    <3>2. CASE round' = round
      BY <3>1, <3>2 DEF RoundType
    <3>3. QED
      BY <1>8, <3>1, <3>2, JoinRoundType DEF Resolve
  <2>2. disk' \in [Ids -> Line] /\ mem' \in [Ids -> Line]
    <3>1. CASE UNCHANGED <<disk, mem>>
      BY <3>1 DEF TypeOK
    <3>2. ASSUME NEW line \in Settled(i), mem' = [mem EXCEPT ![i] = line],
                 disk' = [disk EXCEPT ![i] = mem'[i]]
          PROVE  disk' \in [Ids -> Line] /\ mem' \in [Ids -> Line]
      BY <3>2, SettledOutcome DEF TypeOK
    <3>3. QED
      BY <1>8, <3>1, <3>2 DEF Resolve
  <2>3. QED
    BY <1>8, <2>1, <2>2 DEF Resolve, TypeOK, RoundType, Stages
<1>9. CASE Crash
  BY <1>9, LineTypes DEF Crash, TypeOK, RoundType, NoRound, Statuses
<1>10. CASE Restart
  <2>1. disk' \in [Ids -> Line] /\ mem' \in [Ids -> Line]
    <3>1. \A i \in Ids : Replayed(disk[i]) \in Line /\ disk[i] \in Line
      BY ReplayedOutcome DEF TypeOK
    <3>2. QED
      BY <1>10, <3>1 DEF Restart, TypeOK
  <2>2. QED
    BY <1>10, <2>1 DEF Restart, ReplayedLatch, TypeOK, RoundType
<1>11. ASSUME NEW i \in Ids, Decides(i) PROVE TypeOK'
  <2>1. broker' \in [Orders -> Fate]
    <3>1. PICK st \in {"accepted", "rejected", "lost"} :
            \/ broker' = [broker EXCEPT ![i].st = st]
            \/ /\ Open(Original[i])
               /\ broker' = [broker EXCEPT ![i].st = st, ![Original[i]].canceled = TRUE]
      BY <1>11 DEF Decides
    <3>2. broker \in [Orders -> Fate]
      BY DEF TypeOK
    <3>3. CASE broker' = [broker EXCEPT ![i].st = st]
      BY <3>2, <3>3, FateTypes, Identities
    <3>4. CASE broker' = [broker EXCEPT ![i].st = st, ![Original[i]].canceled = TRUE]
      <4>1. PICK b \in [Orders -> Fate] : b = [broker EXCEPT ![i].st = st]
        BY <3>2, FateTypes, Identities
      <4>2. broker' = [b EXCEPT ![Original[i]].canceled = TRUE]
        BY <3>4, <4>1
      <4>3. QED
        BY <4>2, FateTypes
    <3>5. QED
      BY <3>1, <3>3, <3>4
  <2>2. QED
    BY <1>11, <2>1 DEF Decides, TypeOK, RoundType
<1>12. ASSUME NEW o \in Orders, PlacedElsewhere(o) \/ Advances(o) PROVE TypeOK'
  <2>1. broker' \in [Orders -> Fate]
    <3>1. broker[o] \in Fate /\ broker \in [Orders -> Fate]
      BY DEF TypeOK
    <3>2. \E f \in Fate : broker' = [broker EXCEPT ![o] = f]
      BY <1>12, <3>1, FateTypes DEF PlacedElsewhere, Advances
    <3>3. QED
      BY <3>1, <3>2
  <2>2. QED
    BY <1>12, <2>1 DEF PlacedElsewhere, Advances, TypeOK, RoundType
<1>13. CASE UNCHANGED vars
  BY <1>13 DEF vars, TypeOK, RoundType
<1>14. QED
  BY <1>1, <1>2, <1>3, <1>4, <1>5, <1>6, <1>7, <1>8, <1>9, <1>10, <1>11, <1>12, <1>13
     DEF Next, TaskStep, Orders

-----------------------------------------------------------------------------
(* What the steps do to the commands, in memory and in the journal.             *)
Mirrored == TypeOK /\ MemoryMirrors /\ TaskStages /\ BrokerAgrees

LEMMA MirrorsFrame ==
  ASSUME MemoryMirrors, UNCHANGED <<up, disk, mem, unknownResult>>,
         \A j \in Ids : Executing(j) => Executing(j)'
  PROVE  MemoryMirrors'
BY DEF MemoryMirrors

LEMMA MirrorsJournalCommand ==
  ASSUME Mirrored, NEW i \in Ids, up, up' = up, mem[i].st = "NONE",
         task.stage \notin {"calling", "posted"}, unknownResult' = unknownResult,
         JournalCommand(i)
  PROVE  MemoryMirrors'
<1>1. CASE UNCHANGED <<disk, mem>>
  BY <1>1, MirrorsFrame DEF Mirrored, Executing
<1>2. CASE /\ disk' = [disk EXCEPT ![i] = Pending] /\ mem' = [mem EXCEPT ![i] = Pending]
           /\ task' = [stage |-> "calling", id |-> i]
  <2>1. mem'[i] = Pending /\ disk'[i] = Pending /\ Executing(i)'
    BY <1>2 DEF Mirrored, TypeOK, Executing
  <2>2. \A j \in Ids \ {i} : mem'[j] = mem[j] /\ disk'[j] = disk[j] /\ ~Executing(j)
    BY <1>2 DEF Mirrored, TypeOK, Executing
  <2>3. QED
    BY <2>1, <2>2, Outcome DEF Mirrored, MemoryMirrors, Definitive
<1>3. QED
  BY <1>1, <1>2 DEF JournalCommand

LEMMA MirrorsRecorded ==
  ASSUME Mirrored, NEW i \in Ids, up, up' = up, Executing(i),
         \/ Conclude(i, "ACCEPTED") \/ Conclude(i, "REJECTED") \/ EnterUnknownResult(i)
  PROVE  MemoryMirrors'
<1>1. PICK o \in {"ACCEPTED", "REJECTED", "UNKNOWN"} : mem' = [mem EXCEPT ![i] = Concluded(i, o)]
  BY DEF Conclude, EnterUnknownResult
<1>2. mem'[i] = Concluded(i, o) /\ mem'[i].st = o
  BY <1>1, ConcludedOutcome DEF Mirrored, TypeOK, Outcomes
<1>3. disk[i] = Pending
  BY DEF Mirrored, TaskStages, Executing
<1>4. \A j \in Ids \ {i} : mem'[j] = mem[j] /\ disk'[j] = disk[j] /\ ~Executing(j)
  BY <1>1 DEF Mirrored, TypeOK, Executing, Conclude, EnterUnknownResult
<1>5. CASE Conclude(i, "ACCEPTED") \/ Conclude(i, "REJECTED")
  <2>1. o # "UNKNOWN" /\ disk'[i] = mem'[i] /\ unknownResult' = unknownResult
    <3>1. PICK p \in {"ACCEPTED", "REJECTED"} : Conclude(i, p)
      BY <1>5
    <3>2. mem'[i] = Concluded(i, p) /\ Concluded(i, p).st = p
      BY <3>1, ConcludedOutcome DEF Conclude, Mirrored, TypeOK, Outcomes
    <3>3. QED
      BY <1>2, <3>1, <3>2 DEF Conclude, Mirrored, TypeOK
  <2>2. QED
    BY <1>2, <1>4, <2>1 DEF Mirrored, MemoryMirrors, Definitive
<1>6. CASE EnterUnknownResult(i)
  <2>1. mem'[i].st = "UNKNOWN" /\ unknownResult'
    BY <1>6, ConcludedOutcome DEF EnterUnknownResult, Mirrored, TypeOK, Outcomes
  <2>2. disk'[i] = Pending \/ disk'[i] = mem'[i]
    BY <1>3, <1>6 DEF EnterUnknownResult, Mirrored, TypeOK
  <2>3. QED
    BY <1>4, <2>1, <2>2, Outcome DEF Mirrored, MemoryMirrors, Definitive
<1>7. QED
  BY <1>5, <1>6

LEMMA MirrorsResolve ==
  ASSUME Mirrored, NEW i \in Ids, Resolve(i)
  PROVE  MemoryMirrors'
<1> USE DEF memory, verdicts
<1>1. \A j \in Ids : ~Executing(j) /\ ~Executing(j)'
  <2>1. task.stage = "evidence"
    BY DEF Resolve
  <2>2. task'.stage \in {"resolved", "idle"}
    <3>1. task = [stage |-> "evidence", id |-> i]
      BY DEF Resolve
    <3>2. task' = [task EXCEPT !.stage = "resolved"] \/ task' = Idle
      BY Zenon DEF Resolve
    <3>3. QED
      BY <3>1, <3>2 DEF Idle
  <2>3. QED
    BY <2>1, <2>2 DEF Executing
<1>2. CASE UNCHANGED <<disk, mem, unknownResult>>
  BY <1>1, <1>2, MirrorsFrame DEF Resolve, Mirrored
<1>3. ASSUME NEW line \in Settled(i), mem' = [mem EXCEPT ![i] = line],
             disk' = [disk EXCEPT ![i] = mem'[i]],
             unknownResult' = \E j \in Ids : mem'[j].st = "UNKNOWN"
      PROVE  MemoryMirrors'
  <2>1. mem'[i] = line /\ disk'[i] = line /\ line.st \in {"ACCEPTED", "DISMISSED"}
    BY <1>3, SettledOutcome DEF Mirrored, TypeOK
  <2>2. \A j \in Ids \ {i} : mem'[j] = mem[j] /\ disk'[j] = disk[j]
    BY <1>3 DEF Mirrored, TypeOK
  <2>3. up
    BY DEF Resolve
  <2>4. \A j \in Ids : mem'[j].st = "UNKNOWN" => unknownResult'
    BY <1>3, Zenon
  <2>5. QED
    BY <1>1, <2>1, <2>2, <2>3, <2>4 DEF Mirrored, MemoryMirrors, Definitive
<1>4. QED
  BY <1>2, <1>3 DEF Resolve

LEMMA MirrorsRestart ==
  ASSUME Mirrored, Restart
  PROVE  MemoryMirrors'
<1>1. CASE up'
  <2>1. \A i \in Ids : mem'[i] = Replayed(disk[i]) /\ disk'[i] = mem'[i]
    BY <1>1 DEF Restart
  <2>2. \A i \in Ids : mem'[i].st # "PENDING"
    BY <2>1, ReplayedOutcome DEF Mirrored, TypeOK
  <2>3. \A i \in Ids : mem'[i].st = "UNKNOWN" => unknownResult'
    BY <1>1, Zenon DEF Restart
  <2>4. QED
    BY <2>1, <2>2, <2>3 DEF MemoryMirrors
<1>2. QED
  BY <1>1 DEF MemoryMirrors

LEMMA MirrorsStep == Mirrored /\ [Next]_vars => MemoryMirrors'
<1> SUFFICES ASSUME Mirrored, [Next]_vars PROVE MemoryMirrors'
  OBVIOUS
<1> USE DEF memory, verdicts
<1>0. MemoryMirrors /\ TaskStages
  BY DEF Mirrored
<1>1. CASE \/ GetBalance \/ ReadPosition \/ ReadHistory \/ SetKillSwitchOn \/ SetKillSwitchOff
           \/ UNCHANGED vars
  BY <1>0, <1>1, MirrorsFrame
     DEF GetBalance, ReadPosition, ReadHistory, SetKillSwitchOn, SetKillSwitchOff, vars, Executing
<1>2. CASE FinishRound \/ FailRound
  <2>1. \A j \in Ids : Executing(j) => Executing(j)'
    BY <1>2 DEF FinishRound, FailRound, Wake, Executing
  <2>2. QED
    BY <1>0, <1>2, <2>1, MirrorsFrame DEF FinishRound, FailRound
<1>3. ASSUME NEW i \in Ids, Begin(i) \/ GatePasses(i) \/ LossLimit(i) PROVE MemoryMirrors'
  <2>1. /\ up /\ up' = up /\ unknownResult' = unknownResult
        /\ task.stage \notin {"calling", "posted"} /\ mem[i].st = "NONE"
    <3>1. CASE Begin(i)
      BY <3>1, Outcome DEF Begin, Idle
    <3>2. CASE GatePasses(i)
      BY <1>0, <3>2 DEF GatePasses, TaskStages
    <3>3. CASE LossLimit(i)
      BY <1>0, <3>3 DEF LossLimit, TaskStages
    <3>4. QED
      BY <1>3, <3>1, <3>2, <3>3
  <2>2. CASE JournalCommand(i)
    BY <2>1, <2>2, MirrorsJournalCommand
  <2>3. CASE UNCHANGED <<disk, mem>>
    BY <1>0, <2>1, <2>3, MirrorsFrame DEF Executing
  <2>4. QED
    BY <1>3, <2>2, <2>3 DEF Begin, GatePasses, LossLimit
<1>4. ASSUME NEW i \in Ids, GateRefuses(i) \/ BeginResolve(i) \/ Post(i) PROVE MemoryMirrors'
  BY <1>0, <1>4, MirrorsFrame DEF GateRefuses, BeginResolve, Post, Executing, Idle
<1>5. ASSUME NEW i \in Ids, RefusedLocally(i) \/ Answer(i) PROVE MemoryMirrors'
  <2>1. up /\ up' = up /\ Executing(i)
    BY <1>5 DEF RefusedLocally, Answer, Executing
  <2>2. Conclude(i, "ACCEPTED") \/ Conclude(i, "REJECTED") \/ EnterUnknownResult(i)
    BY <1>5 DEF RefusedLocally, Answer
  <2>3. QED
    BY <2>1, <2>2, MirrorsRecorded
<1>6. CASE Crash
  BY <1>6 DEF Crash, MemoryMirrors
<1>7. ASSUME NEW i \in Ids, Decides(i) PROVE MemoryMirrors'
  BY <1>0, <1>7, MirrorsFrame DEF Decides, Executing
<1>8. ASSUME NEW o \in Orders, PlacedElsewhere(o) \/ Advances(o) PROVE MemoryMirrors'
  BY <1>0, <1>8, MirrorsFrame DEF PlacedElsewhere, Advances, Executing
<1>9. QED
  BY <1>1, <1>2, <1>3, <1>4, <1>5, <1>6, <1>7, <1>8, MirrorsResolve, MirrorsRestart
     DEF Next, TaskStep, Orders

-----------------------------------------------------------------------------
(* What each stage of the task has established stays true until the task ends.  *)
LEMMA StagesFrame ==
  ASSUME TaskStages, UNCHANGED <<up, task, disk, mem, sent>>
  PROVE  TaskStages'
BY DEF TaskStages

LEMMA StagesIdle ==
  ASSUME task' = Idle
  PROVE  TaskStages'
BY Identities DEF TaskStages, Idle

LEMMA StagesJournalCommand ==
  ASSUME Mirrored, NEW i \in Ids, up, up' = up, mem[i].st = "NONE", sent' = sent,
         JournalCommand(i)
  PROVE  TaskStages'
<1>1. CASE task' = Idle
  BY <1>1, StagesIdle
<1>2. CASE /\ disk' = [disk EXCEPT ![i] = Pending] /\ mem' = [mem EXCEPT ![i] = Pending]
           /\ task' = [stage |-> "calling", id |-> i]
  <2>1. mem'[i] = Pending /\ disk'[i] = Pending
    BY <1>2 DEF Mirrored, TypeOK
  <2>2. sent[i] = 0
    BY DEF Mirrored, MemoryMirrors, BrokerAgrees
  <2>3. QED
    BY <1>2, <2>1, <2>2 DEF TaskStages
<1>3. QED
  BY <1>1, <1>2 DEF JournalCommand

LEMMA StagesStep == Mirrored /\ [Next]_vars => TaskStages'
<1> SUFFICES ASSUME Mirrored, [Next]_vars PROVE TaskStages'
  OBVIOUS
<1> USE DEF memory, verdicts
<1>0. TaskStages
  BY DEF Mirrored
<1>1. CASE \/ GetBalance \/ ReadPosition \/ ReadHistory \/ SetKillSwitchOn \/ SetKillSwitchOff
           \/ UNCHANGED vars
  BY <1>0, <1>1, StagesFrame
     DEF GetBalance, ReadPosition, ReadHistory, SetKillSwitchOn, SetKillSwitchOff, vars
<1>2. CASE FinishRound \/ FailRound
  <2>1. /\ up /\ up' = up /\ UNCHANGED <<disk, mem, sent>> /\ task' = Wake(task)
    BY <1>2 DEF FinishRound, FailRound
  <2>2. CASE task.stage = "reconcile"
    <3>1. task' = [task EXCEPT !.stage = "gate"]
      BY <2>1, <2>2 DEF Wake
    <3>2. task'.stage = "gate" /\ task'.id = task.id
      BY <2>2, <3>1 DEF Mirrored, TypeOK, Idle
    <3>3. QED
      BY <1>0, <2>1, <2>2, <3>2 DEF TaskStages
  <2>3. CASE task.stage # "reconcile"
    <3>1. task' = task \/ task' = Idle
      BY <2>1, <2>3 DEF Wake
    <3>2. QED
      BY <1>0, <2>1, <3>1, StagesFrame, StagesIdle
  <2>4. QED
    BY <2>2, <2>3
<1>3. ASSUME NEW i \in Ids, Begin(i) \/ GatePasses(i) \/ LossLimit(i) PROVE TaskStages'
  <2>1. /\ up /\ up' = up /\ sent' = sent /\ mem[i].st = "NONE"
    <3>1. CASE Begin(i)
      BY <3>1, Outcome DEF Begin
    <3>2. CASE GatePasses(i)
      BY <1>0, <3>2 DEF GatePasses, TaskStages
    <3>3. CASE LossLimit(i)
      BY <1>0, <3>3 DEF LossLimit, TaskStages
    <3>4. QED
      BY <1>3, <3>1, <3>2, <3>3
  <2>2. CASE JournalCommand(i)
    BY <2>1, <2>2, StagesJournalCommand
  <2>3. CASE task' = Idle
    BY <2>3, StagesIdle
  <2>4. CASE /\ \E x \in {"reconcile", "balance"} : task' = [stage |-> x, id |-> i]
             /\ UNCHANGED <<disk, mem>> /\ i \in Gated
    BY <2>1, <2>4 DEF TaskStages
  <2>5. GatePasses(i) => i \in Gated
    BY <1>0 DEF GatePasses, TaskStages
  <2>6. QED
    BY <1>3, <2>2, <2>3, <2>4, <2>5 DEF Begin, GatePasses, LossLimit
<1>4. ASSUME NEW i \in Ids, GateRefuses(i) \/ RefusedLocally(i) \/ Answer(i) PROVE TaskStages'
  BY <1>4, StagesIdle DEF GateRefuses, RefusedLocally, Answer
<1>5. ASSUME NEW i \in Ids, BeginResolve(i) PROVE TaskStages'
  BY <1>5 DEF BeginResolve, TaskStages
<1>6. ASSUME NEW i \in Ids, Post(i) PROVE TaskStages'
  <2>1. /\ task' = [stage |-> "posted", id |-> i] /\ UNCHANGED <<up, disk, mem>> /\ up
    BY <1>6 DEF Post
  <2>2. sent'[i] = 1
    BY <1>0, <1>6 DEF Post, TaskStages, Mirrored, TypeOK
  <2>3. disk[i] = Pending /\ mem[i] = Pending
    BY <1>0, <1>6 DEF Post, TaskStages
  <2>4. QED
    BY <2>1, <2>2, <2>3 DEF TaskStages
<1>7. ASSUME NEW i \in Ids, Resolve(i) PROVE TaskStages'
  <2>1. task = [stage |-> "evidence", id |-> i] /\ up /\ up' = up
    BY <1>7 DEF Resolve
  <2>2. task' = [task EXCEPT !.stage = "resolved"] \/ task' = Idle
    BY <1>7, Zenon DEF Resolve
  <2>3. QED
    BY <2>1, <2>2, StagesIdle DEF TaskStages
<1>8. CASE Crash
  BY <1>8, StagesIdle DEF Crash
<1>9. CASE Restart
  BY <1>0, <1>9, StagesIdle DEF Restart, TaskStages
<1>10. ASSUME NEW i \in Ids, Decides(i) PROVE TaskStages'
  BY <1>0, <1>10, StagesFrame DEF Decides
<1>11. ASSUME NEW o \in Orders, PlacedElsewhere(o) \/ Advances(o) PROVE TaskStages'
  BY <1>0, <1>11, StagesFrame DEF PlacedElsewhere, Advances
<1>12. QED
  BY <1>1, <1>2, <1>3, <1>4, <1>5, <1>6, <1>7, <1>8, <1>9, <1>10, <1>11
     DEF Next, TaskStep, Orders

-----------------------------------------------------------------------------
(* The journal and the broker.                                                  *)
LEMMA BrokerFrame ==
  ASSUME BrokerAgrees, UNCHANGED <<sent, broker>>,
         \A i \in Ids : /\ disk'[i].st = "NONE" => disk[i].st = "NONE"
                        /\ disk'[i].st = "REJECTED" => disk[i].st = "REJECTED"
                                                      \/ broker[i].st \in {"none", "rejected"}
  PROVE  BrokerAgrees'
BY DEF BrokerAgrees

LEMMA BrokerRecorded ==
  ASSUME Mirrored, NEW i \in Ids, UNCHANGED <<sent, broker>>, Executing(i),
         \/ Conclude(i, "ACCEPTED") \/ EnterUnknownResult(i)
         \/ Conclude(i, "REJECTED") /\ broker[i].st \in {"none", "rejected"}
  PROVE  BrokerAgrees'
<1>1. /\ Concluded(i, "ACCEPTED").st = "ACCEPTED" /\ Concluded(i, "REJECTED").st = "REJECTED"
      /\ Concluded(i, "UNKNOWN").st = "UNKNOWN"
  BY ConcludedOutcome DEF Outcomes
<1>2. \A j \in Ids \ {i} : disk'[j] = disk[j]
  BY DEF Conclude, EnterUnknownResult, Mirrored, TypeOK
<1>3. disk'[i] = disk[i] \/ disk'[i] = mem'[i]
  BY DEF Conclude, EnterUnknownResult, Mirrored, TypeOK
<1>4. /\ mem'[i].st \in {"ACCEPTED", "REJECTED", "UNKNOWN"}
      /\ mem'[i].st = "REJECTED" => broker[i].st \in {"none", "rejected"}
  BY <1>1 DEF Conclude, EnterUnknownResult, Mirrored, TypeOK
<1>5. QED
  BY <1>2, <1>3, <1>4, BrokerFrame DEF Mirrored

LEMMA BrokerStep == Mirrored /\ [Next]_vars => BrokerAgrees'
<1> SUFFICES ASSUME Mirrored, [Next]_vars PROVE BrokerAgrees'
  OBVIOUS
<1> USE DEF memory, verdicts
<1>0. BrokerAgrees /\ TaskStages /\ MemoryMirrors
  BY DEF Mirrored
<1>1. CASE \/ GetBalance \/ ReadPosition \/ ReadHistory \/ SetKillSwitchOn \/ SetKillSwitchOff
           \/ FinishRound \/ FailRound \/ Crash \/ UNCHANGED vars
  BY <1>0, <1>1, BrokerFrame
     DEF GetBalance, ReadPosition, ReadHistory, SetKillSwitchOn, SetKillSwitchOff, FinishRound,
         FailRound, Crash, vars
<1>2. ASSUME NEW i \in Ids, Begin(i) \/ GatePasses(i) \/ LossLimit(i) PROVE BrokerAgrees'
  <2>1. UNCHANGED <<sent, broker>>
    BY <1>2 DEF Begin, GatePasses, LossLimit
  <2>2. \A j \in Ids : disk'[j] = disk[j] \/ disk'[j] = Pending
    <3>1. disk' = disk \/ disk' = [disk EXCEPT ![i] = Pending]
      BY <1>2 DEF Begin, GatePasses, LossLimit, JournalCommand
    <3>2. QED
      BY <3>1 DEF Mirrored, TypeOK
  <2>3. QED
    BY <1>0, <2>1, <2>2, BrokerFrame, Outcome
<1>3. ASSUME NEW i \in Ids, GateRefuses(i) \/ BeginResolve(i) PROVE BrokerAgrees'
  BY <1>0, <1>3, BrokerFrame DEF GateRefuses, BeginResolve
<1>4. ASSUME NEW i \in Ids, Post(i) PROVE BrokerAgrees'
  <2>0. sent[i] = 0
    BY <1>0, <1>4 DEF Post, TaskStages
  <2>1. sent' = [sent EXCEPT ![i] = 1] /\ disk' = disk
    BY <1>4, <2>0 DEF Post
  <2>2. broker' = [broker EXCEPT ![i].st = "inflight"] /\ disk[i] = Pending /\ sent[i] = 0
    BY <1>0, <1>4 DEF Post, TaskStages
  <2>3. broker[i].st = "none" /\ i \in Orders
    BY <1>0, <2>2, Identities DEF BrokerAgrees
  <2>4. \A o \in Orders : /\ broker'[o].filled = broker[o].filled
                          /\ broker'[o].shown = broker[o].shown
                          /\ o # i => broker'[o].st = broker[o].st
    BY <2>2 DEF Mirrored, TypeOK, Fate
  <2>5. ~broker[i].filled
    BY <1>0, <2>3 DEF BrokerAgrees
  <2>6. \A o \in Orders : broker'[o].filled => broker'[o].st = "accepted" /\ Signed[o] # 0
    BY <1>0, <2>4, <2>5 DEF BrokerAgrees
  <2>7. \A j \in Ids : /\ disk'[j].st = "NONE" => sent'[j] = 0
                       /\ sent'[j] = 0 => broker'[j].st = "none"
                       /\ disk'[j].st = "REJECTED" => broker'[j].st \in {"none", "rejected"}
    BY <1>0, <2>1, <2>2, <2>4, Outcome, Identities DEF BrokerAgrees, Mirrored, TypeOK
  <2>8. QED
    BY <1>0, <2>4, <2>6, <2>7 DEF BrokerAgrees
<1>5. ASSUME NEW i \in Ids, RefusedLocally(i) PROVE BrokerAgrees'
  <2>1. Executing(i) /\ sent[i] = 0
    BY <1>0, <1>5 DEF RefusedLocally, Executing, TaskStages
  <2>2. broker[i].st = "none"
    BY <1>0, <2>1 DEF BrokerAgrees
  <2>3. QED
    BY <1>5, <2>1, <2>2, BrokerRecorded DEF RefusedLocally
<1>6. ASSUME NEW i \in Ids, Answer(i) PROVE BrokerAgrees'
  <2>1. Executing(i) /\ UNCHANGED <<sent, broker>>
    BY <1>6 DEF Answer, Executing
  <2>2. \/ Conclude(i, "ACCEPTED") \/ EnterUnknownResult(i)
        \/ Conclude(i, "REJECTED") /\ broker[i].st = "rejected"
    BY <1>6 DEF Answer, Definite
  <2>3. QED
    BY <2>1, <2>2, BrokerRecorded
<1>7. ASSUME NEW i \in Ids, Resolve(i) PROVE BrokerAgrees'
  <2>1. UNCHANGED <<sent, broker>>
    BY <1>7 DEF Resolve
  <2>2. \A j \in Ids : disk'[j] = disk[j] \/ disk'[j].st \in {"ACCEPTED", "DISMISSED"}
    <3>1. CASE disk' = disk
      BY <3>1
    <3>2. ASSUME NEW line \in Settled(i), mem' = [mem EXCEPT ![i] = line],
                 disk' = [disk EXCEPT ![i] = mem'[i]]
          PROVE  \A j \in Ids : disk'[j] = disk[j] \/ disk'[j].st \in {"ACCEPTED", "DISMISSED"}
      BY <3>2, SettledOutcome DEF Mirrored, TypeOK
    <3>3. QED
      BY <1>7, <3>1, <3>2 DEF Resolve
  <2>3. QED
    BY <1>0, <2>1, <2>2, BrokerFrame
<1>8. CASE Restart
  <2>1. UNCHANGED <<sent, broker>>
    BY <1>8 DEF Restart
  <2>2. \A j \in Ids : disk'[j] = disk[j] \/ disk'[j] = Replayed(disk[j])
    BY <1>8 DEF Restart
  <2>3. \A j \in Ids : disk'[j] = disk[j] \/ disk'[j].st = "UNKNOWN"
    BY <2>2, ReplayedOutcome DEF Mirrored, TypeOK
  <2>4. QED
    BY <1>0, <2>1, <2>3, BrokerFrame
<1>9. ASSUME NEW i \in Ids, Decides(i) PROVE BrokerAgrees'
  <2>1. PICK st \in {"accepted", "rejected", "lost"} :
          \/ broker' = [broker EXCEPT ![i].st = st]
          \/ broker' = [broker EXCEPT ![i].st = st, ![Original[i]].canceled = TRUE]
    BY <1>9 DEF Decides
  <2>2. i \in Orders /\ broker[i].st = "inflight" /\ disk' = disk /\ sent' = sent
    BY <1>9, Identities DEF Decides
  <2>3. \A o \in Orders : /\ broker'[o].filled = broker[o].filled
                          /\ broker'[o].shown = broker[o].shown
                          /\ o # i => broker'[o].st = broker[o].st
    BY <2>1 DEF Mirrored, TypeOK, Fate
  <2>4. ~broker[i].filled /\ sent[i] # 0 /\ disk[i].st # "REJECTED"
    BY <1>0, <2>2 DEF BrokerAgrees
  <2>5. \A o \in Orders : /\ broker'[o].filled => broker'[o].st = "accepted" /\ Signed[o] # 0
                          /\ broker'[o].shown => broker'[o].filled
    BY <1>0, <2>3, <2>4 DEF BrokerAgrees
  <2>6. QED
    BY <1>0, <2>2, <2>3, <2>4, <2>5, Identities DEF BrokerAgrees
<1>10. ASSUME NEW o \in Foreign, PlacedElsewhere(o) PROVE BrokerAgrees'
  <2>1. broker[o].st = "none" /\ broker' = [broker EXCEPT ![o].st = "accepted"] /\ o \notin Ids
    BY <1>10, LiveAssumption DEF PlacedElsewhere
  <2>2. \A q \in Orders : /\ broker'[q].filled = broker[q].filled
                          /\ broker'[q].shown = broker[q].shown
                          /\ q # o => broker'[q].st = broker[q].st
    BY <2>1 DEF Mirrored, TypeOK, Fate
  <2>3. UNCHANGED <<disk, sent>>
    BY <1>10 DEF PlacedElsewhere
  <2>4. QED
    BY <1>0, <2>1, <2>2, <2>3, Identities DEF BrokerAgrees, Orders
<1>11. ASSUME NEW o \in Orders, Advances(o) PROVE BrokerAgrees'
  <2>1. UNCHANGED <<disk, sent>> /\ broker[o].st = "accepted"
    BY <1>11 DEF Advances
  <2>2. \A q \in Orders : broker'[q].st = broker[q].st /\ (q # o => broker'[q] = broker[q])
    BY <1>11 DEF Advances, Mirrored, TypeOK, Fate
  <2>3. /\ broker'[o].filled => Signed[o] # 0
        /\ broker'[o].shown => broker'[o].filled
    BY <1>0, <1>11 DEF Advances, Open, Mirrored, TypeOK, Fate, BrokerAgrees
  <2>4. QED
    BY <1>0, <2>1, <2>2, <2>3, Identities DEF BrokerAgrees
<1>12. QED
  BY <1>1, <1>2, <1>3, <1>4, <1>5, <1>6, <1>7, <1>8, <1>9, <1>10, <1>11
     DEF Next, TaskStep, Orders

-----------------------------------------------------------------------------
(* A mismatch that is written latches, and the latch falls only with its        *)
(* acknowledgement.                                                             *)
LEMMA LatchStep == TypeOK /\ LatchKnown /\ [Next]_vars => LatchKnown'
<1> SUFFICES ASSUME TypeOK, LatchKnown, [Next]_vars PROVE LatchKnown'
  OBVIOUS
<1> USE DEF memory, verdicts, LatchKnown
<1>1. CASE FinishRound
  <2>1. \/ latched' = latched /\ diskLatched' = diskLatched
        \/ latched' = TRUE /\ diskLatched' = TRUE
        \/ latched' = TRUE /\ diskLatched' = diskLatched
    BY <1>1, ReconcileChanges DEF FinishRound
  <2>2. up /\ up' = up
    BY <1>1 DEF FinishRound
  <2>3. QED
    BY <2>1, <2>2
<1>2. CASE SetKillSwitchOff
  BY <1>2 DEF SetKillSwitchOff, Acknowledge
<1>3. CASE Crash
  BY <1>3 DEF Crash
<1>4. CASE Restart
  BY <1>4 DEF Restart, ReplayedLatch
<1>5. CASE GetBalance \/ ReadPosition \/ ReadHistory \/ FailRound \/ SetKillSwitchOn \/ UNCHANGED vars
  BY <1>5 DEF GetBalance, ReadPosition, ReadHistory, FailRound, SetKillSwitchOn, vars
<1>6. ASSUME NEW i \in Ids, TaskStep(i) PROVE LatchKnown'
  <2>1. UNCHANGED <<up, latched, diskLatched>>
    BY <1>6 DEF TaskStep, Begin, GateRefuses, GatePasses, LossLimit, Post, RefusedLocally, Answer,
                BeginResolve, Resolve
  <2>2. QED
    BY <2>1
<1>7. ASSUME NEW o \in Orders, Decides(o) \/ PlacedElsewhere(o) \/ Advances(o) PROVE LatchKnown'
  BY <1>7 DEF Decides, PlacedElsewhere, Advances
<1>8. QED
  BY <1>1, <1>2, <1>3, <1>4, <1>5, <1>6, <1>7, Identities DEF Next, Orders

-----------------------------------------------------------------------------
(* What an outcome, and what the broker knows, may become.                      *)
LEMMA DefinitiveKept ==
  ASSUME Mirrored, [Next]_vars, NEW i \in Ids, disk[i].st \in Definitive
  PROVE  disk'[i] = disk[i]
<1> USE DEF memory, verdicts
<1>0. TaskStages /\ MemoryMirrors /\ TypeOK
  BY DEF Mirrored
<1>1. CASE \/ GetBalance \/ ReadPosition \/ ReadHistory \/ SetKillSwitchOn \/ SetKillSwitchOff
           \/ FinishRound \/ FailRound \/ Crash \/ UNCHANGED vars
  BY <1>1 DEF GetBalance, ReadPosition, ReadHistory, SetKillSwitchOn, SetKillSwitchOff, FinishRound,
              FailRound, Crash, vars
<1>2. ASSUME NEW j \in Ids, Begin(j) \/ GatePasses(j) \/ LossLimit(j) PROVE disk'[i] = disk[i]
  <2>1. disk' = disk \/ disk' = [disk EXCEPT ![j] = Pending]
    BY <1>2 DEF Begin, GatePasses, LossLimit, JournalCommand
  <2>2. mem[j].st = "NONE" /\ up
    <3>1. CASE Begin(j)
      BY <3>1, Outcome DEF Begin
    <3>2. CASE GatePasses(j)
      BY <1>0, <3>2 DEF GatePasses, TaskStages
    <3>3. CASE LossLimit(j)
      BY <1>0, <3>3 DEF LossLimit, TaskStages
    <3>4. QED
      BY <1>2, <3>1, <3>2, <3>3
  <2>3. i # j
    BY <1>0, <2>2 DEF MemoryMirrors, Definitive
  <2>4. QED
    BY <1>0, <2>1, <2>3 DEF TypeOK
<1>3. ASSUME NEW j \in Ids, GateRefuses(j) \/ BeginResolve(j) \/ Post(j) PROVE disk'[i] = disk[i]
  BY <1>3 DEF GateRefuses, BeginResolve, Post
<1>4. ASSUME NEW j \in Ids, RefusedLocally(j) \/ Answer(j) PROVE disk'[i] = disk[i]
  <2>1. disk' = disk \/ disk' = [disk EXCEPT ![j] = mem'[j]]
    BY <1>4 DEF RefusedLocally, Answer, Conclude, EnterUnknownResult
  <2>2. disk[j] = Pending
    BY <1>0, <1>4 DEF RefusedLocally, Answer, TaskStages
  <2>3. QED
    BY <1>0, <2>1, <2>2, Outcome DEF TypeOK, Definitive
<1>5. ASSUME NEW j \in Ids, Resolve(j) PROVE disk'[i] = disk[i]
  <2>1. disk' = disk \/ disk' = [disk EXCEPT ![j] = mem'[j]]
    BY <1>5 DEF Resolve
  <2>2. mem[j].st = "UNKNOWN" /\ up
    BY <1>0, <1>5 DEF Resolve, TaskStages
  <2>3. i # j
    BY <1>0, <2>2 DEF MemoryMirrors, Definitive
  <2>4. QED
    BY <1>0, <2>1, <2>3 DEF TypeOK
<1>6. CASE Restart
  <2>1. Replayed(disk[i]) = disk[i]
    BY <1>0, ReplayedOutcome DEF TypeOK, Definitive
  <2>2. disk'[i] = disk[i] \/ disk'[i] = Replayed(disk[i])
    BY <1>6 DEF Restart
  <2>3. QED
    BY <2>1, <2>2
<1>7. ASSUME NEW o \in Orders, Decides(o) \/ PlacedElsewhere(o) \/ Advances(o)
      PROVE  disk'[i] = disk[i]
  BY <1>7 DEF Decides, PlacedElsewhere, Advances
<1>8. QED
  BY <1>1, <1>2, <1>3, <1>4, <1>5, <1>6, <1>7, Identities DEF Next, TaskStep, Orders

LEMMA BrokerMoves ==
  ASSUME TypeOK, [Next]_vars, NEW o \in Orders
  PROVE  /\ broker[o].listed => broker'[o].listed
         /\ broker[o].filled => broker'[o].filled
         /\ \/ broker'[o].st = broker[o].st
            \/ broker[o].st = "inflight"
            \/ o \in Ids /\ Post(o)
            \/ o \in Foreign
<1> USE DEF memory, verdicts
<1>1. CASE \/ GetBalance \/ ReadPosition \/ ReadHistory \/ SetKillSwitchOn \/ SetKillSwitchOff
           \/ FinishRound \/ FailRound \/ Crash \/ Restart \/ UNCHANGED vars
  <2>1. broker' = broker
    BY <1>1 DEF GetBalance, ReadPosition, ReadHistory, SetKillSwitchOn, SetKillSwitchOff,
                FinishRound, FailRound, Crash, Restart, vars
  <2>2. QED
    BY <2>1
<1>2. ASSUME NEW i \in Ids, TaskStep(i), ~Post(i) PROVE broker' = broker
  BY <1>2 DEF TaskStep, Begin, GateRefuses, GatePasses, LossLimit, RefusedLocally, Answer,
              BeginResolve, Resolve
<1>3. ASSUME NEW i \in Ids, Post(i)
      PROVE  /\ broker'[o].listed = broker[o].listed /\ broker'[o].filled = broker[o].filled
             /\ o # i => broker'[o].st = broker[o].st
  BY <1>3 DEF Post, TypeOK, Fate
<1>4. ASSUME NEW i \in Ids, Decides(i)
      PROVE  /\ broker'[o].listed = broker[o].listed /\ broker'[o].filled = broker[o].filled
             /\ o # i => broker'[o].st = broker[o].st
             /\ broker[i].st = "inflight"
  <2>1. PICK st \in {"accepted", "rejected", "lost"} :
          \/ broker' = [broker EXCEPT ![i].st = st]
          \/ broker' = [broker EXCEPT ![i].st = st, ![Original[i]].canceled = TRUE]
    BY <1>4 DEF Decides
  <2>2. QED
    BY <1>4, <2>1 DEF Decides, TypeOK, Fate
<1>5. ASSUME NEW q \in Foreign, PlacedElsewhere(q)
      PROVE  /\ broker'[o].listed = broker[o].listed /\ broker'[o].filled = broker[o].filled
             /\ o # q => broker'[o].st = broker[o].st
  BY <1>5 DEF PlacedElsewhere, TypeOK, Fate
<1>6. ASSUME NEW q \in Orders, Advances(q)
      PROVE  /\ broker[o].listed => broker'[o].listed
             /\ broker[o].filled => broker'[o].filled
             /\ broker'[o].st = broker[o].st
  BY <1>6 DEF Advances, TypeOK, Fate
<1>7. QED
  BY <1>1, <1>2, <1>3, <1>4, <1>5, <1>6 DEF Next, TaskStep

LEMMA OutOfSightShrinks ==
  ASSUME Mirrored, [Next]_vars, NEW j \in OutOfSight', j \notin OutOfSight
  PROVE  Post(j)
<1>1. j \in Gated /\ j \in Ids /\ j \in Orders /\ j \notin Foreign
  BY Identities, LiveAssumption DEF OutOfSight, Gated
<1>2. broker'[j].st \in {"inflight", "accepted"} /\ ~broker'[j].listed
  BY DEF OutOfSight
<1>3. disk'[j].st # "DISMISSED" /\ ~(disk'[j].st = "ACCEPTED" /\ disk'[j].order # j)
  BY DEF OutOfSight, TakenForAnother
<1>4. disk[j].st # "DISMISSED" /\ ~(disk[j].st = "ACCEPTED" /\ disk[j].order # j)
  BY <1>1, <1>3, DefinitiveKept DEF Definitive
<1>5. TypeOK /\ ~broker[j].listed
  BY <1>1, <1>2, BrokerMoves DEF Mirrored
<1>6. broker[j].st \notin {"inflight", "accepted"}
  BY <1>1, <1>4, <1>5 DEF OutOfSight, TakenForAnother
<1>7. QED
  BY <1>1, <1>2, <1>5, <1>6, BrokerMoves

-----------------------------------------------------------------------------
(* A round that finds everything in order proves that nothing is out of sight.  *)
LEMMA ConsistentSees ==
  ASSUME Mirrored, HistoryListed, up, round.history # None,
         Reconcile(mem, round.history, round.position), current' = "CONSISTENT"
  PROVE  OutOfSight = {}
<1>1. Doubtful(mem) = {} /\ Waiting(mem, round.history) = {}
  <2>1. PICK opening, differing, overdue :
          Verdict(mem, round.history, round.position, opening, differing, overdue) = "CONSISTENT"
    BY DEF Reconcile, MarkUnavailable
  <2>2. QED
    BY <2>1 DEF Verdict
<1>2. SUFFICES ASSUME NEW j \in OutOfSight PROVE FALSE
  OBVIOUS
<1>3. j \in Ids /\ j \in Orders /\ broker[j].st \in {"inflight", "accepted"} /\ ~broker[j].listed
  BY Identities DEF OutOfSight, Gated
<1>4. disk[j].st \in {"PENDING", "UNKNOWN", "ACCEPTED"}
  BY <1>3 DEF OutOfSight, Mirrored, BrokerAgrees, TypeOK, Line, Outcomes
<1>5. mem[j].st # "UNKNOWN" /\ mem[j].st # "PENDING"
  BY <1>1, <1>3 DEF Doubtful, Waiting, Unfinished
<1>6. ~Executing(j)
  BY <1>3, <1>5, Outcome DEF Mirrored, TaskStages, Executing
<1>7. mem[j] = disk[j] /\ disk[j].st = "ACCEPTED"
  BY <1>3, <1>4, <1>5, <1>6 DEF Mirrored, MemoryMirrors, Definitive
<1>8. mem[j].order = j
  BY <1>7 DEF OutOfSight, TakenForAnother
<1>9. j \notin DOMAIN round.history
  BY <1>3 DEF HistoryListed
<1>10. j \in Missing(mem, round.history)
  BY <1>3, <1>7, <1>8, <1>9 DEF Missing
<1>11. QED
  BY <1>1, <1>10 DEF Waiting

(* What a round brings comes from its reads. *)
LEMMA RoundReads ==
  ASSUME TypeOK, [Next]_vars
  PROVE  /\ round'.position \in {None, round.position, Held}
         /\ round'.history \in {None, round.history, Rows}
<1> USE DEF memory, verdicts
<1>1. CASE GetBalance
  BY <1>1 DEF GetBalance, Started
<1>2. CASE ReadPosition \/ ReadHistory
  BY <1>2 DEF ReadPosition, ReadHistory, TypeOK, RoundType
<1>3. CASE FinishRound \/ FailRound \/ Crash
  BY <1>3 DEF FinishRound, FailRound, Crash, NoRound
<1>4. CASE JoinRound \/ round' = round
  BY <1>4 DEF JoinRound, Started
<1>5. CASE SetKillSwitchOn \/ SetKillSwitchOff \/ Restart \/ UNCHANGED vars
  BY <1>4, <1>5 DEF SetKillSwitchOn, SetKillSwitchOff, Restart, vars
<1>6. ASSUME NEW i \in Ids, TaskStep(i) PROVE JoinRound \/ round' = round
  BY <1>6 DEF TaskStep, Begin, GateRefuses, GatePasses, LossLimit, Post, RefusedLocally,
              Answer, BeginResolve, Resolve
<1>7. ASSUME NEW o \in Orders, Decides(o) \/ PlacedElsewhere(o) \/ Advances(o)
      PROVE  round' = round
  BY <1>7 DEF Decides, PlacedElsewhere, Advances
<1>8. QED
  BY <1>1, <1>2, <1>3, <1>4, <1>5, <1>6, <1>7, Identities DEF Next, Orders

LEMMA HistoryStep ==
  ASSUME TypeOK, HistoryListed, [Next]_vars
  PROVE  HistoryListed'
<1>1. \A o \in Orders : broker[o].listed => broker'[o].listed
  BY BrokerMoves
<1>2. DOMAIN Rows = {q \in Orders : broker[q].listed}
  BY DEF Rows
<1>3. QED
  BY <1>1, <1>2, RoundReads DEF HistoryListed

(* How a step gets to where the next order that adds risk may leave.            *)
LEMMA GateReached ==
  ASSUME Mirrored, [Next]_vars, AtGate', ~AtGate
  PROVE  FinishRound /\ current' = "CONSISTENT"
<1> USE DEF memory, verdicts
<1>0. TaskStages /\ TypeOK
  BY DEF Mirrored
<1>1. ASSUME UNCHANGED <<task, current>> PROVE FALSE
  BY <1>1 DEF AtGate
<1>2. CASE GetBalance \/ ReadPosition \/ ReadHistory \/ SetKillSwitchOn \/ SetKillSwitchOff
           \/ UNCHANGED vars
  BY <1>1, <1>2
     DEF GetBalance, ReadPosition, ReadHistory, SetKillSwitchOn, SetKillSwitchOff, vars
<1>3. CASE FinishRound
  <2>1. task' = Wake(task)
    BY <1>3 DEF FinishRound
  <2>2. CASE task.stage \in {"balance", "calling"}
    BY <2>1, <2>2 DEF Wake, AtGate
  <2>3. CASE task.stage \notin {"balance", "calling"}
    <3>1. task'.stage \notin {"balance", "calling"}
      BY <2>1, <2>3 DEF Wake, Idle, TypeOK
    <3>2. QED
      BY <1>3, <3>1 DEF AtGate
  <2>4. QED
    BY <2>2, <2>3
<1>4. CASE FailRound
  <2>1. task' = Wake(task) /\ current' = "UNAVAILABLE"
    BY <1>4 DEF FailRound, MarkUnavailable
  <2>2. task'.stage \in {"balance", "calling"} => task' = task
    BY <2>1 DEF Wake, Idle, TypeOK
  <2>3. QED
    BY <2>1, <2>2 DEF AtGate
<1>5. CASE Crash \/ Restart
  <2>1. task' = Idle
    BY <1>0, <1>5 DEF Crash, Restart, TaskStages
  <2>2. QED
    BY <2>1 DEF AtGate, Idle
<1>6. ASSUME NEW i \in Ids, Begin(i) PROVE FALSE
  <2>1. \/ task' = Idle \/ task' = [stage |-> "reconcile", id |-> i]
        \/ task' = [stage |-> "calling", id |-> i] /\ i \notin Gated
    BY <1>6 DEF Begin, JournalCommand
  <2>2. QED
    BY <2>1 DEF AtGate, Idle
<1>7. ASSUME NEW i \in Ids, GatePasses(i) \/ LossLimit(i) PROVE FALSE
  <2>1. AtGate
    <3>1. CASE GatePasses(i)
      <4>1. task.stage = "gate" /\ GateOpen
        BY <3>1 DEF GatePasses
      <4>2. QED
        BY <4>1 DEF GateOpen, KillStatus, Blocked, AtGate
    <3>2. CASE LossLimit(i)
      BY <1>0, <3>2 DEF LossLimit, AtGate, TaskStages
    <3>3. QED
      BY <1>7, <3>1, <3>2
  <2>2. QED
    BY <2>1
<1>8. ASSUME NEW i \in Ids, GateRefuses(i) \/ RefusedLocally(i) \/ Answer(i) PROVE FALSE
  BY <1>8 DEF GateRefuses, RefusedLocally, Answer, AtGate, Idle
<1>9. ASSUME NEW i \in Ids, Post(i) \/ BeginResolve(i) \/ Resolve(i) PROVE FALSE
  <2>1. task'.stage \in {"idle", "posted", "evidence", "resolved"}
    <3>1. CASE Post(i)
      BY <3>1 DEF Post
    <3>2. CASE BeginResolve(i)
      BY <3>2 DEF BeginResolve
    <3>3. CASE Resolve(i)
      <4>1. task = [stage |-> "evidence", id |-> i]
        BY <3>3 DEF Resolve
      <4>2. task' = [task EXCEPT !.stage = "resolved"] \/ task' = Idle
        BY <3>3, Zenon DEF Resolve
      <4>3. QED
        BY <4>1, <4>2 DEF Idle
    <3>4. QED
      BY <1>9, <3>1, <3>2, <3>3
  <2>2. QED
    BY <2>1 DEF AtGate
<1>10. ASSUME NEW o \in Orders, Decides(o) \/ PlacedElsewhere(o) \/ Advances(o) PROVE FALSE
  <2>1. UNCHANGED <<task, current>>
    BY <1>10 DEF Decides, PlacedElsewhere, Advances
  <2>2. QED
    BY <1>1, <2>1
<1>11. QED
  BY <1>2, <1>3, <1>4, <1>5, <1>6, <1>7, <1>8, <1>9, <1>10, Identities DEF Next, TaskStep, Orders

LEMMA SightStep == Mirrored /\ Sight /\ [Next]_vars => Sight'
<1> SUFFICES ASSUME Mirrored, Sight, [Next]_vars PROVE Sight'
  OBVIOUS
<1>1. HistoryListed'
  BY HistoryStep DEF Mirrored, Sight
<1>2. AtGate => OutOfSight = {}
  BY DEF Sight, GateSees
<1>3. CASE \E i \in Gated : Post(i)
  <2>1. PICK i \in Gated : Post(i)
    BY <1>3
  <2>2. task = [stage |-> "calling", id |-> i] /\ task'.stage = "posted"
    BY <2>1 DEF Post
  <2>3. OutOfSight = {}
    BY <1>2, <2>2 DEF AtGate, Sight
  <2>4. \A j \in OutOfSight' : j = i
    <3>1. ASSUME NEW j \in OutOfSight' PROVE j = i
      <4>1. Post(j)
        BY <2>3, OutOfSightShrinks
      <4>2. QED
        BY <2>2, <4>1 DEF Post
    <3>2. QED
      BY <3>1
  <2>5. GateSees'
    BY <2>2 DEF GateSees, AtGate
  <2>6. QED
    BY <1>1, <2>4, <2>5 DEF Sight
<1>4. CASE ~\E i \in Gated : Post(i)
  <2>1. \A j \in OutOfSight' : j \in OutOfSight
    <3>1. ASSUME NEW j \in OutOfSight', j \notin OutOfSight PROVE FALSE
      BY <1>4, <3>1, OutOfSightShrinks DEF OutOfSight
    <3>2. QED
      BY <3>1
  <2>2. AtGate' => OutOfSight' = {}
    <3>1. CASE AtGate
      BY <1>2, <2>1, <3>1 DEF Sight
    <3>2. CASE ~AtGate /\ AtGate'
      <4>1. FinishRound /\ current' = "CONSISTENT"
        BY <3>2, GateReached
      <4>2. OutOfSight = {}
        BY <4>1, ConsistentSees DEF FinishRound, Sight
      <4>3. QED
        BY <2>1, <4>2
    <3>3. QED
      BY <3>1, <3>2
  <2>3. GateSees'
    BY <2>2 DEF GateSees
  <2>4. QED
    BY <1>1, <2>1, <2>3 DEF Sight
<1>5. QED
  BY <1>3, <1>4

-----------------------------------------------------------------------------
(* The baseline of the day.                                                     *)
LEMMA NothingFilled ==
  /\ OpeningPosition + SignedSum({}) = OpeningPosition
  /\ OpeningPosition - SignedSum({}) = OpeningPosition
  /\ OpeningPosition # None
<1> DEFINE Empty == [s \in SUBSET {} |-> 0]
           Rest(g) == [s \in SUBSET {} |->
                         IF s = {} THEN 0
                         ELSE LET x == CHOOSE x \in s : TRUE IN Signed[x] + g[s \ {x}]]
           It == CHOOSE g : g = Rest(g)
<1>1. \A g : Rest(g) = Empty
  OBVIOUS
<1>2. Empty = Rest(Empty)
  BY <1>1
<1>3. It = Rest(It)
  BY <1>2, Zenon
<1>4. It = Empty
  BY <1>1, <1>3
<1>5. It[{}] = 0
  BY <1>4
<1>6. SignedSum({}) = It[{}]
  BY DEF SignedSum, MapThenSumSet, MapThenFoldSet
<1>7. OpeningPosition \in Nat /\ None \notin Nat
  BY LiveAssumption
<1>8. QED
  BY <1>5, <1>6, <1>7

(* Until an order that adds risk leaves, nothing of the service is filled.      *)
LEMMA NothingShown ==
  ASSUME Mirrored, Undisturbed, \A i \in Gated : broker[i].st = "none"
  PROVE  Held = OpeningPosition /\ \A o \in Orders : ~broker[o].filled
<1>1. \A o \in Orders : ~broker[o].filled
  <2>1. SUFFICES ASSUME NEW o \in Orders, broker[o].filled PROVE FALSE
    OBVIOUS
  <2>2. o \in Ids /\ broker[o].st = "accepted" /\ Signed[o] # 0
    BY <2>1 DEF Mirrored, BrokerAgrees, Undisturbed, Orders
  <2>3. QED
    BY <2>2, LiveAssumption DEF Gated
<1>2. {o \in Orders : broker[o].shown} = {}
  BY <1>1 DEF Mirrored, BrokerAgrees
<1>3. Held = OpeningPosition
  BY <1>2, NothingFilled DEF Held
<1>4. QED
  BY <1>1, <1>3

LEMMA BaselineFirstRound ==
  ASSUME BaselineFirst, round.position # None, round.history # None,
         Reconcile(mem, round.history, round.position), baseline \in {None, OpeningPosition}
  PROVE  /\ baseline' \in {None, OpeningPosition}
         /\ baseline' = None => current' = "UNAVAILABLE"
<1>1. CASE baseline = None
  <2>1. round.position = OpeningPosition
    BY <1>1 DEF BaselineFirst
  <2>2. {o \in DOMAIN round.history : round.history[o].filled} = {}
    BY <1>1 DEF BaselineFirst
  <2>3. Opening(round.position, round.history) = OpeningPosition
    BY <2>1, <2>2, NothingFilled DEF Opening, NetFills
  <2>4. ~(OpeningPosition < 0) /\ OpeningPosition # None
    BY LiveAssumption, NothingFilled
  <2>5. \/ baseline' = OpeningPosition
        \/ baseline' = None /\ current' = "UNAVAILABLE"
    BY <1>1, <2>3, <2>4 DEF Reconcile, MarkUnavailable
  <2>6. QED
    BY <2>4, <2>5
<1>2. CASE baseline = OpeningPosition
  <2>1. baseline # None
    BY <1>2, NothingFilled
  <2>2. baseline' = OpeningPosition
    BY <1>2, <2>1 DEF Reconcile, MarkUnavailable
  <2>3. QED
    BY <1>2, <2>1, <2>2
<1>3. QED
  BY <1>1, <1>2

LEMMA BaselineStep == Mirrored /\ BaselineKept /\ [Next]_vars => BaselineKept'
<1> SUFFICES ASSUME Mirrored, BaselineKept, [Next]_vars, Undisturbed'
             PROVE  baseline' \in {None, OpeningPosition} /\ BaselineFirst'
  BY DEF BaselineKept
<1> USE DEF memory, verdicts
<1>1. Undisturbed /\ TypeOK /\ TaskStages
  <2>1. \A o \in Foreign : broker[o].filled => broker'[o].filled
    BY BrokerMoves DEF Mirrored, Orders
  <2>2. QED
    BY <2>1 DEF Undisturbed, Mirrored
<1>2. baseline \in {None, OpeningPosition} /\ BaselineFirst
  BY <1>1 DEF BaselineKept
<1>3. CASE FinishRound
  <2>1. baseline' \in {None, OpeningPosition} /\ (baseline' = None => current' = "UNAVAILABLE")
    BY <1>2, <1>3, BaselineFirstRound DEF FinishRound
  <2>2. baseline' = None => baseline = None
    BY <1>2, <1>3, LiveAssumption DEF FinishRound, Reconcile, MarkUnavailable
  <2>3. task'.stage \in {"balance", "calling"} => task' = task
    BY <1>3 DEF FinishRound, Wake, Idle
  <2>4. round' = NoRound /\ broker' = broker
    BY <1>3 DEF FinishRound
  <2>5. QED
    BY <1>2, <2>1, <2>2, <2>3, <2>4 DEF BaselineFirst, NoRound
<1>4. ASSUME ~FinishRound PROVE baseline' = baseline
  <2>1. CASE \/ GetBalance \/ ReadPosition \/ ReadHistory \/ SetKillSwitchOn \/ SetKillSwitchOff
             \/ FailRound \/ Crash \/ Restart \/ UNCHANGED vars
    BY <2>1 DEF GetBalance, ReadPosition, ReadHistory, SetKillSwitchOn, SetKillSwitchOff,
                FailRound, Crash, Restart, BaselineReplayed, vars
  <2>2. ASSUME NEW i \in Ids, TaskStep(i) PROVE baseline' = baseline
    BY <2>2 DEF TaskStep, Begin, GateRefuses, GatePasses, LossLimit, Post, RefusedLocally,
                Answer, BeginResolve, Resolve
  <2>3. ASSUME NEW o \in Orders, Decides(o) \/ PlacedElsewhere(o) \/ Advances(o)
        PROVE  baseline' = baseline
    BY <2>3 DEF Decides, PlacedElsewhere, Advances
  <2>4. QED
    BY <1>4, <2>1, <2>2, <2>3, Identities DEF Next, Orders
<1>5. ASSUME ~FinishRound, baseline = None PROVE BaselineFirst'
  <2>1. ~AtGate /\ current # "CONSISTENT" /\ \A i \in Gated : broker[i].st = "none"
    BY <1>2, <1>5 DEF BaselineFirst, AtGate
  <2>2. ~AtGate'
    BY <1>5, <2>1, GateReached
  <2>3. current' # "CONSISTENT"
    <3>1. CASE \/ GetBalance \/ ReadPosition \/ ReadHistory \/ SetKillSwitchOn \/ SetKillSwitchOff
               \/ FailRound \/ Crash \/ Restart \/ UNCHANGED vars
      BY <2>1, <3>1
         DEF GetBalance, ReadPosition, ReadHistory, SetKillSwitchOn, SetKillSwitchOff, FailRound,
             MarkUnavailable, Crash, Restart, vars
    <3>2. ASSUME NEW i \in Ids, TaskStep(i) PROVE current' = current
      BY <3>2 DEF TaskStep, Begin, GateRefuses, GatePasses, LossLimit, Post, RefusedLocally,
                  Answer, BeginResolve, Resolve
    <3>3. ASSUME NEW o \in Orders, Decides(o) \/ PlacedElsewhere(o) \/ Advances(o)
          PROVE  current' = current
      BY <3>3 DEF Decides, PlacedElsewhere, Advances
    <3>4. QED
      BY <1>5, <2>1, <3>1, <3>2, <3>3, Identities DEF Next, Orders
  <2>4. ASSUME NEW i \in Gated PROVE broker'[i].st = "none"
    <3>1. i \in Ids /\ i \in Orders /\ i \notin Foreign
      BY Identities, LiveAssumption DEF Gated
    <3>2. ~Post(i)
      BY <2>1 DEF Post, AtGate
    <3>3. QED
      BY <1>1, <2>1, <3>1, <3>2, BrokerMoves
  <2>5. Held = OpeningPosition /\ \A o \in Orders : ~broker[o].filled
    BY <1>1, <2>1, NothingShown
  <2>6. round'.position \in {None, OpeningPosition}
    BY <1>1, <1>2, <1>5, <2>5, RoundReads DEF BaselineFirst
  <2>7. \A o \in DOMAIN Rows : ~Rows[o].filled
    BY <2>5 DEF Rows
  <2>8. round'.history # None => \A o \in DOMAIN round'.history : ~round'.history[o].filled
    BY <1>1, <1>2, <1>5, <2>7, RoundReads DEF BaselineFirst
  <2>9. QED
    BY <2>2, <2>3, <2>4, <2>6, <2>8 DEF BaselineFirst, AtGate
<1>6. QED
  <2>1. CASE ~FinishRound
    <3>1. baseline' = baseline
      BY <1>4, <2>1
    <3>2. CASE baseline = None
      BY <1>2, <1>5, <2>1, <3>1, <3>2
    <3>3. CASE baseline # None
      BY <1>2, <3>1, <3>3 DEF BaselineFirst
    <3>4. QED
      BY <3>2, <3>3
  <2>2. QED
    BY <1>3, <2>1

-----------------------------------------------------------------------------
(* What holds in every state of the live order service: memory and journal, the *)
(* stages of the task, the journal and the broker agree; a written mismatch is  *)
(* latched; at most one order is out of sight, and none where the next one may  *)
(* leave; the baseline is right as long as no order placed elsewhere is filled. *)
THEOREM Invariant == Spec => []LiveInv
<1>1. LiveInv /\ [Next]_vars => LiveInv'
  <2> SUFFICES ASSUME LiveInv, [Next]_vars PROVE LiveInv'
    OBVIOUS
  <2>1. /\ Mirrored /\ TypeOK /\ TaskStages /\ LatchKnown /\ Sight /\ BaselineKept
    BY DEF LiveInv, Mirrored
  <2>2. QED
    BY <2>1, TypeOKStep, MirrorsStep, StagesStep, BrokerStep, LatchStep, SightStep, BaselineStep
       DEF LiveInv
<1>2. QED
  BY <1>1, InitInv, PTL DEF Spec

(* At most one order of the service is sent, perhaps accepted, and not in the   *)
(* history KIS lists, whatever rounds, lost answers and restarts do; unless the *)
(* user has dismissed it or taken another order for it.                         *)
THEOREM Sighted == Spec => []OneOutOfSight
<1>1. LiveInv => OneOutOfSight
  <2> SUFFICES ASSUME LiveInv PROVE OneOutOfSight
    OBVIOUS
  <2>1. \A i, j \in OutOfSight : i = j
    BY DEF LiveInv, Sight
  <2>2. CASE OutOfSight = {}
    BY <2>2, FS_EmptySet DEF OneOutOfSight
  <2>3. CASE OutOfSight # {}
    <3>1. PICK i \in OutOfSight : OutOfSight = {i}
      BY <2>1, <2>3
    <3>2. Cardinality(OutOfSight) = 1
      BY <3>1, FS_Singleton
    <3>3. QED
      BY <3>2 DEF OneOutOfSight
  <2>4. QED
    BY <2>2, <2>3
<1>2. QED
  BY <1>1, Invariant, PTL

(* The day's baseline is the position the day opened with, as long as no order  *)
(* placed elsewhere is filled: no fill of the service's own orders, however its *)
(* way into the history and the balance, can falsify it.                        *)
THEOREM Baseline == Spec => []BaselineRight
<1>1. LiveInv => BaselineRight
  BY DEF LiveInv, BaselineKept, Undisturbed, BaselineRight
<1>2. QED
  BY <1>1, Invariant, PTL

(* No order that adds risk passes the gate while a mismatch that was written is *)
(* not acknowledged.                                                            *)
THEOREM Latched == Spec => LatchHolds
<1> DEFINE Kept == \A i \in Gated : task = [stage |-> "gate", id |-> i]
                                   /\ task'.stage \in {"balance", "calling"} => ~diskLatched
<1>1. LiveInv /\ [Next]_vars => Kept
  <2> SUFFICES ASSUME LiveInv, [Next]_vars, NEW i \in Gated, task = [stage |-> "gate", id |-> i],
                      task'.stage \in {"balance", "calling"}
               PROVE  ~diskLatched
    OBVIOUS
  <2> USE DEF memory, verdicts
  <2>1. ASSUME GateOpen, up PROVE ~diskLatched
    BY <2>1 DEF GateOpen, KillStatus, Blocked, LiveInv, LatchKnown
  <2>2. ASSUME NEW j \in Ids, GatePasses(j) PROVE ~diskLatched
    BY <2>1, <2>2 DEF GatePasses
  <2>3. ASSUME task' = task \/ task' = Idle PROVE FALSE
    BY <2>3 DEF Idle
  <2>4. CASE \/ GetBalance \/ ReadPosition \/ ReadHistory \/ SetKillSwitchOn \/ SetKillSwitchOff
             \/ Crash \/ Restart \/ UNCHANGED vars
    BY <2>3, <2>4
       DEF GetBalance, ReadPosition, ReadHistory, SetKillSwitchOn, SetKillSwitchOff, Crash,
           Restart, vars
  <2>5. CASE FinishRound \/ FailRound
    BY <2>3, <2>5 DEF FinishRound, FailRound, Wake
  <2>6. ASSUME NEW j \in Ids, TaskStep(j), ~GatePasses(j) PROVE task' = Idle
    BY <2>6 DEF TaskStep, Begin, GateRefuses, LossLimit, Post, RefusedLocally, Answer,
                BeginResolve, Resolve, Idle
  <2>7. ASSUME NEW o \in Orders, Decides(o) \/ PlacedElsewhere(o) \/ Advances(o) PROVE FALSE
    BY <2>3, <2>7 DEF Decides, PlacedElsewhere, Advances
  <2>8. QED
    BY <2>2, <2>3, <2>4, <2>5, <2>6, <2>7, Identities DEF Next, TaskStep, Orders
<1>2. LiveInv /\ [Next]_vars => [Kept]_vars
  BY <1>1
<1>3. QED
  BY <1>2, Invariant, PTL DEF Spec, LatchHolds

-----------------------------------------------------------------------------
(* Refinement: each id's ledger line is the outcome its journal line has.       *)
Lines == [i \in Ids |-> disk[i].st]

LEMMA LedgerSteps ==
  /\ \A i \in Ids : Ledger!Commit(i) \/ Ledger!Send(i) => Ledger!Next
  /\ \A i \in Ids : \A o \in {"ACCEPTED", "REJECTED", "UNKNOWN"} :
       Ledger!Conclude(i, o) => Ledger!Next
  /\ \A i \in Ids : \A o \in {"ACCEPTED", "DISMISSED"} : Ledger!Settle(i, o) => Ledger!Next
  /\ \A S \in SUBSET Ids : Ledger!Restart(S) => Ledger!Next
BY ZenonT(30) DEF Ledger!Next, Ledger!Doubt

LEMMA LedgerStutters ==
  ASSUME disk' = disk, sent' = sent
  PROVE  UNCHANGED Ledger!vars
BY DEF Ledger!vars

LEMMA LedgerWrites ==
  ASSUME TypeOK, NEW i \in Ids, NEW c, disk' = [disk EXCEPT ![i] = c]
  PROVE  Lines' = [Lines EXCEPT ![i] = c.st]
BY DEF TypeOK, Lines

LEMMA LedgerCommits ==
  ASSUME Mirrored, up, NEW i \in Ids, mem[i].st = "NONE", sent' = sent, JournalCommand(i)
  PROVE  [Ledger!Next]_Ledger!vars
<1>1. CASE disk' = disk
  BY <1>1, LedgerStutters
<1>2. CASE disk' = [disk EXCEPT ![i] = Pending]
  <2>1. Lines' = [Lines EXCEPT ![i] = "PENDING"]
    BY <1>2, Outcome, LedgerWrites DEF Mirrored
  <2>2. Lines[i] = "NONE"
    BY DEF Mirrored, MemoryMirrors, Lines
  <2>3. Ledger!Commit(i)
    BY <2>1, <2>2 DEF Ledger!Commit, Ledger!Open, Lines
  <2>4. QED
    BY <2>3, LedgerSteps
<1>3. QED
  BY <1>1, <1>2 DEF JournalCommand

LEMMA LedgerConcludes ==
  ASSUME Mirrored, NEW i \in Ids, sent' = sent, Executing(i),
         NEW o \in {"ACCEPTED", "REJECTED", "UNKNOWN"}, o = "ACCEPTED" => task.stage = "posted",
         disk' = [disk EXCEPT ![i] = Concluded(i, o)]
  PROVE  [Ledger!Next]_Ledger!vars
<1>1. Lines[i] = "PENDING"
  BY Outcome DEF Mirrored, TaskStages, Executing, Lines
<1>2. Lines' = [Lines EXCEPT ![i] = o]
  <2>1. PICK c : c = Concluded(i, o)
    OBVIOUS
  <2>2. c.st = o
    BY <2>1, ConcludedOutcome DEF Outcomes
  <2>3. Lines' = [Lines EXCEPT ![i] = c.st]
    BY <2>1, LedgerWrites DEF Mirrored
  <2>4. QED
    BY <2>2, <2>3
<1>3. o = "ACCEPTED" => sent[i] = 1
  BY DEF Mirrored, TaskStages, Executing
<1>4. Ledger!Conclude(i, o)
  BY <1>1, <1>2, <1>3 DEF Ledger!Conclude, Ledger!Open, Lines
<1>5. QED
  BY <1>4, LedgerSteps

LEMMA LedgerRecords ==
  ASSUME Mirrored, NEW i \in Ids, sent' = sent, Executing(i),
         \/ Conclude(i, "REJECTED")
         \/ Conclude(i, "ACCEPTED") /\ task.stage = "posted"
         \/ EnterUnknownResult(i)
  PROVE  [Ledger!Next]_Ledger!vars
<1>1. CASE disk' = disk
  BY <1>1, LedgerStutters
<1>2. ASSUME NEW o \in {"ACCEPTED", "REJECTED", "UNKNOWN"}, o = "ACCEPTED" => task.stage = "posted",
             mem' = [mem EXCEPT ![i] = Concluded(i, o)], disk' = [disk EXCEPT ![i] = mem'[i]]
      PROVE  [Ledger!Next]_Ledger!vars
  <2>1. mem'[i] = Concluded(i, o)
    BY <1>2 DEF Mirrored, TypeOK
  <2>2. disk' = [disk EXCEPT ![i] = Concluded(i, o)]
    BY <1>2, <2>1
  <2>3. QED
    BY <1>2, <2>2, LedgerConcludes
<1>3. QED
  BY <1>1, <1>2 DEF Conclude, EnterUnknownResult

LEMMA LedgerStep == LiveInv /\ [Next]_vars => [Ledger!Next]_Ledger!vars
<1> SUFFICES ASSUME LiveInv, [Next]_vars PROVE [Ledger!Next]_Ledger!vars
  OBVIOUS
<1> USE DEF memory, verdicts
<1>0. Mirrored /\ TypeOK /\ TaskStages /\ MemoryMirrors
  BY DEF LiveInv, Mirrored
<1>1. CASE \/ GetBalance \/ ReadPosition \/ ReadHistory \/ SetKillSwitchOn \/ SetKillSwitchOff
           \/ FinishRound \/ FailRound \/ Crash \/ UNCHANGED vars
  BY <1>1, LedgerStutters
     DEF GetBalance, ReadPosition, ReadHistory, SetKillSwitchOn, SetKillSwitchOff, FinishRound,
         FailRound, Crash, vars
<1>2. ASSUME NEW i \in Ids, Begin(i) \/ GatePasses(i) \/ LossLimit(i)
      PROVE  [Ledger!Next]_Ledger!vars
  <2>1. up /\ sent' = sent /\ mem[i].st = "NONE"
    <3>1. CASE Begin(i)
      BY <3>1, Outcome DEF Begin
    <3>2. CASE GatePasses(i)
      BY <1>0, <3>2 DEF GatePasses, TaskStages
    <3>3. CASE LossLimit(i)
      BY <1>0, <3>3 DEF LossLimit, TaskStages
    <3>4. QED
      BY <1>2, <3>1, <3>2, <3>3
  <2>2. CASE JournalCommand(i)
    BY <1>0, <2>1, <2>2, LedgerCommits
  <2>3. CASE disk' = disk
    BY <2>1, <2>3, LedgerStutters
  <2>4. QED
    BY <1>2, <2>2, <2>3 DEF Begin, GatePasses, LossLimit
<1>3. ASSUME NEW i \in Ids, GateRefuses(i) \/ BeginResolve(i) PROVE [Ledger!Next]_Ledger!vars
  BY <1>3, LedgerStutters DEF GateRefuses, BeginResolve
<1>4. ASSUME NEW i \in Ids, Post(i) PROVE [Ledger!Next]_Ledger!vars
  <2>1. Lines[i] = "PENDING" /\ sent[i] = 0
    BY <1>0, <1>4, Outcome DEF Post, TaskStages, Lines
  <2>2. Lines' = Lines /\ sent' = [sent EXCEPT ![i] = 1]
    BY <1>4, <2>1 DEF Post, Lines
  <2>3. Ledger!Send(i)
    BY <2>1, <2>2 DEF Ledger!Send, Ledger!Open, Lines
  <2>4. QED
    BY <2>3, LedgerSteps
<1>5. ASSUME NEW i \in Ids, RefusedLocally(i) \/ Answer(i) PROVE [Ledger!Next]_Ledger!vars
  BY <1>0, <1>5, LedgerRecords DEF RefusedLocally, Answer, Definite, Executing
<1>6. ASSUME NEW i \in Ids, Resolve(i) PROVE [Ledger!Next]_Ledger!vars
  <2>1. Lines[i] \in {"PENDING", "UNKNOWN"} /\ sent' = sent
    BY <1>0, <1>6 DEF Resolve, TaskStages, MemoryMirrors, Lines
  <2>2. CASE disk' = disk
    BY <2>1, <2>2, LedgerStutters
  <2>3. ASSUME NEW line \in Settled(i), mem' = [mem EXCEPT ![i] = line],
               disk' = [disk EXCEPT ![i] = mem'[i]]
        PROVE  [Ledger!Next]_Ledger!vars
    <3>1. PICK o \in {"ACCEPTED", "DISMISSED"} : line.st = o
      BY SettledOutcome
    <3>2. mem'[i] = line
      BY <1>0, <2>3 DEF TypeOK
    <3>3. Lines' = [Lines EXCEPT ![i] = o]
      BY <1>0, <2>3, <3>1, <3>2, LedgerWrites
    <3>4. Ledger!Settle(i, o)
      BY <2>1, <3>3 DEF Ledger!Settle, Ledger!Open, Ledger!Doubt, Lines
    <3>5. QED
      BY <3>4, LedgerSteps
  <2>4. QED
    BY <1>6, <2>2, <2>3 DEF Resolve
<1>7. CASE Restart
  <2>1. \A j \in Ids : disk'[j] \in {disk[j], Replayed(disk[j])}
    BY <1>7 DEF Restart
  <2>2. \A j \in Ids : \/ disk'[j].st = disk[j].st
                       \/ disk[j].st = "PENDING" /\ disk'[j].st = "UNKNOWN"
    BY <1>0, <2>1, ReplayedOutcome DEF TypeOK
  <2>3. PICK S \in SUBSET Ids : S = {j \in Ids : disk'[j].st # disk[j].st}
    OBVIOUS
  <2>4. Lines' = [j \in Ids |-> IF j \in S THEN "UNKNOWN" ELSE Lines[j]]
    BY <2>2, <2>3 DEF Lines
  <2>5. sent' = sent
    BY <1>7 DEF Restart
  <2>6. \A j \in S : Lines[j] = "PENDING"
    BY <2>2, <2>3 DEF Lines
  <2>7. Ledger!Restart(S)
    BY <2>4, <2>5, <2>6 DEF Ledger!Restart, Ledger!Open, Ledger!Doubt, Lines
  <2>8. QED
    BY <2>7, LedgerSteps
<1>8. ASSUME NEW o \in Orders, Decides(o) \/ PlacedElsewhere(o) \/ Advances(o)
      PROVE  [Ledger!Next]_Ledger!vars
  BY <1>8, LedgerStutters DEF Decides, PlacedElsewhere, Advances
<1>9. QED
  BY <1>1, <1>2, <1>3, <1>4, <1>5, <1>6, <1>7, <1>8, Identities DEF Next, TaskStep, Orders

(* The live order service implements the ledger: its commands are written       *)
(* before they are sent, sent at most once, and their outcomes final.           *)
THEOREM Implements == Spec => ImplementsLedger
<1>1. Init => Ledger!Init
  BY DEF Init, Ledger!Init, Blank
<1>2. LiveInv /\ [Next]_vars => [Ledger!Next]_Ledger!vars
  BY LedgerStep
<1>3. QED
  BY <1>1, <1>2, Invariant, PTL DEF Spec, ImplementsLedger, Ledger!Spec

=============================================================================
