--------------------- MODULE KisPaperOrderService_proofs ---------------------
(***************************************************************************)
(* Proofs about KisPaperOrderService for any set of client order ids, any  *)
(* number of days, crashes and daily orders, with or without the daily     *)
(* loss check.                                                             *)
(***************************************************************************)
EXTENDS KisPaperOrderService, FiniteSetTheorems, TLAPS

(* The task at the head of the queue is executing the command i. *)
Executing(i) == task.stage \in {"calling", "posted"} /\ task.id = i

(* What the memory of the running service knows of the journal. *)
MemoryMirrors ==
  up => \A i \in Ids :
          /\ mem[i].st = "NONE" => disk[i].st = "NONE"
          /\ mem[i].st = "PENDING" => Executing(i)
          /\ mem[i].st = "UNKNOWN" => disk[i].st \in {"PENDING", "UNKNOWN"}
          /\ disk[i].st \in {"PENDING", "UNKNOWN"} =>
               mem[i].st = "UNKNOWN" \/ Executing(i)
          /\ mem[i].st = "UNKNOWN" => unknownResult

(* What each stage of the task has established. *)
TaskStages ==
  /\ ~up => task = Idle
  /\ \A i \in Ids : task.id = i =>
       /\ task.stage \in {"calling", "posted"} =>
            disk[i].st = "PENDING" /\ mem[i].st = "PENDING"
       /\ task.stage = "calling" => sent[i] = 0
       /\ task.stage = "posted" => sent[i] = 1
       /\ task.stage \in {"reconcile", "gate", "balance"} => mem[i].st = "NONE"
       /\ task.stage = "evidence" => mem[i].st = "UNKNOWN"
  /\ task.stage = "balance" => \A i \in Ids : mem[i].st # "UNKNOWN"

(* What the journal and the broker know of each other. *)
BrokerAgrees ==
  \A i \in Ids :
    /\ sent[i] \in 0..1
    /\ disk[i].st = "NONE" => sent[i] = 0
    /\ sent[i] = 0 => broker[i].st = "none"
    /\ disk[i].st = "ACCEPTED" =>
         disk[i].order \in Ids /\ AcceptedAt(broker[disk[i].order])
    /\ disk[i].st = "REJECTED" => broker[i].st \in {"none", "rejected"}

(* The broker order numbers in the journal: memory knows them, and the     *)
(* number of the command being executed is not among them.                 *)
OrdersApart ==
  /\ up => \A i \in Ids : disk[i].st = "ACCEPTED" => mem[i].order = disk[i].order
  /\ \A i, j \in Ids : Executing(i) /\ disk[j].st = "ACCEPTED" => disk[j].order # i
  /\ OneOrderOneCommand

IInv ==
  /\ TypeOK
  /\ MemoryMirrors
  /\ TaskStages
  /\ BrokerAgrees
  /\ OrdersApart
  /\ LatchSurvives

(***************************************************************************)
(* Type correctness                                                        *)
(***************************************************************************)
LEMMA RoundTyped == day \in Days => Round \in Rounds
BY DEF Round, Rounds

LEMMA PendingTyped == day \in Days => Pending \in Command
BY DEF Pending, Command

LEMMA WakeTyped == \A t \in Tasks : Wake(t) \in Tasks
BY DEF Wake, Tasks, Idle

(* A command keeps its day: once it has an outcome it is still a command.  *)
LEMMA ConcludedTyped ==
  ASSUME TypeOK, NEW i \in Ids, mem[i] # Blank,
         NEW o \in {"ACCEPTED", "REJECTED", "UNKNOWN"}
  PROVE  Concluded(i, o) \in Command
<1>1. mem[i].day \in Days
  BY DEF TypeOK, Command
<1>2. QED
  BY <1>1 DEF Concluded, Command

LEMMA SettledTyped ==
  ASSUME TypeOK, NEW i \in Ids, mem[i].st # "NONE",
         NEW o \in {"ACCEPTED", "DISMISSED"}, NEW n \in Ids \cup {NoOrder}
  PROVE  Settled(i, o, n) \in Command
<1>1. mem[i].day \in Days
  BY DEF TypeOK, Command, Blank
<1>2. QED
  BY <1>1 DEF Settled, Command

LEMMA ReplayedTyped == \A c \in Command : Replayed(c) \in Command
BY DEF Replayed, Command, Blank

(* A replayed command is the one on disk, or its interruption.             *)
LEMMA ReplayedOutcome ==
  ASSUME NEW c \in Command
  PROVE  Replayed(c) = c \/ (c.st = "PENDING" /\ Replayed(c).st = "UNKNOWN")
<1>1. CASE c.st = "PENDING"
  <2>1. c \in [st : {"PENDING", "ACCEPTED", "REJECTED", "DISMISSED", "UNKNOWN"},
               day : Days, order : Ids \cup {NoOrder}]
    BY <1>1 DEF Command, Blank
  <2>2. QED
    BY <1>1, <2>1 DEF Replayed
<1>2. QED
  BY <1>1 DEF Replayed

LEMMA InitialValuesTyped ==
  /\ Idle \in Tasks
  /\ Blank \in Command
  /\ NoReport \in Reports
  /\ NoRound \in Rounds
  /\ Quiet \in Fates
BY ServiceAssumption
   DEF Idle, Tasks, Blank, Command, NoReport, Reports, NoRound, Rounds, Quiet, Fates

LEMMA TaskTyped ==
  ASSUME NEW i \in Ids
  PROVE  /\ \A s \in {"reconcile", "gate", "calling", "posted"} :
              [stage |-> s, id |-> i, today |-> 0] \in Tasks
         /\ \A d \in Days, s \in {"balance", "evidence", "resolved"} :
              [stage |-> s, id |-> i, today |-> d] \in Tasks
BY DEF Tasks

LEMMA DayBounds == Days \subseteq 0..MaxDay /\ 0 \in 0..MaxDay /\ 1 \in Days
BY ServiceAssumption DEF Days

LEMMA VerdictTyped ==
  \A d, h, o, l : Verdict(d, h, o, l) \in {"MISMATCH", "PENDING", "CONSISTENT"}
BY DEF Verdict

LEMMA InitTyped == Init => TypeOK
<1> SUFFICES ASSUME Init PROVE TypeOK
  OBVIOUS
<1> USE InitialValuesTyped, DayBounds DEF Init
<1>1. disk \in [Ids -> Command] /\ mem \in [Ids -> Command]
  OBVIOUS
<1>2. sent \in [Ids -> Nat] /\ broker \in [Ids -> Fates]
  OBVIOUS
<1>3. killSwitch \in BOOLEAN /\ unknownResult \in BOOLEAN /\ up \in BOOLEAN
  OBVIOUS
<1>4. QED
  BY <1>1, <1>2, <1>3 DEF TypeOK

(* Every step keeps the types. *)
LEMMA TypeStep ==
  ASSUME TypeOK, TaskStages, [Next]_vars
  PROVE  TypeOK'
<1> USE InitialValuesTyped DEF TypeOK, durable, service, world
<1>1. CASE Poll
  BY <1>1, RoundTyped DEF Poll
<1>2. CASE FetchHistory
  <2>1. rp.stage # "idle" /\ Listed(rp.day) \subseteq Ids
    BY <1>2 DEF FetchHistory, Listed
  <2>2. rp' \in Rounds
    BY <1>2, <2>1 DEF FetchHistory, Rounds, NoRound
  <2>3. QED
    BY <1>2, <2>2 DEF FetchHistory
<1>3. CASE FinishRound
  <2>1. rp.hist \subseteq Ids
    BY DEF Rounds, NoRound
  <2>2. \A h : h \subseteq Ids => External(day, h) \subseteq Ids
    BY DEF External
  <2>3. report' \in Reports
    BY <1>3, <2>1, <2>2, VerdictTyped DEF FinishRound, Reports
  <2>4. latched' \subseteq Days /\ diskLatched' \subseteq Days
    BY <1>3 DEF FinishRound
  <2>5. task' \in Tasks /\ rp' \in Rounds
    BY <1>3, WakeTyped DEF FinishRound
  <2>6. QED
    BY <1>3, <2>3, <2>4, <2>5 DEF FinishRound
<1>4. CASE FailRound
  <2>1. report' \in Reports
    BY <1>4 DEF FailRound, Reports
  <2>2. QED
    BY <1>4, <2>1, WakeTyped DEF FailRound
<1>5. CASE SetKillSwitchOn
  BY <1>5 DEF SetKillSwitchOn
<1>6. CASE SetKillSwitchOff
  BY <1>6 DEF SetKillSwitchOff
<1>7. ASSUME NEW i \in Ids, BeginGated(i) PROVE TypeOK'
  BY <1>7, RoundTyped, TaskTyped, DayBounds DEF BeginGated, JoinRound
<1>8. ASSUME NEW i \in Ids, BeginCancel(i) PROVE TypeOK'
  BY <1>8, PendingTyped, TaskTyped, DayBounds
     DEF BeginCancel, JournalCommand, AbandonCommand
<1>9. ASSUME NEW i \in Ids, BeginResolve(i) PROVE TypeOK'
  BY <1>9, TaskTyped, DayBounds DEF BeginResolve
<1>10. ASSUME NEW i \in Ids, GateRefuses(i) PROVE TypeOK'
  BY <1>10 DEF GateRefuses
<1>11. ASSUME NEW i \in Ids, GateAwaitsBalance(i) PROVE TypeOK'
  BY <1>11, TaskTyped, DayBounds DEF GateAwaitsBalance
<1>12. ASSUME NEW i \in Ids, GatePasses(i) PROVE TypeOK'
  BY <1>12, PendingTyped, TaskTyped, DayBounds
     DEF GatePasses, JournalCommand, AbandonCommand
<1>13. ASSUME NEW i \in Ids, BalancePasses(i) PROVE TypeOK'
  <2>1. task.today \in Days
    BY <1>13 DEF BalancePasses, Tasks, Idle
  <2>2. riskBaselines' \subseteq Days
    BY <1>13, <2>1 DEF BalancePasses, RiskBaseline
  <2>3. task' \in Tasks
    BY <1>13, TaskTyped DEF BalancePasses, JournalCommand, AbandonCommand
  <2>4. mem' \in [Ids -> Command] /\ disk' \in [Ids -> Command]
    BY <1>13, PendingTyped DEF BalancePasses, JournalCommand, AbandonCommand
  <2>5. QED
    BY <1>13, <2>2, <2>3, <2>4 DEF BalancePasses
<1>14. ASSUME NEW i \in Ids, LossLimitTrips(i) PROVE TypeOK'
  <2>1. task.stage = "balance" => task.today \in Days
    BY DEF Tasks, Idle
  <2>2. riskBaselines' \subseteq Days
    BY <1>14, <2>1 DEF LossLimitTrips, RiskBaseline
  <2>3. QED
    BY <1>14, <2>2 DEF LossLimitTrips
<1>15. ASSUME NEW i \in Ids, Post(i) PROVE TypeOK'
  <2>1. broker' \in [Ids -> Fates]
    BY <1>15, ServiceAssumption DEF Post, Fates
  <2>2. task' \in Tasks
    BY <1>15 DEF Post, Tasks, Idle
  <2>3. QED
    BY <1>15, <2>1, <2>2 DEF Post
<1>16. ASSUME NEW i \in Ids, RefusedLocally(i) PROVE TypeOK'
  <2>1. mem[i] # Blank
    BY <1>16 DEF RefusedLocally, TaskStages, Blank
  <2>2. \A o \in {"ACCEPTED", "REJECTED", "UNKNOWN"} : Concluded(i, o) \in Command
    BY <2>1, ConcludedTyped
  <2>3. mem' \in [Ids -> Command] /\ disk' \in [Ids -> Command]
    BY <1>16, <2>2 DEF RefusedLocally, Conclude, EnterUnknownResult, Definite
  <2>4. killSwitch' \in BOOLEAN /\ unknownResult' \in BOOLEAN
    BY <1>16 DEF RefusedLocally, Conclude, EnterUnknownResult
  <2>5. QED
    BY <1>16, <2>3, <2>4 DEF RefusedLocally
<1>17. ASSUME NEW i \in Ids, Answer(i) PROVE TypeOK'
  <2>1. mem[i] # Blank
    BY <1>17 DEF Answer, TaskStages, Blank
  <2>2. \A o \in {"ACCEPTED", "REJECTED", "UNKNOWN"} : Concluded(i, o) \in Command
    BY <2>1, ConcludedTyped
  <2>3. mem' \in [Ids -> Command] /\ disk' \in [Ids -> Command]
    BY <1>17, <2>2 DEF Answer, Conclude, EnterUnknownResult, Definite
  <2>4. killSwitch' \in BOOLEAN /\ unknownResult' \in BOOLEAN
    BY <1>17 DEF Answer, Conclude, EnterUnknownResult
  <2>5. QED
    BY <1>17, <2>3, <2>4 DEF Answer
<1>18. ASSUME NEW i \in Ids, Resolve(i) PROVE TypeOK'
  <2>1. mem[i].st # "NONE"
    BY <1>18 DEF Resolve, TaskStages
  <2>2. mem' \in [Ids -> Command]
    BY <1>18, <2>1, SettledTyped DEF Resolve, Linkable, Listed
  <2>3. disk' \in [Ids -> Command]
    BY <1>18, <2>2 DEF Resolve
  <2>4. unknownResult' \in BOOLEAN
    BY <1>18 DEF Resolve, UnknownLeft
  <2>5. task' \in Tasks
    BY <1>18 DEF Resolve, Tasks, Idle
  <2>6. rp' \in Rounds
    BY <1>18, RoundTyped DEF Resolve, JoinRound
  <2>7. QED
    BY <1>18, <2>2, <2>3, <2>4, <2>5, <2>6 DEF Resolve
<1>19. ASSUME NEW i \in Ids, ResolveRefused(i) PROVE TypeOK'
  BY <1>19 DEF ResolveRefused
<1>20. CASE Crash
  <2>1. mem' \in [Ids -> Command]
    BY <1>20 DEF Crash
  <2>2. killSwitch' \in BOOLEAN /\ unknownResult' \in BOOLEAN /\ up' \in BOOLEAN
    BY <1>20 DEF Crash
  <2>3. QED
    BY <1>20, <2>1, <2>2 DEF Crash
<1>21. CASE Restart
  <2>1. mem' \in [Ids -> Command] /\ disk' \in [Ids -> Command]
    BY <1>21, ReplayedTyped DEF Restart
  <2>2. killSwitch' \in BOOLEAN /\ unknownResult' \in BOOLEAN /\ up' \in BOOLEAN
    BY <1>21 DEF Restart, UnknownLeft
  <2>3. QED
    BY <1>21, <2>1, <2>2 DEF Restart, ReplayedLatches
<1>22. CASE RestartFails
  <2>1. disk' \in [Ids -> Command]
    BY <1>22, ReplayedTyped DEF RestartFails
  <2>2. QED
    BY <1>22, <2>1 DEF RestartFails
<1>23. ASSUME NEW i \in Ids, BrokerDecides(i) PROVE TypeOK'
  <2>1. broker' \in [Ids -> Fates]
    BY <1>23, DayBounds DEF BrokerDecides, Fates
  <2>2. QED
    BY <1>23, <2>1 DEF BrokerDecides
<1>24. ASSUME NEW i \in Ids, BrokerLists(i) PROVE TypeOK'
  <2>1. broker' \in [Ids -> Fates]
    BY <1>24 DEF BrokerLists, Fates
  <2>2. QED
    BY <1>24, <2>1 DEF BrokerLists
<1>25. CASE DayRolls
  BY <1>25, ServiceAssumption DEF DayRolls, Days
<1>26. CASE UNCHANGED vars
  BY <1>26 DEF vars
<1>27. QED
  BY <1>1, <1>2, <1>3, <1>4, <1>5, <1>6, <1>7, <1>8, <1>9, <1>10, <1>11, <1>12,
     <1>13, <1>14, <1>15, <1>16, <1>17, <1>18, <1>19, <1>20, <1>21, <1>22, <1>23,
     <1>24, <1>25, <1>26 DEF Next, TaskStep, RoundStep

(***************************************************************************)
(* The inductive invariant, one conjunct at a time                         *)
(***************************************************************************)
(* The steps that touch neither the commands nor their journal, and do not *)
(* end the execution of one.                                               *)
LEMMA MirrorsFrame ==
  ASSUME MemoryMirrors, mem' = mem, disk' = disk, up' = up,
         unknownResult' = unknownResult,
         \A i \in Ids : Executing(i) <=> Executing(i)'
  PROVE  MemoryMirrors'
BY DEF MemoryMirrors

LEMMA MirrorsJournalCommand ==
  ASSUME TypeOK, MemoryMirrors, up, NEW i \in Ids, mem[i].st = "NONE",
         task.stage \notin {"calling", "posted"},
         JournalCommand(i) \/ AbandonCommand(i),
         unknownResult' = unknownResult
  PROVE  MemoryMirrors'
<1>1. CASE JournalCommand(i)
  <2>1. /\ mem'[i].st = "PENDING" /\ disk'[i].st = "PENDING"
        /\ \A j \in Ids \ {i} : mem'[j] = mem[j] /\ disk'[j] = disk[j]
    BY <1>1 DEF JournalCommand, TypeOK, Pending
  <2>2. Executing(i)' /\ \A j \in Ids : ~Executing(j)
    BY <1>1 DEF JournalCommand, Executing
  <2>3. QED
    BY <2>1, <2>2 DEF MemoryMirrors
<1>2. CASE AbandonCommand(i)
  <2>1. \A j \in Ids : ~Executing(j) /\ ~Executing(j)'
    BY <1>2 DEF AbandonCommand, Executing, Idle
  <2>2. QED
    BY <1>2, <2>1 DEF AbandonCommand, MemoryMirrors
<1>3. QED
  BY <1>1, <1>2

LEMMA MirrorsConclude ==
  ASSUME TypeOK, MemoryMirrors, TaskStages, up, NEW i \in Ids,
         task.stage \in {"calling", "posted"}, task.id = i, task' = Idle,
         \/ \E o \in {"ACCEPTED", "REJECTED"} : Conclude(i, o)
         \/ EnterUnknownResult(i)
  PROVE  MemoryMirrors'
<1>1. \A j \in Ids \ {i} : mem'[j] = mem[j] /\ disk'[j] = disk[j] /\ ~Executing(j)
  BY DEF Conclude, EnterUnknownResult, TypeOK, Executing
<1>2. disk[i].st = "PENDING"
  BY DEF TaskStages
<1>3. CASE \E o \in {"ACCEPTED", "REJECTED"} : Conclude(i, o)
  <2>1. mem'[i].st \in {"ACCEPTED", "REJECTED"} /\ disk'[i].st \in {"ACCEPTED", "REJECTED"}
    BY <1>3 DEF Conclude, Concluded, TypeOK
  <2>2. unknownResult' = unknownResult
    BY <1>3 DEF Conclude
  <2>3. QED
    BY <1>1, <2>1, <2>2 DEF MemoryMirrors
<1>4. CASE EnterUnknownResult(i)
  <2>1. mem'[i].st = "UNKNOWN" /\ disk'[i].st \in {"PENDING", "UNKNOWN"} /\ unknownResult'
    BY <1>2, <1>4 DEF EnterUnknownResult, Concluded, TypeOK
  <2>2. QED
    BY <1>1, <2>1 DEF MemoryMirrors
<1>5. QED
  BY <1>3, <1>4

LEMMA MirrorsStep ==
  ASSUME TypeOK, MemoryMirrors, TaskStages, [Next]_vars
  PROVE  MemoryMirrors'
<1> USE DEF durable, service, world
<1>1. CASE Poll \/ FetchHistory \/ SetKillSwitchOn \/ SetKillSwitchOff \/ DayRolls
           \/ UNCHANGED vars
  BY <1>1, MirrorsFrame
     DEF Poll, FetchHistory, SetKillSwitchOn, SetKillSwitchOff, DayRolls, vars, Executing
<1>2. CASE FinishRound \/ FailRound
  <2>1. \A j \in Ids : Executing(j) <=> Executing(j)'
    BY <1>2 DEF FinishRound, FailRound, Wake, Executing, TypeOK, Tasks, Idle
  <2>2. QED
    BY <1>2, <2>1, MirrorsFrame DEF FinishRound, FailRound
<1>3. ASSUME NEW i \in Ids,
             \/ BeginGated(i) \/ BeginResolve(i) \/ GateRefuses(i) \/ GateAwaitsBalance(i)
             \/ LossLimitTrips(i) \/ ResolveRefused(i)
      PROVE  MemoryMirrors'
  <2>1. \A j \in Ids : ~Executing(j) /\ ~Executing(j)'
    BY <1>3 DEF BeginGated, BeginResolve, GateRefuses, GateAwaitsBalance, GateOpen,
                LossLimitTrips, ResolveRefused, Executing, Idle
  <2>2. QED
    BY <1>3, <2>1, MirrorsFrame
       DEF BeginGated, BeginResolve, GateRefuses, GateAwaitsBalance, LossLimitTrips,
           ResolveRefused
<1>4. ASSUME NEW i \in Ids, BrokerDecides(i) \/ BrokerLists(i) PROVE MemoryMirrors'
  BY <1>4, MirrorsFrame DEF BrokerDecides, BrokerLists, Executing
<1>5. ASSUME NEW i \in Ids, Post(i) PROVE MemoryMirrors'
  <2>1. \A j \in Ids : Executing(j) <=> Executing(j)'
    BY <1>5 DEF Post, Executing, TypeOK, Tasks, Idle
  <2>2. QED
    BY <1>5, <2>1, MirrorsFrame DEF Post
<1>6. ASSUME NEW i \in Ids, BeginCancel(i) PROVE MemoryMirrors'
  BY <1>6, MirrorsJournalCommand DEF BeginCancel, Blank, Idle
<1>7. ASSUME NEW i \in Ids, GatePasses(i) \/ BalancePasses(i) PROVE MemoryMirrors'
  <2>1. mem[i].st = "NONE"
    BY <1>7 DEF GatePasses, BalancePasses, GateOpen, TaskStages
  <2>2. /\ up /\ unknownResult' = unknownResult
        /\ task.stage \notin {"calling", "posted"}
        /\ JournalCommand(i) \/ AbandonCommand(i)
    BY <1>7 DEF GatePasses, BalancePasses, GateOpen
  <2>3. QED
    BY <2>1, <2>2, MirrorsJournalCommand
<1>8. ASSUME NEW i \in Ids, RefusedLocally(i) \/ Answer(i) PROVE MemoryMirrors'
  BY <1>8, MirrorsConclude DEF RefusedLocally, Answer, Definite
<1>9. ASSUME NEW i \in Ids, Resolve(i) PROVE MemoryMirrors'
  <2>1. /\ mem'[i].st \in {"ACCEPTED", "DISMISSED"} /\ disk'[i] = mem'[i]
        /\ \A j \in Ids \ {i} : mem'[j] = mem[j] /\ disk'[j] = disk[j]
    BY <1>9 DEF Resolve, Settled, TypeOK
  <2>2. \A j \in Ids : ~Executing(j) /\ ~Executing(j)'
    BY <1>9 DEF Resolve, Executing, TypeOK, Tasks, Idle
  <2>3. \A j \in Ids : mem'[j].st = "UNKNOWN" => unknownResult'
    BY <1>9 DEF Resolve, UnknownLeft
  <2>4. up' = up /\ up
    BY <1>9 DEF Resolve
  <2>5. QED
    BY <2>1, <2>2, <2>3, <2>4 DEF MemoryMirrors
<1>10. CASE Crash \/ RestartFails
  BY <1>10 DEF Crash, RestartFails, MemoryMirrors
<1>11. CASE Restart
  <2>1. \A j \in Ids : mem'[j] = Replayed(disk[j]) /\ disk'[j] = mem'[j]
    BY <1>11 DEF Restart
  <2>2. \A j \in Ids : mem'[j].st # "PENDING"
    BY <2>1 DEF Replayed, TypeOK, Command, Blank
  <2>3. \A j \in Ids : mem'[j].st = "UNKNOWN" => unknownResult'
    BY <1>11 DEF Restart, UnknownLeft
  <2>4. QED
    BY <2>1, <2>2, <2>3 DEF MemoryMirrors
<1>12. QED
  BY <1>1, <1>2, <1>3, <1>4, <1>5, <1>6, <1>7, <1>8, <1>9, <1>10, <1>11
     DEF Next, TaskStep, RoundStep

(* The steps that leave the commands, their journal, what was sent and the *)
(* stage of the task as they are, or clear the task.                       *)
LEMMA StagesFrame ==
  ASSUME TaskStages, mem' = mem, disk' = disk, sent' = sent, up' = up,
         task' = task \/ task' = Idle
  PROVE  TaskStages'
BY DEF TaskStages, Idle

LEMMA StagesJournalCommand ==
  ASSUME TypeOK, MemoryMirrors, BrokerAgrees, up, up', NEW i \in Ids,
         mem[i].st = "NONE", JournalCommand(i), sent' = sent
  PROVE  TaskStages'
<1>1. mem'[i].st = "PENDING" /\ disk'[i].st = "PENDING"
  BY DEF JournalCommand, Pending, TypeOK
<1>2. sent'[i] = 0
  BY DEF MemoryMirrors, BrokerAgrees
<1>3. task' = [stage |-> "calling", id |-> i, today |-> 0]
  BY DEF JournalCommand
<1>4. QED
  BY <1>1, <1>2, <1>3 DEF TaskStages

LEMMA StagesStep ==
  ASSUME TypeOK, MemoryMirrors, TaskStages, BrokerAgrees, [Next]_vars
  PROVE  TaskStages'
<1> USE DEF durable, service, world
<1>1. CASE Poll \/ FetchHistory \/ SetKillSwitchOn \/ SetKillSwitchOff \/ DayRolls
           \/ UNCHANGED vars
  BY <1>1, StagesFrame
     DEF Poll, FetchHistory, SetKillSwitchOn, SetKillSwitchOff, DayRolls, vars
<1>2. CASE FinishRound \/ FailRound
  <2>1. \/ task' = task \/ task' = Idle
        \/ task.stage = "reconcile" /\ task' = [stage |-> "gate", id |-> task.id, today |-> 0]
    BY <1>2 DEF FinishRound, FailRound, Wake, TypeOK, Tasks, Idle
  <2>2. mem' = mem /\ disk' = disk /\ sent' = sent /\ up' = up /\ up
    BY <1>2 DEF FinishRound, FailRound
  <2>3. CASE task.stage = "reconcile" /\ task' = [stage |-> "gate", id |-> task.id, today |-> 0]
    BY <2>2, <2>3 DEF TaskStages
  <2>4. QED
    BY <2>1, <2>2, <2>3, StagesFrame
<1>3. ASSUME NEW i \in Ids, GateRefuses(i) \/ LossLimitTrips(i) \/ ResolveRefused(i)
      PROVE  TaskStages'
  BY <1>3, StagesFrame DEF GateRefuses, LossLimitTrips, ResolveRefused
<1>4. ASSUME NEW i \in Ids, BeginGated(i) \/ BeginResolve(i) PROVE TaskStages'
  <2>1. CASE BeginGated(i)
    <3>1. mem[i].st = "NONE" /\ task' = [stage |-> "reconcile", id |-> i, today |-> 0]
      BY <2>1 DEF BeginGated, Blank
    <3>2. mem' = mem /\ up'
      BY <2>1 DEF BeginGated
    <3>3. QED
      BY <3>1, <3>2 DEF TaskStages
  <2>2. CASE BeginResolve(i)
    <3>1. mem[i].st = "UNKNOWN" /\ task' = [stage |-> "evidence", id |-> i, today |-> day]
      BY <2>2 DEF BeginResolve
    <3>2. mem' = mem /\ up'
      BY <2>2 DEF BeginResolve
    <3>3. QED
      BY <3>1, <3>2 DEF TaskStages
  <2>3. QED
    BY <1>4, <2>1, <2>2
<1>5. ASSUME NEW i \in Ids, GateAwaitsBalance(i) PROVE TaskStages'
  <2>1. mem[i].st = "NONE" /\ ~unknownResult /\ up
    BY <1>5 DEF GateAwaitsBalance, GateOpen, KillStatus, TaskStages
  <2>2. \A j \in Ids : mem[j].st # "UNKNOWN"
    BY <2>1 DEF MemoryMirrors
  <2>3. mem' = mem /\ up' /\ task' = [stage |-> "balance", id |-> i, today |-> day]
    BY <1>5 DEF GateAwaitsBalance, GateOpen
  <2>4. QED
    BY <2>1, <2>2, <2>3 DEF TaskStages
<1>6. ASSUME NEW i \in Ids, BeginCancel(i) \/ GatePasses(i) \/ BalancePasses(i)
      PROVE  TaskStages'
  <2>1. mem[i].st = "NONE" /\ up /\ up' /\ sent' = sent
    BY <1>6 DEF BeginCancel, GatePasses, BalancePasses, GateOpen, TaskStages, Blank
  <2>2. JournalCommand(i) \/ AbandonCommand(i)
    BY <1>6 DEF BeginCancel, GatePasses, BalancePasses
  <2>3. CASE AbandonCommand(i)
    BY <2>1, <2>3 DEF AbandonCommand, TaskStages, Idle
  <2>4. QED
    BY <2>1, <2>2, <2>3, StagesJournalCommand
<1>7. ASSUME NEW i \in Ids, Post(i) PROVE TaskStages'
  <2>1. task' = [stage |-> "posted", id |-> i, today |-> 0]
    BY <1>7 DEF Post, TypeOK, Tasks, Idle
  <2>2. /\ disk[i].st = "PENDING" /\ mem[i].st = "PENDING" /\ sent[i] = 0
        /\ mem' = mem /\ disk' = disk /\ up'
    BY <1>7 DEF Post, TaskStages
  <2>3. sent'[i] = 1
    BY <1>7, <2>2 DEF Post, TypeOK
  <2>4. QED
    BY <2>1, <2>2, <2>3 DEF TaskStages
<1>8. ASSUME NEW i \in Ids, RefusedLocally(i) \/ Answer(i) PROVE TaskStages'
  BY <1>8 DEF RefusedLocally, Answer, TaskStages, Idle
<1>9. ASSUME NEW i \in Ids, Resolve(i) PROVE TaskStages'
  <2>1. task'.stage = "resolved" /\ up'
    BY <1>9 DEF Resolve, TypeOK, Tasks, Idle
  <2>2. QED
    BY <2>1 DEF TaskStages
<1>10. CASE Crash \/ Restart \/ RestartFails
  <2>1. task' = Idle
    BY <1>10 DEF Crash, Restart, RestartFails, TaskStages
  <2>2. QED
    BY <2>1 DEF TaskStages, Idle
<1>11. ASSUME NEW i \in Ids, BrokerDecides(i) \/ BrokerLists(i) PROVE TaskStages'
  BY <1>11, StagesFrame DEF BrokerDecides, BrokerLists
<1>12. QED
  BY <1>1, <1>2, <1>3, <1>4, <1>5, <1>6, <1>7, <1>8, <1>9, <1>10, <1>11
     DEF Next, TaskStep, RoundStep

(* The steps that touch neither the journal nor the broker. *)
LEMMA BrokerFrame ==
  ASSUME BrokerAgrees, disk' = disk, sent' = sent, broker' = broker
  PROVE  BrokerAgrees'
BY DEF BrokerAgrees, AcceptedAt

(* One line of the journal changes to an outcome the broker can vouch for. *)
LEMMA BrokerLine ==
  ASSUME TypeOK, BrokerAgrees, NEW i \in Ids, NEW c,
         disk' = [disk EXCEPT ![i] = c], c.st # "NONE",
         c.st = "ACCEPTED" => c.order \in Ids /\ AcceptedAt(broker[c.order]),
         c.st = "REJECTED" => broker[i].st \in {"none", "rejected"},
         sent' = sent, broker' = broker
  PROVE  BrokerAgrees'
<1>1. disk'[i] = c /\ \A j \in Ids \ {i} : disk'[j] = disk[j]
  BY DEF TypeOK
<1>2. QED
  BY <1>1 DEF BrokerAgrees, AcceptedAt

(* What the broker does next with one request takes nothing back.          *)
LEMMA BrokerMoves ==
  ASSUME TypeOK, BrokerAgrees, NEW i \in Ids, NEW b,
         broker' = [broker EXCEPT ![i] = b], sent' = sent, disk' = disk,
         broker[i].st \notin {"none", "rejected"},
         AcceptedAt(broker[i]) => AcceptedAt(b)
  PROVE  BrokerAgrees'
<1>1. broker'[i] = b /\ \A j \in Ids \ {i} : broker'[j] = broker[j]
  BY DEF TypeOK
<1>2. QED
  BY <1>1 DEF BrokerAgrees, AcceptedAt

LEMMA BrokerStep ==
  ASSUME TypeOK, MemoryMirrors, TaskStages, BrokerAgrees, [Next]_vars
  PROVE  BrokerAgrees'
<1> USE DEF durable, service, world
<1>1. CASE Poll \/ RoundStep \/ SetKillSwitchOn \/ SetKillSwitchOff \/ DayRolls
           \/ Crash \/ UNCHANGED vars
  BY <1>1, BrokerFrame
     DEF Poll, RoundStep, FetchHistory, FinishRound, FailRound, SetKillSwitchOn,
         SetKillSwitchOff, DayRolls, Crash, vars
<1>2. ASSUME NEW i \in Ids,
             \/ BeginGated(i) \/ BeginResolve(i) \/ GateRefuses(i) \/ GateAwaitsBalance(i)
             \/ LossLimitTrips(i) \/ ResolveRefused(i)
      PROVE  BrokerAgrees'
  BY <1>2, BrokerFrame
     DEF BeginGated, BeginResolve, GateRefuses, GateAwaitsBalance, LossLimitTrips,
         ResolveRefused
<1>3. ASSUME NEW i \in Ids, BeginCancel(i) \/ GatePasses(i) \/ BalancePasses(i)
      PROVE  BrokerAgrees'
  <2>1. sent' = sent /\ broker' = broker
    BY <1>3 DEF BeginCancel, GatePasses, BalancePasses
  <2>2. JournalCommand(i) \/ AbandonCommand(i)
    BY <1>3 DEF BeginCancel, GatePasses, BalancePasses
  <2>3. CASE AbandonCommand(i)
    BY <2>1, <2>3, BrokerFrame DEF AbandonCommand
  <2>4. CASE JournalCommand(i)
    <3>1. disk' = [disk EXCEPT ![i] = Pending]
      BY <2>4 DEF JournalCommand
    <3>2. Pending.st = "PENDING"
      BY DEF Pending
    <3>3. QED
      BY <2>1, <3>1, <3>2, BrokerLine
  <2>5. QED
    BY <2>2, <2>3, <2>4
<1>4. ASSUME NEW i \in Ids, Post(i) PROVE BrokerAgrees'
  <2>1. sent[i] = 0 /\ disk[i].st = "PENDING"
    BY <1>4 DEF Post, TaskStages
  <2>2. /\ sent'[i] = 1 /\ \A j \in Ids \ {i} : sent'[j] = sent[j]
        /\ \A j \in Ids \ {i} : broker'[j] = broker[j]
    BY <1>4, <2>1 DEF Post, TypeOK
  <2>3. ~AcceptedAt(broker[i])
    BY <2>1 DEF BrokerAgrees, AcceptedAt
  <2>4. disk' = disk
    BY <1>4 DEF Post
  <2>5. QED
    BY <2>1, <2>2, <2>3, <2>4 DEF BrokerAgrees, AcceptedAt
<1>5. ASSUME NEW i \in Ids, RefusedLocally(i) \/ Answer(i) PROVE BrokerAgrees'
  <2>1. sent' = sent /\ broker' = broker
    BY <1>5 DEF RefusedLocally, Answer
  <2>2. CASE EnterUnknownResult(i)
    <3>1. Concluded(i, "UNKNOWN").st = "UNKNOWN"
      BY DEF Concluded
    <3>2. QED
      BY <2>1, <2>2, <3>1, BrokerLine, BrokerFrame DEF EnterUnknownResult
  <2>3. CASE RefusedLocally(i) /\ Conclude(i, "REJECTED")
    <3>1. broker[i].st = "none"
      BY <2>3 DEF RefusedLocally, TaskStages, BrokerAgrees
    <3>2. Concluded(i, "REJECTED").st = "REJECTED"
      BY DEF Concluded
    <3>3. QED
      BY <2>1, <2>3, <3>1, <3>2, BrokerLine DEF Conclude
  <2>4. ASSUME NEW o \in Definite(i), Conclude(i, o) PROVE BrokerAgrees'
    <3>1. /\ o \in {"ACCEPTED", "REJECTED"}
          /\ o = "ACCEPTED" => AcceptedAt(broker[i])
          /\ o = "REJECTED" => broker[i].st = "rejected"
      BY <2>4 DEF Definite
    <3>2. Concluded(i, o).st = o /\ (o = "ACCEPTED" => Concluded(i, o).order = i)
      BY DEF Concluded
    <3>3. QED
      BY <2>1, <2>4, <3>1, <3>2, BrokerLine DEF Conclude
  <2>5. QED
    BY <1>5, <2>2, <2>3, <2>4 DEF RefusedLocally, Answer
<1>6. ASSUME NEW i \in Ids, Resolve(i) PROVE BrokerAgrees'
  <2>1. sent' = sent /\ broker' = broker
    BY <1>6 DEF Resolve
  <2>2. ASSUME NEW o \in Linkable(i), mem' = [mem EXCEPT ![i] = Settled(i, "ACCEPTED", o)]
        PROVE  BrokerAgrees'
    <3>1. o \in Ids /\ AcceptedAt(broker[o])
      BY <2>2 DEF Linkable, Listed, AcceptedAt
    <3>2. /\ Settled(i, "ACCEPTED", o).st = "ACCEPTED"
          /\ Settled(i, "ACCEPTED", o).order = o
      BY DEF Settled
    <3>3. disk' = [disk EXCEPT ![i] = Settled(i, "ACCEPTED", o)]
      BY <1>6, <2>2 DEF Resolve, TypeOK
    <3>4. QED
      BY <2>1, <3>1, <3>2, <3>3, BrokerLine
  <2>3. CASE mem' = [mem EXCEPT ![i] = Settled(i, "DISMISSED", NoOrder)]
    <3>1. Settled(i, "DISMISSED", NoOrder).st = "DISMISSED"
      BY DEF Settled
    <3>2. disk' = [disk EXCEPT ![i] = Settled(i, "DISMISSED", NoOrder)]
      BY <1>6, <2>3 DEF Resolve, TypeOK
    <3>3. QED
      BY <2>1, <3>1, <3>2, BrokerLine
  <2>4. QED
    BY <1>6, <2>2, <2>3 DEF Resolve
<1>7. CASE Restart \/ RestartFails
  <2>1. \A j \in Ids : disk'[j] \in {disk[j], Replayed(disk[j])}
    <3>1. CASE Restart
      BY <3>1 DEF Restart
    <3>2. CASE RestartFails
      BY <3>2 DEF RestartFails
    <3>3. QED
      BY <1>7, <3>1, <3>2
  <2>2. sent' = sent /\ broker' = broker
    BY <1>7 DEF Restart, RestartFails
  <2>3. \A j \in Ids : \/ disk'[j] = disk[j]
                       \/ disk[j].st = "PENDING" /\ disk'[j].st = "UNKNOWN"
    BY <2>1, ReplayedOutcome DEF TypeOK
  <2>4. QED
    BY <2>2, <2>3 DEF BrokerAgrees, AcceptedAt
<1>8. ASSUME NEW i \in Ids, BrokerDecides(i) PROVE BrokerAgrees'
  <2>1. PICK fate \in {"lost", "rejected", "accepted"} :
          broker' = [broker EXCEPT ![i] = [st |-> fate, day |-> day]]
    BY <1>8 DEF BrokerDecides
  <2>2. broker[i].st = "inflight" /\ ~AcceptedAt(broker[i])
    BY <1>8 DEF BrokerDecides, AcceptedAt
  <2>3. sent' = sent /\ disk' = disk
    BY <1>8 DEF BrokerDecides
  <2>4. QED
    BY <2>1, <2>2, <2>3, BrokerMoves
<1>9. ASSUME NEW i \in Ids, BrokerLists(i) PROVE BrokerAgrees'
  <2>1. broker' = [broker EXCEPT ![i] = [st |-> "listed", day |-> broker[i].day]]
    BY <1>9 DEF BrokerLists
  <2>2. AcceptedAt([st |-> "listed", day |-> broker[i].day])
    BY DEF AcceptedAt
  <2>3. sent' = sent /\ disk' = disk /\ broker[i].st = "accepted"
    BY <1>9 DEF BrokerLists
  <2>4. QED
    BY <2>1, <2>2, <2>3, BrokerMoves
<1>10. QED
  BY <1>1, <1>2, <1>3, <1>4, <1>5, <1>6, <1>7, <1>8, <1>9
     DEF Next, TaskStep

LEMMA ApartFrame ==
  ASSUME OrdersApart, mem' = mem, disk' = disk, up' = up,
         \A i \in Ids : Executing(i)' => Executing(i)
  PROVE  OrdersApart'
BY DEF OrdersApart, OneOrderOneCommand

(* A new command's own number is not taken: nothing was sent for it yet.   *)
LEMMA ApartJournalCommand ==
  ASSUME TypeOK, MemoryMirrors, BrokerAgrees, OrdersApart, up, NEW i \in Ids,
         mem[i].st = "NONE", task.stage \notin {"calling", "posted"},
         JournalCommand(i) \/ AbandonCommand(i), up' = up
  PROVE  OrdersApart'
<1>1. CASE JournalCommand(i)
  <2>1. /\ disk'[i].st = "PENDING"
        /\ \A j \in Ids \ {i} : mem'[j] = mem[j] /\ disk'[j] = disk[j]
    BY <1>1 DEF JournalCommand, TypeOK, Pending
  <2>2. ~AcceptedAt(broker[i])
    BY DEF MemoryMirrors, BrokerAgrees, AcceptedAt
  <2>3. \A j \in Ids : disk[j].st = "ACCEPTED" => disk[j].order # i
    BY <2>2 DEF BrokerAgrees
  <2>4. \A j \in Ids : Executing(j)' => j = i
    BY <1>1 DEF JournalCommand, Executing
  <2>5. QED
    BY <2>1, <2>3, <2>4 DEF OrdersApart, OneOrderOneCommand
<1>2. CASE AbandonCommand(i)
  BY <1>2, ApartFrame DEF AbandonCommand, Executing, Idle
<1>3. QED
  BY <1>1, <1>2

LEMMA ApartConclude ==
  ASSUME TypeOK, TaskStages, OrdersApart, up, NEW i \in Ids,
         task.stage \in {"calling", "posted"}, task.id = i, task' = Idle,
         \/ \E o \in {"ACCEPTED", "REJECTED"} : Conclude(i, o)
         \/ EnterUnknownResult(i)
  PROVE  OrdersApart'
<1>1. \A j \in Ids \ {i} : mem'[j] = mem[j] /\ disk'[j] = disk[j]
  BY DEF Conclude, EnterUnknownResult, TypeOK
<1>2. Executing(i) /\ \A j \in Ids : ~Executing(j)'
  BY DEF Executing, Idle
<1>3. CASE \E o \in {"ACCEPTED", "REJECTED"} : Conclude(i, o)
  <2>1. mem'[i] = disk'[i]
    BY <1>3 DEF Conclude, TypeOK
  <2>2. disk'[i].st = "ACCEPTED" => disk'[i].order = i
    <3>1. PICK o \in {"ACCEPTED", "REJECTED"} : disk'[i] = Concluded(i, o)
      BY <1>3 DEF Conclude, TypeOK
    <3>2. QED
      BY <3>1 DEF Concluded
  <2>3. \A j \in Ids \ {i} : disk[j].st = "ACCEPTED" => disk[j].order # i
    BY <1>2 DEF OrdersApart
  <2>4. QED
    BY <1>1, <1>2, <2>1, <2>2, <2>3 DEF OrdersApart, OneOrderOneCommand
<1>4. CASE EnterUnknownResult(i)
  <2>1. disk'[i].st # "ACCEPTED"
    BY <1>4 DEF EnterUnknownResult, Concluded, TypeOK, TaskStages
  <2>2. QED
    BY <1>1, <1>2, <2>1 DEF OrdersApart, OneOrderOneCommand
<1>5. QED
  BY <1>3, <1>4

LEMMA ApartStep ==
  ASSUME TypeOK, MemoryMirrors, TaskStages, BrokerAgrees, OrdersApart, [Next]_vars
  PROVE  OrdersApart'
<1> USE DEF durable, service, world
<1>1. CASE Poll \/ FetchHistory \/ SetKillSwitchOn \/ SetKillSwitchOff \/ DayRolls
           \/ UNCHANGED vars
  BY <1>1, ApartFrame
     DEF Poll, FetchHistory, SetKillSwitchOn, SetKillSwitchOff, DayRolls, vars, Executing
<1>2. CASE FinishRound \/ FailRound
  <2>1. \A j \in Ids : Executing(j)' => Executing(j)
    BY <1>2 DEF FinishRound, FailRound, Wake, Executing, TypeOK, Tasks, Idle
  <2>2. QED
    BY <1>2, <2>1, ApartFrame DEF FinishRound, FailRound
<1>3. ASSUME NEW i \in Ids,
             \/ BeginGated(i) \/ BeginResolve(i) \/ GateRefuses(i) \/ GateAwaitsBalance(i)
             \/ LossLimitTrips(i) \/ ResolveRefused(i)
      PROVE  OrdersApart'
  <2>1. \A j \in Ids : ~Executing(j)'
    BY <1>3 DEF BeginGated, BeginResolve, GateRefuses, GateAwaitsBalance, LossLimitTrips,
                ResolveRefused, Executing, Idle
  <2>2. QED
    BY <1>3, <2>1, ApartFrame
       DEF BeginGated, BeginResolve, GateRefuses, GateAwaitsBalance, LossLimitTrips,
           ResolveRefused
<1>4. ASSUME NEW i \in Ids, BrokerDecides(i) \/ BrokerLists(i) PROVE OrdersApart'
  BY <1>4, ApartFrame DEF BrokerDecides, BrokerLists, Executing
<1>5. ASSUME NEW i \in Ids, Post(i) PROVE OrdersApart'
  <2>1. \A j \in Ids : Executing(j)' => Executing(j)
    BY <1>5 DEF Post, Executing, TypeOK, Tasks, Idle
  <2>2. QED
    BY <1>5, <2>1, ApartFrame DEF Post
<1>6. ASSUME NEW i \in Ids, BeginCancel(i) \/ GatePasses(i) \/ BalancePasses(i)
      PROVE  OrdersApart'
  <2>1. mem[i].st = "NONE"
    BY <1>6 DEF BeginCancel, GatePasses, BalancePasses, GateOpen, TaskStages, Blank
  <2>2. /\ up /\ up' = up /\ task.stage \notin {"calling", "posted"}
        /\ JournalCommand(i) \/ AbandonCommand(i)
    BY <1>6 DEF BeginCancel, GatePasses, BalancePasses, GateOpen, Idle
  <2>3. QED
    BY <2>1, <2>2, ApartJournalCommand
<1>7. ASSUME NEW i \in Ids, RefusedLocally(i) \/ Answer(i) PROVE OrdersApart'
  BY <1>7, ApartConclude DEF RefusedLocally, Answer, Definite
<1>8. ASSUME NEW i \in Ids, Resolve(i) PROVE OrdersApart'
  <2>1. up /\ \A j \in Ids : ~Executing(j)'
    BY <1>8 DEF Resolve, Executing, TypeOK, Tasks, Idle
  <2>2. /\ disk'[i] = mem'[i]
        /\ \A j \in Ids \ {i} : mem'[j] = mem[j] /\ disk'[j] = disk[j]
    BY <1>8 DEF Resolve, TypeOK
  <2>3. disk'[i].st = "ACCEPTED" => disk'[i].order \notin TrackedExcept(i)
    BY <1>8, <2>2 DEF Resolve, Linkable, Settled, TypeOK
  <2>4. \A j \in Ids \ {i} : disk[j].st = "ACCEPTED" => disk[j].order \in TrackedExcept(i)
    BY <2>1 DEF OrdersApart, TrackedExcept
  <2>5. QED
    BY <2>1, <2>2, <2>3, <2>4 DEF OrdersApart, OneOrderOneCommand
<1>9. CASE Crash \/ RestartFails \/ Restart
  <2>1. \A j \in Ids : ~Executing(j)'
    BY <1>9 DEF Crash, RestartFails, Restart, Executing, TaskStages, Idle
  <2>2. up' => \A j \in Ids : mem'[j] = disk'[j]
    BY <1>9 DEF Crash, RestartFails, Restart
  <2>3. \A j \in Ids : disk'[j] \in {disk[j], Replayed(disk[j])}
    <3>1. CASE Restart
      BY <3>1 DEF Restart
    <3>2. CASE RestartFails
      BY <3>2 DEF RestartFails
    <3>3. CASE Crash
      BY <3>3 DEF Crash
    <3>4. QED
      BY <1>9, <3>1, <3>2, <3>3
  <2>4. \A j \in Ids : disk'[j].st = "ACCEPTED" => disk'[j] = disk[j]
    BY <2>3, ReplayedOutcome DEF TypeOK
  <2>5. QED
    BY <2>1, <2>2, <2>4 DEF OrdersApart, OneOrderOneCommand
<1>10. QED
  BY <1>1, <1>2, <1>3, <1>4, <1>5, <1>6, <1>7, <1>8, <1>9
     DEF Next, TaskStep, RoundStep

LEMMA LatchStep ==
  ASSUME LatchSurvives, [Next]_vars
  PROVE  LatchSurvives'
<1> USE DEF LatchSurvives, durable, service, world
<1>1. CASE Poll \/ RoundStep \/ SetKillSwitchOn \/ SetKillSwitchOff
           \/ Crash \/ Restart \/ RestartFails \/ DayRolls \/ UNCHANGED vars
  BY <1>1
     DEF Poll, RoundStep, FetchHistory, FinishRound, FailRound, SetKillSwitchOn,
         SetKillSwitchOff, Crash, Restart, RestartFails, ReplayedLatches, DayRolls, vars
<1>2. ASSUME NEW i \in Ids,
             \/ BeginGated(i) \/ BeginCancel(i) \/ BeginResolve(i) \/ TaskStep(i)
             \/ BrokerDecides(i) \/ BrokerLists(i)
      PROVE  LatchSurvives'
  BY <1>2
     DEF BeginGated, BeginCancel, BeginResolve, TaskStep, GateRefuses, GateAwaitsBalance,
         GatePasses, BalancePasses, LossLimitTrips, Post, RefusedLocally, Answer, Resolve,
         ResolveRefused, BrokerDecides, BrokerLists
<1>3. QED
  BY <1>1, <1>2 DEF Next

LEMMA InvInit == Init => IInv
<1> SUFFICES ASSUME Init PROVE IInv
  OBVIOUS
<1>1. TypeOK
  BY InitTyped
<1>2. MemoryMirrors /\ TaskStages /\ BrokerAgrees /\ OrdersApart /\ LatchSurvives
  BY DEF Init, MemoryMirrors, TaskStages, BrokerAgrees, OrdersApart, OneOrderOneCommand,
         LatchSurvives, Executing, Blank, Idle, Quiet
<1>3. QED
  BY <1>1, <1>2 DEF IInv

LEMMA InvStep == IInv /\ [Next]_vars => IInv'
BY TypeStep, MirrorsStep, StagesStep, BrokerStep, ApartStep, LatchStep DEF IInv

(***************************************************************************)
(* Theorems                                                                *)
(***************************************************************************)
(* The strengthening the other invariants follow from: memory mirrors the  *)
(* journal, each stage of the queued task has established what it acts on, *)
(* and the journal and the broker agree.                                   *)
THEOREM Invariant == Spec => []IInv
<1>1. Init => IInv
  BY InvInit
<1>2. IInv /\ [Next]_vars => IInv'
  BY InvStep
<1>3. QED
  BY <1>1, <1>2, PTL DEF Spec

(* Every variable of the order service keeps its type.                     *)
THEOREM TypeCorrect == Spec => []TypeOK
<1>1. IInv => TypeOK
  BY DEF IInv
<1>2. QED
  BY <1>1, Invariant, PTL

(* Every command that is on disk without an outcome, however it got there, *)
(* is the one executing or blocks the service until the user settles it.   *)
THEOREM Unresolved == Spec => []UnresolvedBlocks
<1>1. IInv => UnresolvedBlocks
  BY DEF IInv, MemoryMirrors, UnresolvedBlocks, Executing
<1>2. QED
  BY <1>1, Invariant, PTL

(* No outcome in the journal contradicts what the broker did.              *)
THEOREM Truth == Spec => []JournalTellsTheTruth
<1>1. IInv => JournalTellsTheTruth
  BY DEF IInv, BrokerAgrees, JournalTellsTheTruth, AcceptedAt
<1>2. QED
  BY <1>1, Invariant, PTL

(* No two commands are recorded as one broker order, neither by an answer  *)
(* nor by a user who settles doubtful commands by hand.                    *)
THEOREM Apart == Spec => []OneOrderOneCommand
<1>1. IInv => OneOrderOneCommand
  BY DEF IInv, OrdersApart
<1>2. QED
  BY <1>1, Invariant, PTL

(* A journaled mismatch that was not acknowledged blocks after any number  *)
(* of restarts.                                                            *)
THEOREM Latch == Spec => []LatchSurvives
<1>1. IInv => LatchSurvives
  BY DEF IInv
<1>2. QED
  BY <1>1, Invariant, PTL

(* No order that adds risk is committed while any outcome is unknown.      *)
THEOREM NoRisk == Spec => NoNewRiskInDoubt
<1> DEFINE Step == \A i \in Gated : mem[i] = Blank /\ mem'[i].st = "PENDING"
                                      => \A j \in Ids : mem[j].st # "UNKNOWN"
<1>1. IInv /\ [Next]_vars => Step
  <2> SUFFICES ASSUME IInv, [Next]_vars, NEW g \in Gated,
                      mem[g].st = "NONE", mem'[g].st = "PENDING"
               PROVE  \A j \in Ids : mem[j].st # "UNKNOWN"
    BY DEF Blank
  <2> USE DEF durable, service, world
  <2>1. g \in Ids /\ TypeOK /\ MemoryMirrors /\ TaskStages
    BY ServiceAssumption DEF IInv
  <2>2. mem' # mem
    OBVIOUS
  <2>3. CASE \E i \in Ids : GatePasses(i) \/ BalancePasses(i)
    BY <2>1, <2>3
       DEF GatePasses, BalancePasses, GateOpen, KillStatus, TaskStages,
           MemoryMirrors
  <2>4. ASSUME NEW i \in Ids, BeginCancel(i) PROVE FALSE
    <3>1. i # g
      BY <2>4 DEF BeginCancel
    <3>2. mem'[g] = mem[g]
      BY <2>1, <2>4, <3>1 DEF BeginCancel, JournalCommand, AbandonCommand, TypeOK
    <3>3. QED
      BY <3>2
  <2>5. ASSUME NEW i \in Ids, RefusedLocally(i) \/ Answer(i) PROVE FALSE
    <3>1. mem[i].st = "PENDING"
      BY <2>1, <2>5 DEF RefusedLocally, Answer, TaskStages
    <3>2. mem'[g] = mem[g]
      BY <2>1, <2>5, <3>1
         DEF RefusedLocally, Answer, Conclude, EnterUnknownResult, TypeOK
    <3>3. QED
      BY <3>2
  <2>6. ASSUME NEW i \in Ids, Resolve(i) PROVE FALSE
    <3>1. mem'[g] = mem[g] \/ mem'[g].st \in {"ACCEPTED", "DISMISSED"}
      BY <2>1, <2>6 DEF Resolve, Settled, TypeOK
    <3>2. QED
      BY <3>1
  <2>7. CASE Crash
    BY <2>1, <2>7 DEF Crash, Blank
  <2>8. CASE Restart
    <3>1. mem'[g] = Replayed(disk[g]) /\ disk[g] \in Command
      BY <2>1, <2>8 DEF Restart, TypeOK
    <3>2. Replayed(disk[g]).st # "PENDING"
      BY <3>1, ReplayedOutcome DEF Replayed
    <3>3. QED
      BY <3>1, <3>2
  <2>9. CASE Poll \/ RoundStep \/ SetKillSwitchOn \/ SetKillSwitchOff \/ RestartFails
             \/ DayRolls \/ UNCHANGED vars
    BY <2>2, <2>9
       DEF Poll, RoundStep, FetchHistory, FinishRound, FailRound, SetKillSwitchOn,
           SetKillSwitchOff, RestartFails, DayRolls, vars
  <2>10. ASSUME NEW i \in Ids,
                \/ BeginGated(i) \/ BeginResolve(i) \/ GateRefuses(i)
                \/ GateAwaitsBalance(i) \/ LossLimitTrips(i) \/ Post(i)
                \/ ResolveRefused(i) \/ BrokerDecides(i) \/ BrokerLists(i)
         PROVE  FALSE
    BY <2>2, <2>10
       DEF BeginGated, BeginResolve, GateRefuses, GateAwaitsBalance, LossLimitTrips,
           Post, ResolveRefused, BrokerDecides, BrokerLists
  <2>11. QED
    BY <2>3, <2>4, <2>5, <2>6, <2>7, <2>8, <2>9, <2>10 DEF Next, TaskStep
<1>2. IInv /\ [Next]_vars => [Step]_vars
  BY <1>1
<1>3. QED
  BY <1>2, Invariant, PTL DEF Spec, NoNewRiskInDoubt

(***************************************************************************)
(* The daily limit                                                         *)
(***************************************************************************)
(* Commands keep their day, only finitely many were ever journaled, and a  *)
(* command that awaits the balance still has room on the current day: the  *)
(* queue is serial, and a day that begins during the wait has no command.  *)
Journaled == {i \in Ids : disk[i].day # 0}

DaysKept ==
  /\ IsFiniteSet(Journaled)
  /\ up => \A i \in Ids : mem[i].day = disk[i].day
  /\ \A i \in Ids : disk[i].day <= day
  /\ task.stage = "balance" => TodayCount(day) < MaxDailyOrders

CapInv == DaysKept /\ DailyOrderCap

GatedOn(d) == {i \in Gated : disk[i].day = d}

(* A step that journals no command changes no day.                         *)
LEMMA SameDays ==
  ASSUME TypeOK, CapInv, up, day' = day,
         \A i \in Ids : disk'[i].day = disk[i].day,
         up' => \A i \in Ids : mem'[i].day = mem[i].day,
         task'.stage = "balance" => (task.stage = "balance" \/ ~OverDailyLimit(day)) /\ up'
  PROVE  CapInv'
<1>1. Journaled' = Journaled /\ \A d \in Days : GatedOn(d)' = GatedOn(d)
  BY ServiceAssumption DEF Journaled, GatedOn
<1>2. up' => \A d : {i \in Ids : mem'[i].day = d} = {i \in Ids : mem[i].day = d}
  OBVIOUS
<1>3. task'.stage = "balance" => TodayCount(day)' < MaxDailyOrders
  <2>1. up' => TodayCount(day)' = TodayCount(day)
    BY <1>2 DEF TodayCount
  <2>2. ~OverDailyLimit(day) /\ up => TodayCount(day) < MaxDailyOrders
    <3>1. {i \in Ids : mem[i].day = day} \in SUBSET Journaled
      BY DEF CapInv, DaysKept, Journaled, TypeOK, Days
    <3>2. TodayCount(day) \in Nat
      BY <3>1, FS_Subset, FS_CardinalityType DEF CapInv, DaysKept, TodayCount
    <3>3. QED
      BY <3>2, ServiceAssumption DEF OverDailyLimit
  <2>3. QED
    BY <2>1, <2>2 DEF CapInv, DaysKept
<1>4. QED
  BY <1>1, <1>3 DEF CapInv, DaysKept, DailyOrderCap, GatedOn

(* The command that is journaled had room.                                 *)
LEMMA OneMore ==
  ASSUME TypeOK, CapInv, up, up' = up, day' = day, NEW i \in Ids, mem[i].st = "NONE",
         JournalCommand(i),
         i \in Gated => TodayCount(day) < MaxDailyOrders
  PROVE  CapInv'
<1>1. day \in Days /\ day # 0
  BY DEF TypeOK, Days
<1>2. mem[i].day = 0 /\ disk[i].day = 0
  BY DEF TypeOK, Command, Blank, CapInv, DaysKept
<1>3. /\ mem'[i].day = day /\ disk'[i].day = day
      /\ \A j \in Ids \ {i} : mem'[j] = mem[j] /\ disk'[j] = disk[j]
      /\ task'.stage = "calling"
  BY DEF JournalCommand, Pending, TypeOK
<1>4. Journaled' = Journaled \cup {i} /\ IsFiniteSet(Journaled')
  <2>1. Journaled' = Journaled \cup {i}
    BY <1>1, <1>3 DEF Journaled
  <2>2. QED
    BY <2>1, FS_AddElement DEF CapInv, DaysKept
<1>5. \A d \in Days : d # day \/ i \notin Gated => GatedOn(d)' = GatedOn(d)
  BY <1>2, <1>3, ServiceAssumption DEF GatedOn, Days
<1>6. i \in Gated => Cardinality(GatedOn(day)') <= MaxDailyOrders
  <2> SUFFICES ASSUME i \in Gated
               PROVE  Cardinality(GatedOn(day)') <= MaxDailyOrders
    OBVIOUS
  <2>1. GatedOn(day)' = GatedOn(day) \cup {i}
    BY <1>2, <1>3, ServiceAssumption DEF GatedOn
  <2> DEFINE Before == {j \in Ids : mem[j].day = day}
  <2>2. Before \in SUBSET Journaled /\ GatedOn(day) \in SUBSET Before
    BY <1>1, ServiceAssumption DEF Journaled, GatedOn, CapInv, DaysKept
  <2>3. IsFiniteSet(Before) /\ Cardinality(Before) \in Nat
    BY <2>2, FS_Subset, FS_CardinalityType DEF CapInv, DaysKept
  <2>4. /\ IsFiniteSet(GatedOn(day)) /\ Cardinality(GatedOn(day)) \in Nat
        /\ Cardinality(GatedOn(day)) <= Cardinality(Before)
    BY <2>2, <2>3, FS_Subset, FS_CardinalityType
  <2>5. Cardinality(Before) < MaxDailyOrders
    BY DEF TodayCount
  <2>6. Cardinality(GatedOn(day) \cup {i}) <= Cardinality(GatedOn(day)) + 1
    <3>1. PICK S : S = GatedOn(day)
      OBVIOUS
    <3>2. Cardinality(S \cup {i}) = IF i \in S THEN Cardinality(S) ELSE Cardinality(S) + 1
      BY <2>4, <3>1, FS_AddElement
    <3>3. QED
      BY <2>4, <3>1, <3>2
  <2>7. Cardinality(GatedOn(day) \cup {i}) \in Nat
    BY <2>4, FS_AddElement, FS_CardinalityType
  <2>8. QED
    BY <2>1, <2>3, <2>4, <2>5, <2>6, <2>7, ServiceAssumption
<1>7. DailyOrderCap'
  BY <1>5, <1>6 DEF DailyOrderCap, CapInv, GatedOn
<1>8. \A j \in Ids : mem'[j].day = disk'[j].day /\ disk'[j].day <= day
  BY <1>1, <1>3 DEF CapInv, DaysKept, Days
<1>9. QED
  BY <1>3, <1>4, <1>7, <1>8 DEF CapInv, DaysKept

LEMMA CapStep ==
  ASSUME IInv, CapInv, [Next]_vars
  PROVE  CapInv'
<1> USE DEF durable, service, world
<1>1. TypeOK /\ TaskStages
  BY DEF IInv
<1>2. CASE Poll \/ FetchHistory \/ SetKillSwitchOn \/ SetKillSwitchOff
  BY <1>1, <1>2, SameDays DEF Poll, FetchHistory, SetKillSwitchOn, SetKillSwitchOff
<1>3. CASE FinishRound \/ FailRound
  <2>1. task'.stage = "balance" => task.stage = "balance"
    BY <1>1, <1>3 DEF FinishRound, FailRound, Wake, TypeOK, Tasks, Idle
  <2>2. QED
    BY <1>1, <1>3, <2>1, SameDays DEF FinishRound, FailRound
<1>4. ASSUME NEW i \in Ids, BeginGated(i) \/ BeginResolve(i) \/ GateRefuses(i) \/ GateAwaitsBalance(i)
                            \/ LossLimitTrips(i) \/ ResolveRefused(i)
      PROVE  CapInv'
  <2>1. task'.stage = "balance" => ~OverDailyLimit(day)
    BY <1>4 DEF BeginGated, BeginResolve, GateRefuses, GateAwaitsBalance, GateOpen, LossLimitTrips,
                ResolveRefused, Idle
  <2>2. up /\ up' = up /\ day' = day /\ disk' = disk /\ mem' = mem
    BY <1>4 DEF BeginGated, BeginResolve, GateRefuses, GateAwaitsBalance, GateOpen, LossLimitTrips,
                ResolveRefused
  <2>3. QED
    BY <1>1, <2>1, <2>2, SameDays
<1>5. ASSUME NEW i \in Ids, BeginCancel(i) \/ GatePasses(i) \/ BalancePasses(i)
      PROVE  CapInv'
  <2>1. up /\ up' = up /\ day' = day /\ mem[i].st = "NONE"
    BY <1>1, <1>5 DEF BeginCancel, GatePasses, BalancePasses, GateOpen, TaskStages, Blank
  <2>2. JournalCommand(i) \/ AbandonCommand(i)
    BY <1>5 DEF BeginCancel, GatePasses, BalancePasses
  <2>3. CASE AbandonCommand(i)
    BY <1>1, <2>1, <2>3, SameDays DEF AbandonCommand, Idle
  <2>4. CASE JournalCommand(i)
    <3>1. CASE BeginCancel(i)
      BY <1>1, <2>1, <2>4, <3>1, OneMore DEF BeginCancel
    <3>2. CASE GatePasses(i)
      <4>1. {j \in Ids : mem[j].day = day} \in SUBSET Journaled
        BY <1>1, <2>1 DEF CapInv, DaysKept, Journaled, TypeOK, Days
      <4>2. TodayCount(day) \in Nat
        BY <4>1, FS_Subset, FS_CardinalityType DEF CapInv, DaysKept, TodayCount
      <4>3. TodayCount(day) < MaxDailyOrders
        BY <3>2, <4>2, ServiceAssumption DEF GatePasses, GateOpen, OverDailyLimit
      <4>4. QED
        BY <1>1, <2>1, <2>4, <4>3, OneMore
    <3>3. CASE BalancePasses(i)
      <4>1. TodayCount(day) < MaxDailyOrders
        BY <3>3 DEF BalancePasses, CapInv, DaysKept
      <4>2. QED
        BY <1>1, <2>1, <2>4, <4>1, OneMore
    <3>4. QED
      BY <1>5, <3>1, <3>2, <3>3
  <2>5. QED
    BY <2>2, <2>3, <2>4
<1>6. ASSUME NEW i \in Ids, Post(i)
      PROVE  CapInv'
  BY <1>1, <1>6, SameDays DEF Post, TypeOK, Tasks, Idle
<1>7. ASSUME NEW i \in Ids, RefusedLocally(i) \/ Answer(i)
      PROVE  CapInv'
  <2>1. up /\ up' = up /\ day' = day /\ task' = Idle
    BY <1>7 DEF RefusedLocally, Answer
  <2>2. \A j \in Ids : mem'[j].day = mem[j].day /\ (disk'[j].day = disk[j].day \/ disk'[j].day = mem[j].day)
    BY <1>1, <1>7 DEF RefusedLocally, Answer, Conclude, EnterUnknownResult, Concluded, TypeOK
  <2>3. \A j \in Ids : disk'[j].day = disk[j].day
    BY <2>1, <2>2 DEF CapInv, DaysKept
  <2>4. QED
    BY <1>1, <2>1, <2>2, <2>3, SameDays DEF Idle
<1>8. ASSUME NEW i \in Ids, Resolve(i)
      PROVE  CapInv'
  <2>1. up /\ up' = up /\ day' = day /\ task'.stage = "resolved"
    BY <1>1, <1>8 DEF Resolve, TypeOK, Tasks, Idle
  <2>2. \A j \in Ids : mem'[j].day = mem[j].day /\ (disk'[j].day = disk[j].day \/ disk'[j].day = mem[j].day)
    BY <1>1, <1>8 DEF Resolve, Settled, TypeOK
  <2>3. \A j \in Ids : disk'[j].day = disk[j].day
    BY <2>1, <2>2 DEF CapInv, DaysKept
  <2>4. QED
    BY <1>1, <2>1, <2>2, <2>3, SameDays
<1>9. CASE Crash
  BY <1>1, <1>9, SameDays DEF Crash, Idle
<1>10. ASSUME Restart \/ RestartFails
       PROVE  CapInv'
  <2>1. \A j \in Ids : Replayed(disk[j]).day = disk[j].day
    BY <1>1 DEF Replayed, TypeOK, Command, Blank
  <2>2. day' = day /\ task' = task /\ ~up
    BY <1>10 DEF Restart, RestartFails
  <2>3. \A j \in Ids : disk'[j].day = disk[j].day /\ (up' => mem'[j] = disk'[j])
    BY <1>10, <2>1, <2>2 DEF Restart, RestartFails
  <2>4. Journaled' = Journaled /\ \A d \in Days : GatedOn(d)' = GatedOn(d)
    BY <2>3, ServiceAssumption DEF Journaled, GatedOn
  <2>5. task.stage # "balance"
    BY <1>1, <2>2 DEF TaskStages, Idle
  <2>6. QED
    BY <2>2, <2>3, <2>4, <2>5 DEF CapInv, DaysKept, DailyOrderCap, GatedOn
<1>11. CASE DayRolls
  <2>1. /\ day' = day + 1 /\ day \in Nat /\ disk' = disk /\ mem' = mem /\ task' = task /\ up' = up
    BY <1>1, <1>11 DEF DayRolls, TypeOK, Days
  <2>2. Journaled' = Journaled /\ DailyOrderCap'
    BY <2>1 DEF Journaled, CapInv, DailyOrderCap
  <2>3. \A i \in Ids : disk'[i].day <= day'
    <3>1. \A i \in Ids : disk[i].day \in Nat
      BY <1>1 DEF TypeOK, Command, Blank, Days
    <3>2. QED
      BY <2>1, <3>1 DEF CapInv, DaysKept
  <2>4. task'.stage = "balance" => TodayCount(day)' < MaxDailyOrders
    <3> SUFFICES ASSUME task.stage = "balance"
                 PROVE  TodayCount(day)' < MaxDailyOrders
      BY <2>1
    <3>1. up
      BY <1>1 DEF TaskStages, Idle
    <3>2. {i \in Ids : mem'[i].day = day'} = {}
      <4>1. \A i \in Ids : mem[i].day <= day /\ mem[i].day \in Nat
        BY <1>1, <3>1 DEF CapInv, DaysKept, TypeOK, Command, Blank, Days
      <4>2. QED
        BY <2>1, <4>1
    <3>3. TodayCount(day)' = 0
      BY <3>2, FS_EmptySet DEF TodayCount
    <3>4. QED
      BY <3>3, ServiceAssumption
  <2>5. QED
    BY <2>1, <2>2, <2>3, <2>4 DEF CapInv, DaysKept
<1>12. CASE UNCHANGED vars \/ \E i \in Ids : BrokerDecides(i) \/ BrokerLists(i)
  <2>1. /\ disk' = disk /\ mem' = mem /\ day' = day /\ up' = up /\ task' = task
    BY <1>12 DEF vars, BrokerDecides, BrokerLists
  <2>2. Journaled' = Journaled /\ TodayCount(day)' = TodayCount(day)
    BY <2>1 DEF Journaled, TodayCount
  <2>3. DailyOrderCap'
    BY <2>1 DEF DailyOrderCap, CapInv
  <2>4. QED
    BY <2>1, <2>2, <2>3 DEF CapInv, DaysKept
<1>13. QED
  BY <1>2, <1>3, <1>4, <1>5, <1>6, <1>7, <1>8, <1>9, <1>10, <1>11, <1>12
     DEF Next, TaskStep, RoundStep

(* Whatever the limit and the number of days: on none do the commands that *)
(* add risk exceed it, although the balance is awaited after the count.    *)
THEOREM DailyCap == Spec => []DailyOrderCap
<1>1. Init => CapInv
  <2> SUFFICES ASSUME Init PROVE CapInv
    OBVIOUS
  <2>1. Journaled = {} /\ \A d \in Days : GatedOn(d) = {}
    BY ServiceAssumption DEF Init, Journaled, GatedOn, Blank, Days
  <2>2. DaysKept
    BY <2>1, FS_EmptySet DEF Init, DaysKept, Blank, Idle
  <2>3. DailyOrderCap
    <3>1. \A d \in Days : Cardinality(GatedOn(d)) = 0
      BY <2>1, FS_EmptySet
    <3>2. \A d \in Days : Cardinality(GatedOn(d)) <= MaxDailyOrders
      BY <3>1, ServiceAssumption
    <3>3. QED
      BY <3>2 DEF DailyOrderCap, GatedOn
  <2>4. QED
    BY <2>2, <2>3 DEF CapInv
<1>2. IInv /\ CapInv /\ [Next]_vars => CapInv'
  BY CapStep
<1>3. CapInv => DailyOrderCap
  BY DEF CapInv
<1>4. QED
  BY <1>1, <1>2, <1>3, Invariant, PTL DEF Spec

(***************************************************************************)
(* What a reconciliation may call external                                 *)
(***************************************************************************)
(* A history that was read while no POST waited for its answer shows only  *)
(* orders whose commands are over, and they stay over.                     *)
HistorySettled ==
  rp.stage = "fetched" =>
    \A o \in rp.hist : o \in Ids /\ broker[o].st = "listed" /\ ~Executing(o)

(* A command that starts to execute was not at the broker.                 *)
LEMMA NotListedBefore ==
  ASSUME IInv, up, NEW i \in Ids, mem[i].st = "NONE"
  PROVE  broker[i].st = "none"
<1>1. disk[i].st = "NONE"
  BY DEF IInv, MemoryMirrors
<1>2. sent[i] = 0
  BY <1>1 DEF IInv, BrokerAgrees
<1>3. QED
  BY <1>2 DEF IInv, BrokerAgrees

LEMMA HistoryStep ==
  ASSUME IInv, HistorySettled, [Next]_vars
  PROVE  HistorySettled'
<1> USE DEF durable, service, world
<1>1. TypeOK /\ TaskStages /\ MemoryMirrors /\ BrokerAgrees
  BY DEF IInv
<1>2. CASE Poll \/ FinishRound \/ FailRound \/ Crash
  BY <1>2 DEF Poll, FinishRound, FailRound, Crash, Round, NoRound, HistorySettled
<1>3. CASE FetchHistory
  <2>1. rp'.hist = Listed(rp.day) /\ task' = task /\ broker' = broker /\ task.stage # "posted" /\ up
    BY <1>3 DEF FetchHistory, ClientFree
  <2>2. ASSUME NEW o \in Listed(rp.day)
        PROVE  o \in Ids /\ broker[o].st = "listed" /\ ~Executing(o)
    <3>1. o \in Ids /\ broker[o].st = "listed"
      BY DEF Listed
    <3>2. Executing(o) => broker[o].st = "none"
      BY <1>1, <2>1, <3>1 DEF Executing, TaskStages, BrokerAgrees
    <3>3. QED
      BY <3>1, <3>2
  <2>3. QED
    BY <2>1, <2>2 DEF HistorySettled, Executing
<1>4. ASSUME NEW i \in Ids, BeginGated(i) \/ Resolve(i)
      PROVE  HistorySettled'
  <2>1. rp' = rp \/ rp' = Round
    BY <1>4 DEF BeginGated, Resolve, JoinRound
  <2>2. broker' = broker /\ task'.stage \in {"reconcile", "resolved"}
    BY <1>1, <1>4 DEF BeginGated, Resolve, TypeOK, Tasks, Idle
  <2>3. QED
    BY <2>1, <2>2 DEF HistorySettled, Executing, Round
<1>5. ASSUME NEW i \in Ids,
             \/ BeginCancel(i) \/ BeginResolve(i) \/ GateRefuses(i) \/ GateAwaitsBalance(i)
             \/ GatePasses(i) \/ BalancePasses(i) \/ LossLimitTrips(i) \/ ResolveRefused(i)
      PROVE  HistorySettled'
  <2>1. rp' = rp /\ broker' = broker /\ up
    BY <1>5 DEF BeginCancel, BeginResolve, GateRefuses, GateAwaitsBalance, GatePasses, GateOpen,
                BalancePasses, LossLimitTrips, ResolveRefused
  <2>2. \/ task'.stage \notin {"calling", "posted"}
        \/ task'.id = i /\ mem[i].st = "NONE"
    BY <1>1, <1>5
       DEF BeginCancel, BeginResolve, GateRefuses, GateAwaitsBalance, GatePasses, BalancePasses,
           GateOpen, LossLimitTrips, ResolveRefused, JournalCommand, AbandonCommand, Idle, Blank,
           TaskStages
  <2>3. \A o \in Ids : broker[o].st = "listed" => ~Executing(o)'
    BY <2>1, <2>2, NotListedBefore DEF Executing
  <2>4. QED
    BY <2>1, <2>3 DEF HistorySettled
<1>6. ASSUME NEW i \in Ids, Post(i)
      PROVE  HistorySettled'
  <2>1. rp' = rp /\ broker[i].st = "none" /\ task.stage = "calling" /\ task.id = i
    BY <1>1, <1>6 DEF Post, TaskStages, BrokerAgrees
  <2>2. \A o \in Ids \ {i} : broker'[o] = broker[o]
    BY <1>1, <1>6 DEF Post, TypeOK
  <2>3. \A o \in Ids : Executing(o)' => o = i
    BY <1>1, <1>6 DEF Post, Executing, TypeOK, Tasks, Idle
  <2>4. QED
    BY <2>1, <2>2, <2>3 DEF HistorySettled
<1>7. ASSUME NEW i \in Ids, RefusedLocally(i) \/ Answer(i)
      PROVE  HistorySettled'
  BY <1>7 DEF RefusedLocally, Answer, Idle, HistorySettled, Executing
<1>8. CASE SetKillSwitchOn \/ SetKillSwitchOff \/ Restart \/ RestartFails \/ DayRolls \/ UNCHANGED vars
  BY <1>8 DEF SetKillSwitchOn, SetKillSwitchOff, Restart, RestartFails, DayRolls, vars,
              HistorySettled, Executing
<1>9. ASSUME NEW i \in Ids, BrokerDecides(i) \/ BrokerLists(i)
      PROVE  HistorySettled'
  <2>1. rp' = rp /\ task' = task
    BY <1>9 DEF BrokerDecides, BrokerLists
  <2>2. \A o \in Ids : broker[o].st = "listed" => broker'[o].st = "listed"
    BY <1>1, <1>9 DEF BrokerDecides, BrokerLists, TypeOK
  <2>3. QED
    BY <2>1, <2>2 DEF HistorySettled, Executing
<1>10. QED
  BY <1>2, <1>3, <1>4, <1>5, <1>6, <1>7, <1>8, <1>9 DEF Next, TaskStep, RoundStep

LEMMA HistoryAlways == Spec => []HistorySettled
<1>1. Init => HistorySettled
  BY DEF Init, HistorySettled, NoRound
<1>2. IInv /\ HistorySettled /\ [Next]_vars => HistorySettled'
  BY HistoryStep
<1>3. QED
  BY <1>1, <1>2, Invariant, PTL DEF Spec

(* Only the end of a round names external orders: those of its history     *)
(* that no command of the day has been accepted as.                        *)
LEMMA ExternalFrom ==
  ASSUME [Next]_vars, NEW o \in report'.external \ report.external
  PROVE  up /\ rp.stage = "fetched" /\ o \in rp.hist /\ o \notin TrackedOn(day)
<1> USE DEF durable, service, world
<1>1. report' # report /\ report'.external # {}
  OBVIOUS
<1>2. ~FailRound /\ ~Crash
  BY <1>1 DEF FailRound, Crash, NoReport
<1>3. ~\E i \in Ids : BeginGated(i) \/ BeginCancel(i) \/ BeginResolve(i) \/ TaskStep(i)
                      \/ BrokerDecides(i) \/ BrokerLists(i)
  BY <1>1 DEF BeginGated, BeginCancel, BeginResolve, TaskStep, GateRefuses, GateAwaitsBalance,
              GatePasses, BalancePasses, LossLimitTrips, Post, RefusedLocally, Answer, Resolve,
              ResolveRefused, BrokerDecides, BrokerLists
<1>4. FinishRound
  BY <1>1, <1>2, <1>3 DEF Next, RoundStep, Poll, FetchHistory, SetKillSwitchOn, SetKillSwitchOff,
                         Restart, RestartFails, DayRolls, vars
<1>5. report'.external = {} \/ report'.external = External(day, rp.hist)
  BY <1>4 DEF FinishRound
<1>6. QED
  BY <1>1, <1>4, <1>5 DEF FinishRound, External

(* On any number of days, an order whose request is on its way is not      *)
(* taken for someone else's: reads and POSTs take turns at the client.     *)
InFlightNotExternal ==
  [][\A o \in report'.external \ report.external : mem[o].st # "PENDING"]_vars

LEMMA NotInFlight ==
  ASSUME IInv, HistorySettled, [Next]_vars, NEW o \in report'.external \ report.external
  PROVE  o \in Ids /\ mem[o].st # "PENDING"
BY ExternalFrom DEF HistorySettled, IInv, MemoryMirrors

(* However the round, the queue, the broker and the crashes interleave, an *)
(* order whose request is under way is never reported as external.         *)
THEOREM InFlight == Spec => InFlightNotExternal
<1>1. IInv /\ HistorySettled /\ [Next]_vars =>
        [\A o \in report'.external \ report.external : mem[o].st # "PENDING"]_vars
  BY NotInFlight
<1>2. QED
  BY <1>1, Invariant, HistoryAlways, PTL DEF Spec, InFlightNotExternal

(* Within one day, an order reported as external is neither under way nor  *)
(* recorded as accepted.  Over a midnight it may be the order of a command *)
(* of the day before: the history is read for the old day and judged       *)
(* against the commands of the new one.                                    *)
THEOREM ExternalWithinADay ==
  ASSUME MaxDay = 1
  PROVE  Spec => ExternalMeansUnknown
<1> DEFINE Step == \A o \in report'.external \ report.external :
                     /\ mem[o].st # "PENDING"
                     /\ \A i \in Ids : mem[i].st = "ACCEPTED" => mem[i].order # o
<1>1. IInv /\ HistorySettled /\ [Next]_vars => Step
  <2> SUFFICES ASSUME IInv, HistorySettled, [Next]_vars,
                      NEW o \in report'.external \ report.external
               PROVE  /\ mem[o].st # "PENDING"
                      /\ \A i \in Ids : mem[i].st = "ACCEPTED" => mem[i].order # o
    OBVIOUS
  <2>1. mem[o].st # "PENDING" /\ o \notin TrackedOn(day)
    BY NotInFlight, ExternalFrom
  <2>2. \A i \in Ids : mem[i].st = "ACCEPTED" => mem[i].day = day
    <3>1. Days = {1} /\ day = 1
      BY DEF IInv, TypeOK, Days
    <3>2. QED
      BY <3>1 DEF IInv, TypeOK, Command, Blank
  <2>3. QED
    BY <2>1, <2>2 DEF TrackedOn, Today
<1>2. IInv /\ HistorySettled /\ [Next]_vars => [Step]_vars
  BY <1>1
<1>3. QED
  BY <1>2, Invariant, HistoryAlways, PTL DEF Spec, ExternalMeansUnknown

(***************************************************************************)
(* Refinement                                                              *)
(***************************************************************************)
Line == [i \in Ids |-> disk[i].st]

LEMMA LineFrame ==
  ASSUME disk' = disk, sent' = sent
  PROVE  UNCHANGED Ledger!vars
BY DEF Ledger!vars

LEMMA LineWritten ==
  ASSUME TypeOK, NEW i \in Ids, NEW c, disk' = [disk EXCEPT ![i] = c]
  PROVE  Line' = [Line EXCEPT ![i] = c.st]
BY DEF TypeOK, Line

LEMMA LedgerChoice ==
  /\ \A i \in Ids : \A o \in {"ACCEPTED", "DISMISSED"} : Ledger!Settle(i, o) => Ledger!Next
  /\ \A S \in SUBSET Ids : Ledger!Restart(S) => Ledger!Next
BY ZenonT(30) DEF Ledger!Next

LEMMA LedgerCommit ==
  ASSUME TypeOK, MemoryMirrors, up, NEW i \in Ids, mem[i].st = "NONE", sent' = sent,
         JournalCommand(i) \/ AbandonCommand(i)
  PROVE  [Ledger!Next]_Ledger!vars
<1>1. CASE AbandonCommand(i)
  BY <1>1, LineFrame DEF AbandonCommand
<1>2. CASE JournalCommand(i)
  <2>1. Line' = [Line EXCEPT ![i] = "PENDING"]
    <3>1. Pending.st = "PENDING"
      BY DEF Pending
    <3>2. QED
      BY <1>2, <3>1, LineWritten DEF JournalCommand
  <2>2. Line[i] = "NONE"
    BY DEF MemoryMirrors, Line
  <2>3. Ledger!Commit(i)
    BY <2>1, <2>2 DEF Ledger!Commit, Ledger!Open, Line
  <2>4. QED
    BY <2>3 DEF Ledger!Next
<1>3. QED
  BY <1>1, <1>2

LEMMA LedgerConclude ==
  ASSUME TypeOK, TaskStages, NEW i \in Ids, sent' = sent,
         task.stage \in {"calling", "posted"}, task.id = i,
         \/ Conclude(i, "REJECTED")
         \/ Conclude(i, "ACCEPTED") /\ task.stage = "posted"
         \/ EnterUnknownResult(i)
  PROVE  [Ledger!Next]_Ledger!vars
<1>1. Line[i] = "PENDING"
  BY DEF TaskStages, Line
<1>2. ASSUME NEW o \in {"ACCEPTED", "REJECTED", "UNKNOWN"},
             o = "ACCEPTED" => task.stage = "posted",
             disk' = [disk EXCEPT ![i] = Concluded(i, o)]
      PROVE  Ledger!Next
  <2>1. Line' = [Line EXCEPT ![i] = o]
    <3>1. PICK c : c = Concluded(i, o)
      OBVIOUS
    <3>2. c.st = o
      BY <3>1 DEF Concluded
    <3>3. Line' = [Line EXCEPT ![i] = c.st]
      BY <1>2, <3>1, LineWritten
    <3>4. QED
      BY <3>2, <3>3
  <2>2. o = "ACCEPTED" => sent[i] = 1
    BY <1>2 DEF TaskStages
  <2>3. Ledger!Conclude(i, o)
    BY <1>1, <2>1, <2>2 DEF Ledger!Conclude, Ledger!Open, Line
  <2>4. QED
    BY <2>3 DEF Ledger!Next, Ledger!Doubt
<1>3. CASE disk' = disk
  BY <1>3, LineFrame
<1>4. QED
  BY <1>2, <1>3 DEF Conclude, EnterUnknownResult

LEMMA LedgerStep == IInv /\ [Next]_vars => [Ledger!Next]_Ledger!vars
<1> SUFFICES ASSUME IInv, [Next]_vars PROVE [Ledger!Next]_Ledger!vars
  OBVIOUS
<1> USE DEF durable, service, world
<1>0. TypeOK /\ MemoryMirrors /\ TaskStages /\ BrokerAgrees
  BY DEF IInv
<1>1. CASE Poll \/ RoundStep \/ SetKillSwitchOn \/ SetKillSwitchOff \/ DayRolls
           \/ Crash \/ UNCHANGED vars
  BY <1>1, LineFrame
     DEF Poll, RoundStep, FetchHistory, FinishRound, FailRound, SetKillSwitchOn,
         SetKillSwitchOff, DayRolls, Crash, vars
<1>2. ASSUME NEW i \in Ids,
             \/ BeginGated(i) \/ BeginResolve(i) \/ GateRefuses(i) \/ GateAwaitsBalance(i)
             \/ LossLimitTrips(i) \/ ResolveRefused(i) \/ BrokerDecides(i)
             \/ BrokerLists(i)
      PROVE  [Ledger!Next]_Ledger!vars
  BY <1>2, LineFrame
     DEF BeginGated, BeginResolve, GateRefuses, GateAwaitsBalance, LossLimitTrips,
         ResolveRefused, BrokerDecides, BrokerLists
<1>3. ASSUME NEW i \in Ids, BeginCancel(i) \/ GatePasses(i) \/ BalancePasses(i)
      PROVE  [Ledger!Next]_Ledger!vars
  <2>1. mem[i].st = "NONE" /\ up /\ sent' = sent
    BY <1>0, <1>3
       DEF BeginCancel, GatePasses, BalancePasses, GateOpen, TaskStages, Blank
  <2>2. JournalCommand(i) \/ AbandonCommand(i)
    BY <1>3 DEF BeginCancel, GatePasses, BalancePasses
  <2>3. QED
    BY <1>0, <2>1, <2>2, LedgerCommit
<1>4. ASSUME NEW i \in Ids, Post(i) PROVE [Ledger!Next]_Ledger!vars
  <2>1. Line[i] = "PENDING" /\ sent[i] = 0
    BY <1>0, <1>4 DEF Post, TaskStages, Line
  <2>2. Line' = Line
    BY <1>4 DEF Post, Line
  <2>3. sent' = [sent EXCEPT ![i] = 1]
    BY <1>4, <2>1 DEF Post
  <2>4. Ledger!Send(i)
    BY <2>1, <2>2, <2>3 DEF Ledger!Send, Ledger!Open, Line
  <2>5. QED
    BY <2>4 DEF Ledger!Next
<1>5. ASSUME NEW i \in Ids, RefusedLocally(i) \/ Answer(i)
      PROVE  [Ledger!Next]_Ledger!vars
  BY <1>0, <1>5, LedgerConclude DEF RefusedLocally, Answer, Definite
<1>6. ASSUME NEW i \in Ids, Resolve(i) PROVE [Ledger!Next]_Ledger!vars
  <2>1. Line[i] \in {"PENDING", "UNKNOWN"}
    BY <1>0, <1>6 DEF Resolve, TaskStages, MemoryMirrors, Line
  <2>2. disk' = [disk EXCEPT ![i] = mem'[i]] /\ sent' = sent
    BY <1>6 DEF Resolve
  <2>3. PICK o \in {"ACCEPTED", "DISMISSED"} : o = mem'[i].st
    BY <1>0, <1>6 DEF Resolve, Settled, TypeOK
  <2>4. Line' = [Line EXCEPT ![i] = o]
    BY <1>0, <2>2, <2>3 DEF TypeOK, Line
  <2>5. Ledger!Settle(i, o)
    BY <2>1, <2>2, <2>4 DEF Ledger!Settle, Ledger!Open, Ledger!Doubt, Line
  <2>6. QED
    BY <2>5, LedgerChoice
<1>7. CASE Restart \/ RestartFails
  <2>1. \A j \in Ids : disk'[j] \in {disk[j], Replayed(disk[j])}
    <3>1. CASE Restart
      BY <3>1 DEF Restart
    <3>2. CASE RestartFails
      BY <3>2 DEF RestartFails
    <3>3. QED
      BY <1>7, <3>1, <3>2
  <2>2. \A j \in Ids : disk'[j].st = disk[j].st
                       \/ (disk[j].st = "PENDING" /\ disk'[j].st = "UNKNOWN")
    BY <1>0, <2>1, ReplayedOutcome DEF TypeOK
  <2>3. PICK S \in SUBSET Ids : S = {j \in Ids : disk'[j].st # disk[j].st}
    OBVIOUS
  <2>4. Line' = [j \in Ids |-> IF j \in S THEN "UNKNOWN" ELSE Line[j]]
    BY <2>2, <2>3 DEF Line
  <2>5. sent' = sent
    BY <1>7 DEF Restart, RestartFails
  <2>6. \A j \in S : Line[j] = "PENDING"
    BY <2>2, <2>3 DEF Line
  <2>7. Ledger!Restart(S)
    BY <2>4, <2>5, <2>6 DEF Ledger!Restart, Ledger!Open, Ledger!Doubt, Line
  <2>8. QED
    BY <2>7, LedgerChoice
<1>8. QED
  BY <1>1, <1>2, <1>3, <1>4, <1>5, <1>6, <1>7 DEF Next, TaskStep

(* The order service implements the ledger: its commands are written       *)
(* before they are sent, sent at most once, and their outcomes final.      *)
THEOREM Implements == Spec => ImplementsLedger
<1>1. Init => Ledger!Init
  BY DEF Init, Ledger!Init, Blank
<1>2. IInv /\ [Next]_vars => [Ledger!Next]_Ledger!vars
  BY LedgerStep
<1>3. QED
  BY <1>1, <1>2, Invariant, PTL DEF Spec, ImplementsLedger, Ledger!Spec

=============================================================================
