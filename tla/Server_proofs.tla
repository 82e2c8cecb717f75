---------------------------- MODULE Server_proofs ----------------------------
(* The server process and what it keeps in its data directory, for any process  *)
(* numbers, parts, values, orders and sizes, and any number of changes, fills    *)
(* and events. The four components share nothing, so each has its invariant and  *)
(* its theorems in a part of its own.                                            *)
EXTENDS ServerProcess, SettingsStores, KisPerformanceTracker, RealtimeResearchJournal,
        FiniteSetTheorems, NaturalsInduction, TLAPS

(* One writer of the journal at a time, for any process numbers and any number  *)
(* of lines. The argument: a start that does not overlap another goes through   *)
(* three states of knowledge. Once it has read the lock the number it holds is  *)
(* that of the server, if there is one; past the check there is no server; and  *)
(* a server's number is in the lock until the very end, so two servers would be *)
(* one.                                                                         *)
Past == {"passed", "truncated"}

(* Two starts never overlap. *)
OneStart == \A p, q \in Pids : At(p, Starting) /\ At(q, Starting) => p = q

(* A server's number is in the lock. *)
LockNamesServer == \A p \in Servers : lock = [there |-> TRUE, pid |-> p]

(* Between the two system calls of writeFileSync the file is there. *)
TruncatedIsThere == \A p \in Pids : At(p, {"truncated"}) => lock.there

(* Who is past the check has no server beside it. *)
PastMeansNoServer == \A p \in Pids : At(p, Past) => Servers = {}

(* Who has read the lock knows the server. *)
ReaderKnows == \A p \in Pids : At(p, {"read"}) => \A q \in Servers : proc[p].previous = q

(* Who writes counts on from the last line. *)
CountsOn == ~damaged /\ \A p \in Pids : At(p, {"running", "closing"}) => count[p] = lines

Sound ==
    /\ OneStart /\ LockNamesServer /\ TruncatedIsThere
    /\ PastMeansNoServer /\ ReaderKnows /\ CountsOn

CountsBehind == \A p \in Pids : count[p] <= lines

ServerInv == ServerTypeOK /\ CountsBehind /\ (~raced => Sound)

(* At the start nothing runs under any number. *)
LEMMA ServerInitially == ServerInit => ServerInv
<1> SUFFICES ASSUME ServerInit PROVE ServerInv
  OBVIOUS
<1>1. \A p \in Pids : proc[p].at = "free"
  BY DEF ServerInit, Free
<1>2. ServerTypeOK /\ CountsBehind
  <2>1. Free \in [at : Stages, previous : Pids \cup {Nobody}]
    BY DEF Free, Stages
  <2>2. NoLock \in [there : BOOLEAN, pid : Pids \cup {Nobody}]
    BY DEF NoLock
  <2>3. MaxLines \in Nat
    BY ServerAssumption
  <2>4. count = [p \in Pids |-> 0] /\ lines = 0 /\ damaged = FALSE /\ raced = FALSE
    BY DEF ServerInit
  <2>5. count \in [Pids -> 0..MaxLines] /\ lines \in 0..MaxLines /\ CountsBehind
    BY <2>3, <2>4 DEF CountsBehind
  <2>6. proc \in [Pids -> [at : Stages, previous : Pids \cup {Nobody}]]
    BY <2>1 DEF ServerInit
  <2> QED
    BY <2>2, <2>4, <2>5, <2>6 DEF ServerInit, ServerTypeOK
<1>3. Servers = {}
  BY <1>1 DEF Servers, At
<1>4. Sound
  BY <1>1, <1>3 DEF ServerInit, Sound, OneStart, LockNamesServer, TruncatedIsThere,
     PastMeansNoServer, ReaderKnows, CountsOn, At, Starting, Past
<1> QED
  BY <1>2, <1>4 DEF ServerInv

Entries == [at : Stages, previous : Pids \cup {Nobody}]

(* Only the entry of p changes, to a stage. *)
Only(p, stage) == proc'[p].at = stage /\ \A q \in Pids \ {p} : proc'[q] = proc[q]

(* A process goes on or ends: only its own entry changes. *)
LEMMA Moved ==
  ASSUME ServerTypeOK, NEW p \in Pids, NEW stage \in Stages, Moves(p, stage)
  PROVE  /\ proc' \in [Pids -> Entries]
         /\ Only(p, stage)
  BY DEF ServerTypeOK, Moves, Entries, Only

LEMMA Ended ==
  ASSUME ServerTypeOK, NEW p \in Pids, Ends(p)
  PROVE  /\ proc' \in [Pids -> Entries]
         /\ Only(p, "free")
<1>1. Free \in Entries
  BY DEF Free, Entries, Stages
<1> QED
  BY <1>1 DEF ServerTypeOK, Ends, Entries, Only, Free

(* What each operation makes of the process that runs it. *)
LEMMA StageOf ==
  ASSUME ServerTypeOK, NEW p \in Pids
  PROVE  /\ Launch(p) => Only(p, "started")
         /\ OtherProgram(p) => Only(p, "other") \/ Only(p, "free")
         /\ LookForLock(p) => Only(p, IF lock.there THEN "found" ELSE "passed")
         /\ CheckLock(p) => Only(p, "free") \/ (~Held(p) /\ Only(p, "passed"))
         /\ TruncateLock(p) => Only(p, "truncated")
         /\ WriteLock(p) => Only(p, "locked")
         /\ Load(p) => Only(p, IF damaged THEN "free" ELSE "running")
         /\ Shutdown(p) => Only(p, "closing")
         /\ Finish(p) => Only(p, "free")
         /\ Killed(p) => Only(p, "free")
<1>1. \A stage \in Stages : Moves(p, stage) => Only(p, stage)
  BY Moved
<1>2. Ends(p) => Only(p, "free")
  BY Ended
<1>3. {"started", "other", "found", "passed", "truncated", "locked", "running", "closing"} \subseteq Stages
  BY DEF Stages
<1> QED
  BY <1>1, <1>2, <1>3 DEF Launch, OtherProgram, LookForLock, CheckLock, TruncateLock, WriteLock,
     Load, Shutdown, Finish, Killed

(* Types and counts, of any step. *)
LEMMA Typed ==
  ASSUME ServerTypeOK, CountsBehind, [ServerNext]_serverVars
  PROVE  ServerTypeOK' /\ CountsBehind'
<1>1. ASSUME NEW p \in Pids, AppendLine(p)
      PROVE  ServerTypeOK' /\ CountsBehind'
  <2>1. count' = [count EXCEPT ![p] = count[p] + 1] /\ lines' = lines + 1 /\ lines < MaxLines
    BY <1>1 DEF AppendLine
  <2>2. lines \in Nat /\ count \in [Pids -> 0..MaxLines] /\ MaxLines \in Nat /\ count[p] <= lines
    BY ServerAssumption DEF ServerTypeOK, CountsBehind
  <2>3. lines' \in 0..MaxLines
    BY <2>1, <2>2
  <2>4. \A q \in Pids : count'[q] \in 0..MaxLines /\ count'[q] <= lines'
    BY <2>1, <2>2 DEF CountsBehind
  <2>5. count' \in [Pids -> 0..MaxLines]
    BY <2>1, <2>2, <2>4
  <2>6. UNCHANGED <<proc, lock, raced>> /\ damaged' \in BOOLEAN
    BY <1>1 DEF AppendLine, ServerTypeOK
  <2> QED
    BY <2>3, <2>4, <2>5, <2>6 DEF ServerTypeOK, CountsBehind
<1>2. ASSUME proc' \in [Pids -> Entries], lock' \in [there : BOOLEAN, pid : Pids \cup {Nobody}],
             UNCHANGED <<lines, count, damaged>>, raced' \in BOOLEAN
      PROVE  ServerTypeOK' /\ CountsBehind'
  BY <1>2 DEF ServerTypeOK, CountsBehind, Entries
<1>3. lock \in [there : BOOLEAN, pid : Pids \cup {Nobody}] /\ raced \in BOOLEAN
      /\ proc \in [Pids -> Entries] /\ NoLock \in [there : BOOLEAN, pid : Pids \cup {Nobody}]
  BY DEF ServerTypeOK, Entries, NoLock
<1>4. ASSUME NEW p \in Pids,
             \/ Launch(p) \/ OtherProgram(p) \/ LookForLock(p) \/ CheckLock(p) \/ Killed(p)
      PROVE  ServerTypeOK' /\ CountsBehind'
  <2>1. (\E stage \in Stages : Moves(p, stage)) \/ Ends(p)
    BY <1>4 DEF Launch, OtherProgram, LookForLock, CheckLock, Killed, Stages
  <2>2. proc' \in [Pids -> Entries]
    BY <2>1, Moved, Ended
  <2>3. UNCHANGED <<lock, lines, count, damaged>> /\ raced' \in BOOLEAN
    BY <1>3, <1>4 DEF Launch, OtherProgram, LookForLock, CheckLock, Killed
  <2> QED
    BY <1>2, <1>3, <2>2, <2>3
<1>5. ASSUME NEW p \in Pids,
             \/ TruncateLock(p) \/ WriteLock(p) \/ Shutdown(p) \/ Finish(p)
      PROVE  ServerTypeOK' /\ CountsBehind'
  <2>1. (\E stage \in Stages : Moves(p, stage)) \/ Ends(p)
    BY <1>5 DEF TruncateLock, WriteLock, Shutdown, Finish, Stages
  <2>2. proc' \in [Pids -> Entries]
    BY <2>1, Moved, Ended
  <2>3. lock' \in [there : BOOLEAN, pid : Pids \cup {Nobody}]
    <3>1. [there |-> TRUE, pid |-> Nobody] \in [there : BOOLEAN, pid : Pids \cup {Nobody}]
      OBVIOUS
    <3>2. [lock EXCEPT !.pid = p] \in [there : BOOLEAN, pid : Pids \cup {Nobody}]
      BY <1>3
    <3> QED
      BY <1>3, <1>5, <3>1, <3>2 DEF TruncateLock, WriteLock, Shutdown, Finish, LockKept
  <2>4. UNCHANGED <<lines, count, damaged, raced>>
    BY <1>5 DEF TruncateLock, WriteLock, Shutdown, Finish
  <2> QED
    BY <1>2, <1>3, <2>2, <2>3, <2>4
<1>6. ASSUME NEW p \in Pids, ReadLock(p)
      PROVE  ServerTypeOK' /\ CountsBehind'
  <2>1. CASE ~lock.there
    <3>1. proc' \in [Pids -> Entries]
      BY <1>6, <2>1, Ended DEF ReadLock
    <3> QED
      BY <1>2, <1>3, <1>6, <3>1 DEF ReadLock
  <2>2. CASE lock.there
    <3>1. [at |-> "read", previous |-> lock.pid] \in Entries
      BY <1>3 DEF Entries, Stages
    <3>2. proc' \in [Pids -> Entries]
      BY <1>3, <1>6, <2>2, <3>1 DEF ReadLock
    <3> QED
      BY <1>2, <1>3, <1>6, <3>2 DEF ReadLock
  <2> QED
    BY <2>1, <2>2
<1>7. ASSUME NEW p \in Pids, Load(p)
      PROVE  ServerTypeOK' /\ CountsBehind'
  <2>1. Moves(p, "running") \/ Ends(p)
    BY <1>7 DEF Load
  <2>2. proc' \in [Pids -> Entries]
    BY <2>1, Moved, Ended DEF Stages
  <2>3. lines \in 0..MaxLines /\ lines \in Nat
    BY ServerAssumption DEF ServerTypeOK
  <2>4. count' \in [Pids -> 0..MaxLines] /\ \A q \in Pids : count'[q] <= lines
    BY <1>7, <2>3 DEF Load, ServerTypeOK, CountsBehind
  <2> QED
    BY <1>7, <2>2, <2>4 DEF Load, ServerTypeOK, CountsBehind, Entries
<1>8. CASE UNCHANGED serverVars
  BY <1>8 DEF serverVars, ServerTypeOK, CountsBehind
<1> QED
  BY <1>1, <1>4, <1>5, <1>6, <1>7, <1>8 DEF ServerNext

(* What a start's step keeps as long as no two starts have overlapped.          *)
LEMMA StartSound ==
  ASSUME ServerInv, ~raced', NEW p \in Pids,
         Launch(p) \/ OtherProgram(p) \/ LookForLock(p) \/ CheckLock(p) \/ ReadLock(p) \/ Killed(p)
  PROVE  Sound'
<1>1. Sound /\ ServerTypeOK
  BY DEF ServerInv, Launch, OtherProgram, LookForLock, CheckLock, ReadLock, Killed
<1>2. UNCHANGED <<lock, lines, count, damaged>>
  BY DEF Launch, OtherProgram, LookForLock, CheckLock, ReadLock, Killed
<1> USE DEF Sound, OneStart, LockNamesServer, TruncatedIsThere, PastMeansNoServer,
            ReaderKnows, CountsOn, Servers, At, Starting, Past, Only
<1>3. CASE Only(p, "free") \/ Only(p, "other")
  BY <1>1, <1>2, <1>3
<1>4. CASE Launch(p)
  <2>1. Only(p, "started")
    BY <1>1, <1>4, StageOf
  <2>2. \A q \in Pids : ~At(q, Starting)
    BY <1>4 DEF Launch
  <2> QED
    BY <1>1, <1>2, <2>1, <2>2
<1>5. CASE LookForLock(p)
  <2>1. proc[p].at = "started" /\ Only(p, IF lock.there THEN "found" ELSE "passed")
    BY <1>1, <1>5, StageOf DEF LookForLock
  <2> QED
    BY <1>1, <1>2, <2>1
<1>6. CASE CheckLock(p) /\ ~Only(p, "free")
  <2>1. proc[p].at = "read" /\ ~Held(p) /\ Only(p, "passed")
    BY <1>1, <1>6, StageOf DEF CheckLock
  <2>2. Servers = {}
    BY <1>1, <2>1, ServerAssumption DEF Held, Alive
  <2> QED
    BY <1>1, <1>2, <2>1, <2>2
<1>7. CASE ReadLock(p) /\ ~Only(p, "free")
  <2>1. proc[p].at = "found" /\ Only(p, "read") /\ proc'[p].previous = lock.pid
    BY <1>1, <1>7, Ended DEF ReadLock, ServerTypeOK
  <2> QED
    BY <1>1, <1>2, <2>1
<1> QED
  BY <1>1, <1>3, <1>4, <1>5, <1>6, <1>7, StageOf

(* The same of the lock's writer and of the servers. *)
LEMMA ServerSound ==
  ASSUME ServerInv, ~raced', NEW p \in Pids,
         \/ TruncateLock(p) \/ WriteLock(p) \/ Load(p) \/ AppendLine(p)
         \/ Shutdown(p) \/ Finish(p)
  PROVE  Sound'
<1>1. Sound /\ ServerTypeOK
  BY DEF ServerInv, TruncateLock, WriteLock, Load, AppendLine, Shutdown, Finish
<1> USE DEF Sound, OneStart, LockNamesServer, TruncatedIsThere, PastMeansNoServer,
            ReaderKnows, CountsOn, Servers, At, Starting, Past, Only
<1>2. CASE TruncateLock(p)
  <2>1. proc[p].at = "passed" /\ Only(p, "truncated") /\ lock'.there
    BY <1>1, <1>2, StageOf DEF TruncateLock
  <2>2. UNCHANGED <<lines, count, damaged>>
    BY <1>2 DEF TruncateLock
  <2> QED
    BY <1>1, <2>1, <2>2
<1>3. CASE WriteLock(p)
  <2>1. proc[p].at = "truncated" /\ Only(p, "locked")
    BY <1>1, <1>3, StageOf DEF WriteLock
  <2>2. lock' = [there |-> TRUE, pid |-> p]
    BY <1>1, <1>3, <2>1 DEF WriteLock, ServerTypeOK
  <2>3. UNCHANGED <<lines, count, damaged>>
    BY <1>3 DEF WriteLock
  <2>4. Servers' = {p} /\ \A q \in Pids : ~At(q, Starting)'
    BY <1>1, <2>1
  <2>5. LockNamesServer'
    BY <2>2, <2>4
  <2>6. CountsOn'
    BY <1>1, <2>1, <2>3
  <2> QED
    BY <2>4, <2>5, <2>6
<1>4. CASE Load(p)
  <2>1. proc[p].at = "locked" /\ Only(p, "running")
    BY <1>1, <1>4, StageOf DEF Load
  <2>2. UNCHANGED <<lock, lines, damaged>> /\ count' = [count EXCEPT ![p] = lines]
    BY <1>1, <1>4 DEF Load
  <2>3. \A q \in Pids : count'[q] = IF q = p THEN lines ELSE count[q]
    BY <1>1, <2>2 DEF ServerTypeOK
  <2> QED
    BY <1>1, <2>1, <2>2, <2>3
<1>5. CASE AppendLine(p)
  <2>1. UNCHANGED <<proc, lock>> /\ lines' = lines + 1 /\ count[p] = lines
    BY <1>1, <1>5 DEF AppendLine
  <2>2. ~damaged' /\ count'[p] = lines'
    BY <1>1, <1>5, <2>1 DEF AppendLine, ServerTypeOK
  <2>3. \A q \in Pids : At(q, {"running", "closing"}) => q = p
    BY <1>1, <1>5 DEF AppendLine
  <2>4. CountsOn'
    BY <2>1, <2>2, <2>3
  <2> QED
    BY <1>1, <2>1, <2>4
<1>6. CASE Shutdown(p)
  <2>1. proc[p].at = "running" /\ Only(p, "closing")
    BY <1>1, <1>6, StageOf DEF Shutdown
  <2>2. UNCHANGED <<lock, lines, count, damaged>>
    BY <1>6 DEF Shutdown, LockKept
  <2> QED
    BY <1>1, <2>1, <2>2
<1>7. CASE Finish(p)
  <2>1. proc[p].at = "closing" /\ Only(p, "free")
    BY <1>1, <1>7, StageOf DEF Finish
  <2>2. UNCHANGED <<lines, count, damaged>>
    BY <1>7 DEF Finish
  <2>3. Servers' = {}
    BY <1>1, <2>1
  <2>4. \A q \in Pids : ~At(q, {"truncated"})
    BY <1>1, <2>1
  <2> QED
    BY <1>1, <2>1, <2>2, <2>3, <2>4
<1> QED
  BY <1>2, <1>3, <1>4, <1>5, <1>6, <1>7

(* The invariant of the server processes. *)
THEOREM ServerInvariant == ServerSpec => []ServerInv
<1>1. ServerInv /\ [ServerNext]_serverVars => ServerInv'
  <2> SUFFICES ASSUME ServerInv, [ServerNext]_serverVars PROVE ServerInv'
    OBVIOUS
  <2>1. ServerTypeOK' /\ CountsBehind'
    BY Typed DEF ServerInv
  <2>2. ASSUME ~raced' PROVE Sound'
    <3>1. CASE UNCHANGED serverVars
      BY <2>2, <3>1 DEF ServerInv, Sound, OneStart, LockNamesServer, TruncatedIsThere, PastMeansNoServer,
         ReaderKnows, CountsOn, Servers, At, serverVars
    <3>2. CASE ServerNext
      BY <2>2, <3>2, StartSound, ServerSound DEF ServerNext
    <3> QED
      BY <3>1, <3>2
  <2> QED
    BY <2>1, <2>2 DEF ServerInv
<1> QED
  BY ServerInitially, <1>1, PTL DEF ServerSpec

(* One process at a time writes the journal and its lines follow each other, as *)
(* long as no two starts overlap.                                               *)
THEOREM OneWriter == ServerSpec => []JournalWhole
<1>1. ServerInv => JournalWhole
  BY DEF ServerInv, JournalWhole, Sound, LockNamesServer, CountsOn, Servers
<1> QED
  BY ServerInvariant, <1>1, PTL

-----------------------------------------------------------------------------
(* What a restart finds and what the history tells, for any parts and values    *)
(* and any number of changes. What makes SettingsKept inductive is what each    *)
(* step of a change has already done: past the save the file holds the new      *)
(* value, past the history its last version does, and from the first moment on  *)
(* the value counts as tried.                                                   *)
Steps == {"none", "save", "again", "history", "answer"}

ChangeTyped ==
    /\ change \in [step : Steps, thing : Things \cup {Unset}, value : Values \cup {Unset}]
    /\ change.step # "none" =>
          /\ up /\ change.thing \in Things /\ change.value \in Values
          /\ change.value \in tried[change.thing]

(* What the steps behind a change have done. *)
FileWritten == change.step \in {"history", "answer"} => file[change.thing] = change.value

VersionWritten ==
    change.step = "answer" /\ change.thing = "strategy" =>
        past # <<>> /\ past[Len(past)] = change.value

(* Only the strategy settings have a history. *)
HistoryOfStrategy == change.step = "history" => change.thing = "strategy"

StoresInv ==
    /\ StoresTypeOK /\ ChangeTyped /\ HistoryOfStrategy /\ FileWritten /\ VersionWritten
    /\ SettingsKept /\ HistoryKept

LEMMA StoresConstants ==
  /\ "settings" \in Things /\ "strategy" \in Things /\ "selection" \in Things
  /\ "strategy" \notin Parts /\ "selection" \notin Parts
  /\ Default \in Values /\ Unset \notin Values /\ MaxChanges \in Nat
  BY StoresAssumption DEF Things

(* At the first start of all there is no file. *)
LEMMA StoresInitially == StoresInit => StoresInv
<1> SUFFICES ASSUME StoresInit PROVE StoresInv
  OBVIOUS
<1>1. StoresTypeOK
  <2>1. past \in Seq(Values)
    BY DEF StoresInit
  <2>2. file \in [Things -> Values \cup {Unset}] /\ tried \in [Things -> SUBSET Values]
    BY DEF StoresInit
  <2>3. memory \in [Things -> Values] /\ acked \in [Things -> Values]
    BY StoresConstants DEF StoresInit
  <2> QED
    BY <2>1, <2>2, <2>3 DEF StoresInit, StoresTypeOK, NoChange
<1>2. ChangeTyped /\ HistoryOfStrategy /\ FileWritten /\ VersionWritten
  BY DEF StoresInit, ChangeTyped, HistoryOfStrategy, FileWritten, VersionWritten, NoChange, Steps
<1>3. SettingsKept
  BY StoresConstants DEF StoresInit, SettingsKept, Found
<1>4. HistoryKept
  <2>1. past = <<>> /\ acked["strategy"] = Default
    BY StoresConstants DEF StoresInit
  <2>2. Len(past) = 0 /\ DOMAIN past = {}
    BY <2>1
  <2> QED
    BY <2>1, <2>2 DEF HistoryKept
<1> QED
  BY <1>1, <1>2, <1>3, <1>4 DEF StoresInv

(* As long as no answer is given and no version added, more values tried keep   *)
(* the history right. *)
LEMMA SameHistory ==
  ASSUME HistoryKept, UNCHANGED <<past, acked>>, tried["strategy"] \subseteq tried'["strategy"]
  PROVE  HistoryKept'
  BY DEF HistoryKept

(* The server starts, or is killed. *)
LEMMA StartKept ==
  ASSUME StoresInv, Start
  PROVE  StoresInv'
<1>1. \A x \in Things : Found(x) \in Values
  BY StoresConstants DEF StoresInv, StoresTypeOK, Found
<1>2. StoresTypeOK' /\ ChangeTyped' /\ HistoryOfStrategy' /\ FileWritten' /\ VersionWritten'
  BY <1>1 DEF StoresInv, Start, StoresTypeOK, ChangeTyped, HistoryOfStrategy, FileWritten, VersionWritten
<1>3. SettingsKept'
  BY StoresConstants DEF StoresInv, Start, SettingsKept, Found
<1>4. HistoryKept'
  BY SameHistory DEF StoresInv, Start
<1> QED
  BY <1>2, <1>3, <1>4 DEF StoresInv

LEMMA KillKept ==
  ASSUME StoresInv, Kill
  PROVE  StoresInv'
<1>1. StoresTypeOK' /\ ChangeTyped' /\ HistoryOfStrategy' /\ FileWritten' /\ VersionWritten'
  BY DEF StoresInv, Kill, StoresTypeOK, ChangeTyped, HistoryOfStrategy, FileWritten, VersionWritten, NoChange, Steps
<1>2. SettingsKept'
  BY DEF StoresInv, Kill, SettingsKept, Found
<1>3. HistoryKept'
  BY SameHistory DEF StoresInv, Kill
<1> QED
  BY <1>1, <1>2, <1>3 DEF StoresInv

(* A change is asked for: by the user, or as a version to be restored. *)
LEMMA BeginKept ==
  ASSUME StoresInv, NEW x \in Things, NEW v \in Values, Begin(x, v)
  PROVE  StoresInv'
<1>1. /\ tried' \in [Things -> SUBSET Values] /\ v \in tried'[x]
      /\ \A y \in Things : tried[y] \subseteq tried'[y]
  BY DEF StoresInv, StoresTypeOK, Begin
<1>2. /\ memory' \in [Things -> Values]
      /\ \A y \in Things : memory'[y] \in {memory[y], v}
      /\ \A y \in Things \ {x} : memory'[y] = memory[y]
  BY DEF StoresInv, StoresTypeOK, Begin
<1>3. change' = [step |-> "save", thing |-> x, value |-> v] /\ up /\ up'
  BY DEF Begin
<1>4. UNCHANGED <<file, past, torn, timer, acked, removed>>
  BY DEF Begin
<1>5. StoresTypeOK'
  BY <1>1, <1>2, <1>3, <1>4 DEF StoresInv, StoresTypeOK
<1>6. ChangeTyped' /\ HistoryOfStrategy' /\ FileWritten' /\ VersionWritten'
  BY <1>1, <1>3 DEF ChangeTyped, HistoryOfStrategy, FileWritten, VersionWritten, Steps
<1>7. SettingsKept'
  BY <1>1, <1>2, <1>3, <1>4, StoresConstants DEF StoresInv, SettingsKept, Found
<1>8. HistoryKept'
  BY <1>1, <1>4, SameHistory, StoresConstants DEF StoresInv
<1> QED
  BY <1>5, <1>6, <1>7, <1>8 DEF StoresInv

(* The file operations of a change. *)
LEMMA SaveKept ==
  ASSUME StoresInv, Save
  PROVE  StoresInv'
<1>1. /\ change.thing \in Things /\ change.value \in Values /\ up
      /\ change.value \in tried[change.thing] /\ change.step \in {"save", "again"}
  BY DEF StoresInv, ChangeTyped, Save, Doing
<1>2. file' = [file EXCEPT ![change.thing] = change.value]
      /\ UNCHANGED <<up, past, torn, memory, timer, acked, tried, removed>>
  BY DEF Save, Saved
<1>3. change' = [change EXCEPT !.step = AfterSave] /\ AfterSave \in {"history", "answer"}
      /\ (AfterSave = "answer" => change.thing # "strategy")
  BY DEF Save, AfterSave
<1>4. change'.step \in {"history", "answer"} /\ change'.thing = change.thing
      /\ change'.value = change.value /\ change'.step = AfterSave
      /\ change' \in [step : Steps, thing : Things \cup {Unset}, value : Values \cup {Unset}]
  BY <1>3 DEF StoresInv, ChangeTyped, Steps
<1>5. StoresTypeOK'
  BY <1>1, <1>2, <1>4 DEF StoresInv, StoresTypeOK
<1>6. ChangeTyped' /\ HistoryOfStrategy' /\ FileWritten' /\ VersionWritten'
  BY <1>1, <1>2, <1>3, <1>4 DEF AfterSave, StoresInv, StoresTypeOK, ChangeTyped, HistoryOfStrategy, FileWritten, VersionWritten
<1>7. SettingsKept'
  BY <1>1, <1>2, StoresConstants DEF StoresInv, StoresTypeOK, SettingsKept, Found
<1>8. HistoryKept'
  BY <1>2, SameHistory DEF StoresInv
<1> QED
  BY <1>5, <1>6, <1>7, <1>8 DEF StoresInv

LEMMA RemoveOldKept ==
  ASSUME StoresInv, RemoveOld
  PROVE  StoresInv'
<1>1. /\ change.thing = "selection" /\ up /\ change.step = "save" /\ removed'
      /\ file' = [file EXCEPT !["selection"] = Unset]
      /\ UNCHANGED <<up, past, torn, memory, timer, acked, tried>>
  BY DEF RemoveOld, Doing
<1>2. /\ change'.step = "again" /\ change'.thing = change.thing /\ change'.value = change.value
      /\ change' \in [step : Steps, thing : Things \cup {Unset}, value : Values \cup {Unset}]
  BY DEF StoresInv, ChangeTyped, Steps, RemoveOld
<1>3. StoresTypeOK'
  BY <1>1, <1>2, StoresConstants DEF StoresInv, StoresTypeOK
<1>4. ChangeTyped' /\ HistoryOfStrategy' /\ FileWritten' /\ VersionWritten'
  BY <1>1, <1>2 DEF StoresInv, ChangeTyped, HistoryOfStrategy, FileWritten, VersionWritten
<1>5. SettingsKept'
  BY <1>1, StoresConstants DEF StoresInv, StoresTypeOK, SettingsKept, Found
<1>6. HistoryKept'
  BY <1>1, SameHistory DEF StoresInv
<1> QED
  BY <1>3, <1>4, <1>5, <1>6 DEF StoresInv

(* A change that fails, in the files or in the history. *)
LEMMA FailureKept ==
  ASSUME StoresInv, SaveFails \/ RecordFails
  PROVE  StoresInv'
<1>1. change' = NoChange /\ torn' \in BOOLEAN
      /\ UNCHANGED <<up, file, past, memory, timer, acked, tried, removed>>
  BY DEF StoresInv, StoresTypeOK, SaveFails, RecordFails, ChangeFailed
<1>2. StoresTypeOK' /\ ChangeTyped' /\ HistoryOfStrategy' /\ FileWritten' /\ VersionWritten'
  BY <1>1 DEF StoresInv, StoresTypeOK, ChangeTyped, HistoryOfStrategy, FileWritten, VersionWritten, NoChange, Steps
<1>3. SettingsKept'
  BY <1>1 DEF StoresInv, SettingsKept, Found
<1>4. HistoryKept'
  BY <1>1, SameHistory DEF StoresInv
<1> QED
  BY <1>2, <1>3, <1>4 DEF StoresInv

(* A version is added: that of the change, which counts as tried. *)
LEMMA RecordKept ==
  ASSUME StoresInv, RecordVersion
  PROVE  StoresInv'
<1>1. /\ up /\ change.step = "history" /\ change.value \in Values /\ change.thing \in Things
      /\ change.value \in tried[change.thing] /\ past \in Seq(Values)
  BY DEF StoresInv, StoresTypeOK, ChangeTyped, RecordVersion, Doing
<1>2. past' = Append(past, change.value)
      /\ UNCHANGED <<up, file, torn, memory, timer, acked, tried, removed>>
  BY DEF RecordVersion
<1>3. /\ change'.step = "answer" /\ change'.thing = change.thing /\ change'.value = change.value
      /\ change' \in [step : Steps, thing : Things \cup {Unset}, value : Values \cup {Unset}]
  BY DEF StoresInv, ChangeTyped, Steps, RecordVersion
<1>4. past' \in Seq(Values) /\ Len(past') = Len(past) + 1 /\ past'[Len(past) + 1] = change.value
      /\ \A i \in 1..Len(past) : past'[i] = past[i]
  BY <1>1, <1>2
<1>5. StoresTypeOK'
  BY <1>2, <1>3, <1>4 DEF StoresInv, StoresTypeOK
<1>6. ChangeTyped' /\ HistoryOfStrategy' /\ FileWritten' /\ VersionWritten'
  BY <1>1, <1>2, <1>3, <1>4 DEF StoresInv, ChangeTyped, HistoryOfStrategy, FileWritten, VersionWritten
<1>7. SettingsKept'
  BY <1>2 DEF StoresInv, SettingsKept, Found
<1>8. change.thing = "strategy"
  BY <1>1 DEF StoresInv, HistoryOfStrategy
<1>9. HistoryKept'
  <2>1. PICK i \in 0..Len(past) :
           /\ acked["strategy"] = IF i = 0 THEN Default ELSE past[i]
           /\ \A j \in DOMAIN past : j > i => past[j] \in tried["strategy"]
    BY DEF StoresInv, HistoryKept
  <2>2. DOMAIN past = 1..Len(past) /\ DOMAIN past' = 1..(Len(past) + 1) /\ Len(past) \in Nat
    BY <1>1, <1>4
  <2>3. acked'["strategy"] = IF i = 0 THEN Default ELSE past'[i]
    BY <1>2, <1>4, <2>1, <2>2
  <2>4. \A j \in DOMAIN past' : j > i => past'[j] \in tried'["strategy"]
    BY <1>1, <1>2, <1>4, <1>8, <2>1, <2>2
  <2>5. i \in 0..Len(past')
    BY <1>4, <2>1, <2>2
  <2> QED
    BY <2>3, <2>4, <2>5 DEF HistoryKept
<1> QED
  BY <1>5, <1>6, <1>7, <1>9 DEF StoresInv

(* The answer: file, memory and, for the strategy, the last version agree. *)
LEMMA AnswerKept ==
  ASSUME StoresInv, Answer
  PROVE  StoresInv'
<1>1. /\ up /\ change.step = "answer" /\ change.value \in Values /\ change.thing \in Things
      /\ file[change.thing] = change.value
  BY DEF StoresInv, ChangeTyped, FileWritten, Answer, Doing
<1>2. /\ memory' = [memory EXCEPT ![change.thing] = change.value]
      /\ acked' = [acked EXCEPT ![change.thing] = change.value]
      /\ tried' = [tried EXCEPT ![change.thing] = {}]
      /\ timer' = IF change.thing = "settings" THEN change.value \in Enabled ELSE timer
      /\ removed' = (removed /\ change.thing # "selection")
      /\ change' = NoChange /\ UNCHANGED <<up, file, past, torn>>
  BY DEF Answer
<1>3. StoresTypeOK'
  <2>1. timer' \in BOOLEAN /\ removed' \in BOOLEAN
    <3>1. timer \in BOOLEAN /\ removed \in BOOLEAN
      BY DEF StoresInv, StoresTypeOK
    <3>2. (change.value \in Enabled) \in BOOLEAN
      OBVIOUS
    <3>3. timer' \in {timer, change.value \in Enabled}
      BY <1>2, Zenon
    <3>4. removed' \in BOOLEAN
      BY <1>2, <3>1, Zenon
    <3> QED
      BY <3>1, <3>2, <3>3, <3>4, Zenon
  <2>2. /\ memory' \in [Things -> Values] /\ acked' \in [Things -> Values]
        /\ tried' \in [Things -> SUBSET Values]
    BY <1>1, <1>2 DEF StoresInv, StoresTypeOK
  <2> QED
    BY <1>2, <2>1, <2>2 DEF StoresInv, StoresTypeOK, NoChange
<1>4. ChangeTyped' /\ HistoryOfStrategy' /\ FileWritten' /\ VersionWritten'
  BY <1>2 DEF ChangeTyped, HistoryOfStrategy, FileWritten, VersionWritten, NoChange, Steps
<1>5. SettingsKept'
  <2>1. ASSUME NEW x \in Things, x = "selection" => ~removed'
        PROVE  Found(x)' \in {acked'[x]} \cup tried'[x] /\ memory'[x] \in {acked'[x]} \cup tried'[x]
    <3>1. CASE x = change.thing
      BY <1>1, <1>2, <3>1, StoresConstants DEF StoresInv, StoresTypeOK, Found
    <3>2. CASE x # change.thing
      BY <1>1, <1>2, <2>1, <3>2 DEF StoresInv, StoresTypeOK, SettingsKept, Found
    <3> QED
      BY <3>1, <3>2
  <2>2. up' /\ tried'["settings"] = {} => timer' = (memory'["settings"] \in Enabled)
    <3>1. CASE change.thing = "settings"
      BY <1>1, <1>2, <3>1 DEF StoresInv, StoresTypeOK
    <3>2. CASE change.thing # "settings"
      BY <1>1, <1>2, <3>2, StoresConstants DEF StoresInv, StoresTypeOK, SettingsKept
    <3> QED
      BY <3>1, <3>2
  <2> QED
    BY <2>1, <2>2 DEF SettingsKept
<1>6. HistoryKept'
  <2>1. CASE change.thing = "strategy"
    <3>1. past \in Seq(Values) /\ past # <<>> /\ past[Len(past)] = change.value
      BY <1>1, <2>1 DEF StoresInv, StoresTypeOK, VersionWritten
    <3>2. Len(past) \in Nat /\ Len(past) # 0 /\ DOMAIN past = 1..Len(past)
      BY <3>1
    <3>3. acked'["strategy"] = past[Len(past)] /\ past' = past
      BY <1>1, <1>2, <2>1, <3>1 DEF StoresInv, StoresTypeOK
    <3>4. \A j \in DOMAIN past' : ~(j > Len(past))
      BY <3>2, <3>3
    <3>5. Len(past) \in 0..Len(past')
      BY <3>2, <3>3
    <3> QED
      BY <3>2, <3>3, <3>4, <3>5 DEF HistoryKept
  <2>2. CASE change.thing # "strategy"
    <3>1. acked'["strategy"] = acked["strategy"] /\ tried'["strategy"] = tried["strategy"]
          /\ past' = past
      BY <1>1, <1>2, <2>2, StoresConstants DEF StoresInv, StoresTypeOK
    <3> QED
      BY <3>1 DEF StoresInv, HistoryKept
  <2> QED
    BY <2>1, <2>2
<1> QED
  BY <1>3, <1>4, <1>5, <1>6 DEF StoresInv

(* The inductive invariant holds through any changes, failures, kills and       *)
(* starts of the server over its settings files.                                *)
THEOREM StoresInvariant == StoresSpec => []StoresInv
<1>1. StoresInit => StoresInv
  BY StoresInitially
<1>2. StoresInv /\ [StoresNext]_storeVars => StoresInv'
  <2> SUFFICES ASSUME StoresInv, [StoresNext]_storeVars PROVE StoresInv'
    OBVIOUS
  <2>1. CASE Start
    BY <2>1, StartKept
  <2>2. CASE Change
    BY <2>2, BeginKept DEF Change
  <2>3. CASE Restore
    <3>1. PICK version \in DOMAIN past : Begin("strategy", past[version])
      BY <2>3 DEF Restore
    <3>2. past[version] \in Values
      BY <3>1 DEF StoresInv, StoresTypeOK
    <3> QED
      BY <3>1, <3>2, BeginKept, StoresConstants
  <2>4. CASE Save
    BY <2>4, SaveKept
  <2>5. CASE SaveFails \/ RecordFails
    BY <2>5, FailureKept
  <2>6. CASE RemoveOld
    BY <2>6, RemoveOldKept
  <2>7. CASE RecordVersion
    BY <2>7, RecordKept
  <2>8. CASE Answer
    BY <2>8, AnswerKept
  <2>9. CASE Kill
    BY <2>9, KillKept
  <2>10. CASE UNCHANGED storeVars
    BY <2>10 DEF storeVars, StoresInv, StoresTypeOK, ChangeTyped, HistoryOfStrategy, FileWritten,
                 VersionWritten, SettingsKept, HistoryKept, Found
  <2> QED
    BY <2>1, <2>2, <2>3, <2>4, <2>5, <2>6, <2>7, <2>8, <2>9, <2>10 DEF StoresNext
<1> QED
  BY <1>1, <1>2, PTL DEF StoresSpec

(* A restart finds, and the server goes by, what the user was last answered or  *)
(* asked for since, whichever file operation fails and whenever it is killed    *)
(* (the stores' save and load, and the routes of app.js that keep memory and    *)
(* timer with them).                                                            *)
THEOREM SettingsSurvive == StoresSpec => []SettingsKept
<1>1. StoresInv => SettingsKept
  BY DEF StoresInv
<1> QED
  BY <1>1, StoresInvariant, PTL

(* The strategy settings last answered are a version of the history, followed   *)
(* only by changes that failed (StrategySettingsStore.save, restore).           *)
THEOREM HistorySurvives == StoresSpec => []HistoryKept
<1>1. StoresInv => HistoryKept
  BY DEF StoresInv
<1> QED
  BY <1>1, StoresInvariant, PTL

-----------------------------------------------------------------------------
(* What a fold over a sequence computes. FoldLeft is defined by a function over *)
(* sets of positions, each taken apart at its greatest; of a sum, that function *)
(* over 1..k is the sum of the first k. Existence and value both by the least   *)
(* length that would be an exception.                                           *)
Upto(g, w, n) ==
    g = [s \in SUBSET (1..n) |-> IF s = {} THEN 0 ELSE g[s \ {Max(s)}] + w[Max(s)]]

LEMMA ElementIn ==
    ASSUME NEW S, NEW q \in Seq(S), NEW i \in 1..Len(q)
    PROVE  q[i] \in S
    OBVIOUS

LEMMA Joined ==
    ASSUME NEW S, NEW q \in Seq(S), NEW r \in Seq(S)
    PROVE  /\ q \o r \in Seq(S) /\ Len(q \o r) = Len(q) + Len(r)
           /\ \A i \in 1..Len(q) : (q \o r)[i] = q[i]
    OBVIOUS

LEMMA LeastOf ==
    ASSUME NEW T \in SUBSET Nat, T # {}
    PROVE  \E x \in T : \A y \in T : x <= y
<1>1. PICK x \in T : \A y \in T : ~(<<y, x>> \in OpToRel(<, Nat))
    BY NatLessThanWellFounded, WFMin, Zenon
<1>2. \A y \in T : ~(y < x)
    BY <1>1 DEF OpToRel
<1> QED
    BY <1>2

LEMMA MaxIs ==
    ASSUME NEW s, NEW m \in s, s \subseteq Int, \A x \in s : m >= x
    PROVE  Max(s) = m
<1>1. Max(s) \in s /\ \A x \in s : Max(s) >= x
    BY Zenon DEF Max
<1>2. m \in Int /\ Max(s) \in Int /\ Max(s) >= m /\ m >= Max(s)
    BY <1>1
<1> QED
    BY <1>2

LEMMA MaxOf ==
    ASSUME NEW n \in Nat, NEW s \in SUBSET (1..n), s # {}
    PROVE  Max(s) \in s /\ \A x \in s : Max(s) >= x
<1> DEFINE T == {k \in 0..n : \A x \in s : x <= k}
<1>1. n \in T /\ T \in SUBSET Nat
    OBVIOUS
<1>2. PICK m \in T : \A k \in T : m <= k
    BY <1>1, LeastOf
<1>3. m \in s
    <2> SUFFICES ASSUME m \notin s PROVE FALSE
        OBVIOUS
    <2>1. m \in 0..n /\ \A x \in s : x \in 1..n /\ x < m
        BY <1>2
    <2>2. PICK y \in s : TRUE
        OBVIOUS
    <2>3. m - 1 \in T
        BY <2>1, <2>2
    <2> QED
        BY <1>2, <2>1, <2>3
<1>4. \A x \in s : m >= x
    BY <1>2
<1>5. s \subseteq Int
    OBVIOUS
<1>6. Max(s) = m
    BY <1>3, <1>4, <1>5, MaxIs
<1> QED
    BY <1>3, <1>4, <1>6

LEMMA UptoExists ==
    ASSUME NEW n \in Nat, NEW w \in [1..n -> Int]
    PROVE  \E g : Upto(g, w, n)
<1> DEFINE Bad == {k \in 0..n : ~ \E g : Upto(g, w, k)}
<1>1. SUFFICES ASSUME n \in Bad PROVE FALSE
    OBVIOUS
<1>2. PICK k \in Bad : \A j \in Bad : k <= j
    <2>1. Bad \in SUBSET Nat
        OBVIOUS
    <2>2. Bad # {}
        BY <1>1, Zenon
    <2> HIDE DEF Bad
    <2> QED
        BY <2>1, <2>2, LeastOf
<1>3. k # 0
    <2>1. SUBSET (1..0) = {{}}
        OBVIOUS
    <2>2. Upto([s \in {{}} |-> 0], w, 0)
        BY <2>1 DEF Upto
    <2> QED
        BY <1>2, <2>2
<1>4. PICK g : Upto(g, w, k - 1)
    <2>1. k - 1 \in 0..n /\ k - 1 \notin Bad
        BY <1>2, <1>3
    <2> QED
        BY <2>1
<1> DEFINE h == [s \in SUBSET (1..k) |-> IF k \in s THEN g[s \ {k}] + w[k] ELSE g[s]]
<1>5. k \in Nat /\ k >= 1
    BY <1>2, <1>3
<1>6. ASSUME NEW s \in SUBSET (1..(k - 1))
      PROVE  /\ s \in SUBSET (1..k) /\ k \notin s
             /\ g[s] = IF s = {} THEN 0 ELSE g[s \ {Max(s)}] + w[Max(s)]
    <2>1. s \in SUBSET (1..k) /\ k \notin s
        BY <1>5
    <2> QED
        BY <1>4, <2>1 DEF Upto
<1>7. ASSUME NEW s \in SUBSET (1..k)
      PROVE  h[s] = IF s = {} THEN 0 ELSE h[s \ {Max(s)}] + w[Max(s)]
    <2>1. CASE k \in s
        <3>1. Max(s) = k
            <4>1. s \subseteq Int /\ \A x \in s : k >= x
                BY <1>5
            <4> QED
                BY <2>1, <4>1, MaxIs
        <3>2. s \ {k} \in SUBSET (1..(k - 1))
            BY <1>5
        <3>3. h[s \ {k}] = g[s \ {k}]
            BY <1>6, <3>2
        <3> QED
            BY <2>1, <3>1, <3>3
    <2>2. CASE k \notin s /\ s # {}
        <3>1. s \in SUBSET (1..(k - 1)) /\ k - 1 \in Nat
            BY <1>5, <2>2
        <3>2. s \ {Max(s)} \in SUBSET (1..(k - 1))
            BY <3>1
        <3>3. h[s \ {Max(s)}] = g[s \ {Max(s)}] /\ h[s] = g[s]
            BY <1>6, <3>1, <3>2
        <3> QED
            BY <1>6, <2>2, <3>1, <3>3
    <2>3. CASE s = {}
        <3>1. s \in SUBSET (1..(k - 1))
            BY <2>3
        <3> QED
            BY <1>6, <2>3, <3>1
    <2> QED
        BY <2>1, <2>2, <2>3
<1>8. h = [s \in SUBSET (1..k) |-> IF s = {} THEN 0 ELSE h[s \ {Max(s)}] + w[Max(s)]]
    <2> HIDE DEF h
    <2>1. h = [s \in SUBSET (1..k) |-> h[s]]
        BY DEF h
    <2> QED
        BY <1>7, <2>1
<1> HIDE DEF h
<1>9. Upto(h, w, k)
    BY <1>8 DEF Upto
<1> QED
    BY <1>2, <1>9

(* What one more position adds. *)
LEMMA UptoStep ==
    ASSUME NEW m \in Nat, NEW v \in [1..m -> Int], NEW h, Upto(h, v, m)
    PROVE  \A j \in 1..m : h[1..j] = h[1..(j - 1)] + v[j]
<1> SUFFICES ASSUME NEW j \in 1..m PROVE h[1..j] = h[1..(j - 1)] + v[j]
    OBVIOUS
<1>1. Max(1..j) = j
    <2>1. j \in 1..j /\ 1..j \subseteq Int /\ \A x \in 1..j : j >= x
        OBVIOUS
    <2> QED
        BY <2>1, MaxIs
<1>2. (1..j) \ {j} = 1..(j - 1) /\ 1..j # {}
    <2>1. \A x : x \in (1..j) \ {j} <=> x \in 1..(j - 1)
        OBVIOUS
    <2>2. j \in 1..j
        OBVIOUS
    <2> QED
        BY <2>1, <2>2, Zenon
<1>3. 1..j \in SUBSET (1..m)
    OBVIOUS
<1> QED
    BY <1>1, <1>2, <1>3 DEF Upto

(* Two such functions agree as far as what they add does. *)
LEMMA UptoAgree ==
    ASSUME NEW n \in Nat, NEW m \in Nat, NEW w \in [1..n -> Int], NEW v \in [1..m -> Int],
           NEW g, NEW h, Upto(g, w, n), Upto(h, v, m),
           NEW k \in Nat, k <= n, k <= m, \A i \in 1..k : w[i] = v[i]
    PROVE  g[1..k] = h[1..k] /\ g[1..k] \in Int
<1>5. \A i \in 1..n : g[1..i] = g[1..(i - 1)] + w[i]
    <2>1. n \in Nat /\ Upto(g, w, n)
        OBVIOUS
    <2> QED
        BY <2>1, UptoStep
<1>6. \A i \in 1..m : h[1..i] = h[1..(i - 1)] + v[i]
    <2>1. m \in Nat /\ Upto(h, v, m)
        OBVIOUS
    <2> QED
        BY <2>1, UptoStep
<1> DEFINE Bad == {j \in 0..k : ~(g[1..j] = h[1..j] /\ g[1..j] \in Int)}
<1>1. SUFFICES ASSUME k \in Bad PROVE FALSE
    OBVIOUS
<1>2. PICK j \in Bad : \A i \in Bad : j <= i
    <2>1. Bad \in SUBSET Nat
        OBVIOUS
    <2>2. Bad # {}
        BY <1>1, Zenon
    <2> HIDE DEF Bad
    <2> QED
        BY <2>1, <2>2, LeastOf
<1>3. CASE j = 0
    <2>1. 1..j = {} /\ {} \in SUBSET (1..n) /\ {} \in SUBSET (1..m)
        BY <1>3
    <2>2. g[{}] = 0 /\ h[{}] = 0
        BY <2>1 DEF Upto
    <2> QED
        BY <1>2, <2>1, <2>2
<1>4. CASE j # 0
    <2>1. j \in 1..k /\ j - 1 \in 0..k /\ j - 1 \notin Bad
        BY <1>2, <1>4
    <2>2. g[1..(j - 1)] = h[1..(j - 1)] /\ g[1..(j - 1)] \in Int
        BY <2>1
    <2>3. j \in 1..n /\ j \in 1..m
        BY <2>1
    <2>4. g[1..j] = g[1..(j - 1)] + w[j] /\ h[1..j] = h[1..(j - 1)] + v[j]
        BY <1>5, <1>6, <2>3, Zenon
    <2>5. w[j] = v[j] /\ w[j] \in Int
        BY <2>1
    <2> QED
        BY <1>2, <2>2, <2>4, <2>5
<1> QED
    BY <1>3, <1>4

LEMMA TotalIs ==
    ASSUME NEW q \in Seq(Int)
    PROVE  \E g : Upto(g, q, Len(q)) /\ Total(q) = g[1..Len(q)]
<1>1. DOMAIN q = 1..Len(q) /\ Len(q) \in Nat /\ q \in [1..Len(q) -> Int]
    OBVIOUS
<1> DEFINE iter == CHOOSE iter : iter = [s \in SUBSET DOMAIN q |-> IF s = {} THEN 0 ELSE iter[s \ {Max(s)}] + q[Max(s)]]
<1>2. Total(q) = iter[DOMAIN q]
    BY DEF Total, FoldLeft, MapThenFoldSet
<1>3. Upto(iter, q, Len(q))
    <2>1. PICK g : Upto(g, q, Len(q))
        BY <1>1, UptoExists
    <2>2. g = [s \in SUBSET DOMAIN q |-> IF s = {} THEN 0 ELSE g[s \ {Max(s)}] + q[Max(s)]]
        BY <1>1, <2>1, Zenon DEF Upto
    <2>3. iter = [s \in SUBSET DOMAIN q |-> IF s = {} THEN 0 ELSE iter[s \ {Max(s)}] + q[Max(s)]]
        BY <2>2, Zenon
    <2> QED
        BY <1>1, <2>3, Zenon DEF Upto
<1> QED
    BY <1>1, <1>2, <1>3

LEMMA TotalEmpty == Total(<<>>) = 0
<1> DEFINE q == <<>>
<1>1. q \in Seq(Int) /\ Len(q) = 0 /\ 1..0 = {}
    OBVIOUS
<1>2. PICK g : Upto(g, q, 0) /\ Total(q) = g[{}]
    BY <1>1, TotalIs
<1> QED
    BY <1>2 DEF Upto

LEMMA TotalAppend ==
    ASSUME NEW q \in Seq(Int), NEW x \in Int
    PROVE  Total(q) \in Int /\ Total(Append(q, x)) = Total(q) + x
<1> DEFINE n == Len(q)
           r == Append(q, x)
<1>1. /\ n \in Nat /\ n + 1 \in Nat /\ q \in [1..n -> Int]
      /\ r \in Seq(Int) /\ Len(r) = n + 1 /\ r \in [1..(n + 1) -> Int]
      /\ r[n + 1] = x /\ \A i \in 1..n : q[i] = r[i]
    <2>1. n \in Nat /\ n + 1 \in Nat /\ q \in [1..n -> Int]
        OBVIOUS
    <2>2. r \in Seq(Int) /\ Len(r) = n + 1
        OBVIOUS
    <2>3. r \in [1..(n + 1) -> Int]
        <3> HIDE DEF r, n
        <3> QED
            BY <2>2
    <2>4. r[n + 1] = x /\ \A i \in 1..n : q[i] = r[i]
        BY <2>1
    <2> QED
        BY <2>1, <2>2, <2>3, <2>4
<1>2. PICK g : Upto(g, q, n) /\ Total(q) = g[1..n]
    BY TotalIs
<1>3. PICK h : Upto(h, r, n + 1) /\ Total(r) = h[1..(n + 1)]
    BY <1>1, TotalIs
<1> HIDE DEF n, r
<1>4. g[1..n] = h[1..n] /\ g[1..n] \in Int
    BY <1>1, <1>2, <1>3, UptoAgree
<1>5. h[1..(n + 1)] = h[1..n] + r[n + 1]
    <2> DEFINE m == n + 1
    <2>1. m \in Nat /\ m \in 1..m /\ m - 1 = n
        BY <1>1
    <2>2. r \in [1..m -> Int] /\ Upto(h, r, m)
        BY <1>1, <1>3
    <2> HIDE DEF m
    <2>3. \A j \in 1..m : h[1..j] = h[1..(j - 1)] + r[j]
        BY <2>1, <2>2, UptoStep
    <2>4. h[1..m] = h[1..(m - 1)] + r[m]
        BY <2>1, <2>3, Zenon
    <2> QED
        BY <2>1, <2>4 DEF m
<1> QED
    BY <1>1, <1>2, <1>3, <1>4, <1>5 DEF r

(* A sum of numbers that are not negative is not. *)
LEMMA TotalNat ==
    ASSUME NEW q \in Seq(Nat)
    PROVE  Total(q) \in Nat
<1>1. q \in Seq(Int) /\ Len(q) \in Nat /\ q \in [1..Len(q) -> Nat]
    OBVIOUS
<1>2. PICK g : Upto(g, q, Len(q)) /\ Total(q) = g[1..Len(q)]
    BY <1>1, TotalIs
<1>7. \A i \in 1..Len(q) : g[1..i] = g[1..(i - 1)] + q[i]
    BY <1>1, <1>2, UptoStep
<1> DEFINE n == Len(q)
           Bad == {j \in 0..n : g[1..j] \notin Nat}
<1>3. SUFFICES ASSUME n \in Bad PROVE FALSE
    <2>1. n \in 0..n
        BY <1>1
    <2>2. n \notin Bad => g[1..n] \in Nat
        BY <2>1, Zenon
    <2> QED
        BY <1>2, <2>2, Zenon
<1>4. PICK j \in Bad : \A i \in Bad : j <= i
    <2>1. Bad \in SUBSET Nat
        OBVIOUS
    <2>2. Bad # {}
        BY <1>3, Zenon
    <2> HIDE DEF Bad
    <2> QED
        BY <2>1, <2>2, LeastOf
<1>5. CASE j = 0
    <2>1. 1..j = {} /\ {} \in SUBSET (1..n)
        BY <1>5
    <2>2. g[1..j] = 0
        BY <1>2, <2>1, Zenon DEF Upto
    <2>3. g[1..j] \notin Nat
        BY <1>4, Zenon
    <2> QED
        BY <2>2, <2>3
<1>6. CASE j # 0
    <2>1. j \in 1..n /\ j - 1 \in 0..n /\ j - 1 \notin Bad
        BY <1>1, <1>4, <1>6
    <2>2. g[1..j] = g[1..(j - 1)] + q[j]
        BY <1>7, <2>1, Zenon
    <2>3. q[j] \in Nat
        BY <1>1, <2>1
    <2>4. g[1..(j - 1)] \in Nat
        BY <2>1, Zenon
    <2>5. g[1..j] \notin Nat
        BY <1>4, Zenon
    <2>6. g[1..j] \in Nat
        <3> HIDE DEF Bad
        <3> QED
            BY <2>2, <2>3, <2>4
    <2> QED
        BY <2>5, <2>6
<1> QED
    BY <1>5, <1>6

(* The bytes of a queue are the sum of its sizes. *)
LEMMA BytesIs ==
    ASSUME NEW q, NEW n \in Nat, DOMAIN q = 1..n, \A i \in 1..n : q[i].size \in Int
    PROVE  Bytes(q) = Total([i \in 1..n |-> q[i].size])
<1> DEFINE w == [i \in 1..n |-> q[i].size]
           iter == CHOOSE iter : iter = [s \in SUBSET DOMAIN q |->
                       IF s = {} THEN 0 ELSE iter[s \ {Max(s)}] + q[Max(s)].size]
<1>1. w \in Seq(Int) /\ Len(w) = n /\ w \in [1..n -> Int]
    OBVIOUS
<1>2. Bytes(q) = iter[DOMAIN q]
    BY DEF Bytes, FoldLeft, MapThenFoldSet
<1>3. \A s \in SUBSET (1..n) : s # {} => w[Max(s)] = q[Max(s)].size
    BY MaxOf
<1> HIDE DEF w
<1>4. ASSUME NEW g
      PROVE  [s \in SUBSET (1..n) |-> IF s = {} THEN 0 ELSE g[s \ {Max(s)}] + w[Max(s)]]
               = [s \in SUBSET (1..n) |-> IF s = {} THEN 0 ELSE g[s \ {Max(s)}] + q[Max(s)].size]
    BY <1>3
<1>5. Upto(iter, w, n)
    <2>1. PICK g : Upto(g, w, n)
        BY <1>1, UptoExists
    <2>2. g = [s \in SUBSET DOMAIN q |-> IF s = {} THEN 0 ELSE g[s \ {Max(s)}] + q[Max(s)].size]
        BY <1>4, <2>1, Zenon DEF Upto
    <2>3. iter = [s \in SUBSET DOMAIN q |-> IF s = {} THEN 0 ELSE iter[s \ {Max(s)}] + q[Max(s)].size]
        BY <2>2, Zenon
    <2> HIDE DEF iter
    <2> QED
        BY <1>4, <2>3, Zenon DEF Upto
<1> HIDE DEF iter
<1>6. PICK h : Upto(h, w, n) /\ Total(w) = h[1..n]
    BY <1>1, TotalIs
<1>7. iter[1..n] = h[1..n]
    BY <1>1, <1>5, <1>6, UptoAgree
<1> QED
    BY <1>2, <1>6, <1>7 DEF w

LEMMA BytesQueue ==
    ASSUME NEW q \in Seq([number : Nat, size : Nat])
    PROVE  /\ Bytes(<<>>) = 0 /\ Bytes(q) \in Nat
           /\ \A e \in [number : Nat, size : Nat] : Bytes(Append(q, e)) = Bytes(q) + e.size
<1>1. Bytes(<<>>) = 0
    <2> DEFINE none == <<>>
    <2>1. DOMAIN none = 1..0 /\ [i \in 1..0 |-> none[i].size] = <<>>
        OBVIOUS
    <2>2. \A i \in 1..0 : none[i].size \in Int
        OBVIOUS
    <2>3. Bytes(none) = Total([i \in 1..0 |-> none[i].size])
        BY <2>1, <2>2, BytesIs
    <2> QED
        BY <2>1, <2>3, TotalEmpty
<1> DEFINE n == Len(q)
           w == [i \in 1..n |-> q[i].size]
<1>2. n \in Nat /\ DOMAIN q = 1..n /\ w \in Seq(Nat) /\ w \in Seq(Int) /\ Len(w) = n
      /\ \A i \in 1..n : q[i].size \in Int
    <2>1. n \in Nat /\ DOMAIN q = 1..n
        OBVIOUS
    <2>2. \A i \in 1..n : q[i].size \in Nat
        <3>1. \A i \in 1..Len(q) : q[i] \in [number : Nat, size : Nat]
            BY ElementIn
        <3> QED
            BY <3>1
    <2>3. w \in Seq(Nat) /\ w \in Seq(Int) /\ Len(w) = n
        BY <2>1, <2>2
    <2> QED
        BY <2>1, <2>2, <2>3
<1>3. Bytes(q) = Total(w)
    BY <1>2, BytesIs
<1>4. ASSUME NEW e \in [number : Nat, size : Nat]
      PROVE  Bytes(Append(q, e)) = Bytes(q) + e.size
    <2> DEFINE r == Append(q, e)
    <2>1. n + 1 \in Nat /\ DOMAIN r = 1..(n + 1) /\ \A i \in 1..(n + 1) : r[i].size \in Int
        <3>1. r \in Seq([number : Nat, size : Nat]) /\ Len(r) = n + 1 /\ n + 1 \in Nat
            OBVIOUS
        <3> HIDE DEF r, n
        <3>2. \A i \in 1..(n + 1) : r[i] \in [number : Nat, size : Nat]
            BY <3>1, ElementIn
        <3> QED
            BY <3>1, <3>2
    <2>2. [i \in 1..(n + 1) |-> r[i].size] = Append(w, e.size)
        BY <1>2
    <2>3. Bytes(r) = Total([i \in 1..(n + 1) |-> r[i].size])
        <3> HIDE DEF r, n
        <3> QED
            BY <2>1, BytesIs
    <2>4. e.size \in Int
        OBVIOUS
    <2> HIDE DEF w, n
    <2> QED
        BY <1>2, <1>3, <2>2, <2>3, <2>4, TotalAppend
<1>5. Bytes(q) \in Nat
    BY <1>2, <1>3, TotalNat
<1> QED
    BY <1>1, <1>4, <1>5

-----------------------------------------------------------------------------
(* The research record. A journal is whole when the file and the queue hold its *)
(* numbers in their order; then the file does not end in a torn line, and a     *)
(* batch is written behind it as it is.                                         *)
JournalStates == {"RECORDING", "BACKPRESSURE", "LIMIT_REACHED", "ERROR", "STOPPED"}

Event == [number : Nat, size : Nat]

Line == Nat \cup {Torn}

ResearchJournal ==
    [state : JournalStates, sequence : Nat, queue : Seq(Event), written : Seq(Line),
     bytes : Nat, dropped : Nat, timer : BOOLEAN, cut : BOOLEAN]

Numbered(j) == ~j.cut => j.written \o Numbers(j.queue) = [i \in 1..j.sequence |-> i]

WholeJournal(j) ==
    /\ j \in ResearchJournal /\ Numbered(j)
    /\ Len(j.queue) <= MaxQueueEvents
    /\ j.bytes + Bytes(j.queue) <= MaxFileBytes

ResearchInv == WholeJournal(research) /\ research.sequence + research.dropped = offered

LEMMA NumbersOf ==
    ASSUME NEW q \in Seq(Event)
    PROVE  /\ Numbers(q) \in Seq(Nat) /\ Numbers(q) \in Seq(Line) /\ Len(Numbers(q)) = Len(q)
           /\ Numbers(<<>>) = <<>>
           /\ \A e \in Event : Numbers(Append(q, e)) = Append(Numbers(q), e.number)
<1>1. Len(q) \in Nat /\ DOMAIN q = 1..Len(q) /\ \A i \in 1..Len(q) : q[i] \in Event
    BY ElementIn
<1>2. \A i \in 1..Len(q) : q[i].number \in Nat
    BY <1>1 DEF Event
<1>3. Numbers(q) = [i \in 1..Len(q) |-> q[i].number]
    BY <1>1 DEF Numbers
<1>4. Numbers(q) \in Seq(Nat) /\ Numbers(q) \in Seq(Line) /\ Len(Numbers(q)) = Len(q)
    BY <1>1, <1>2, <1>3 DEF Line
<1>5. Numbers(<<>>) = <<>>
    BY DEF Numbers
<1>6. ASSUME NEW e \in Event PROVE Numbers(Append(q, e)) = Append(Numbers(q), e.number)
    BY <1>1, <1>3 DEF Numbers
<1> QED
    BY <1>4, <1>5, <1>6

(* No piece of a line at the end of a file that holds the numbers. *)
LEMMA NotTorn ==
    ASSUME NEW j \in ResearchJournal, Numbered(j), ~j.cut, NEW more \in Seq(Line)
    PROVE  LinesAfter(j.written, more) = j.written \o more
<1>1. j.written \in Seq(Line) /\ j.queue \in Seq(Event) /\ j.sequence \in Nat
    BY DEF ResearchJournal
<1>2. Numbers(j.queue) \in Seq(Line)
    BY <1>1, NumbersOf
<1>3. ASSUME j.written # <<>> PROVE j.written[Len(j.written)] # Torn
    <2>1. Len(j.written) \in Nat \ {0}
        BY <1>1, <1>3
    <2> DEFINE all == j.written \o Numbers(j.queue)
               n == Len(j.written)
    <2>2. n \in 1..n /\ all[n] = j.written[n] /\ Len(all) = n + Len(Numbers(j.queue))
        <3>1. /\ Len(all) = n + Len(Numbers(j.queue))
              /\ \A i \in 1..n : all[i] = j.written[i]
            BY <1>1, <1>2, Joined
        <3> HIDE DEF all, n
        <3>2. n \in 1..n
            BY <2>1 DEF n
        <3> QED
            BY <3>1, <3>2
    <2>3. Len(Numbers(j.queue)) \in Nat
        BY <1>2
    <2>4. all = [i \in 1..j.sequence |-> i] /\ Len(all) = j.sequence
        <3>1. all = [i \in 1..j.sequence |-> i]
            BY DEF Numbered
        <3>2. Len([i \in 1..j.sequence |-> i]) = j.sequence
            BY <1>1
        <3> QED
            BY <3>1, <3>2, Zenon
    <2>5. n \in 1..j.sequence
        <3> HIDE DEF all, n
        <3>1. n \in Nat \ {0}
            BY <2>1 DEF n
        <3> QED
            BY <1>1, <2>2, <2>3, <2>4, <3>1
    <2>6. all[n] = n
        BY <2>4, <2>5
    <2> QED
        BY <2>1, <2>2, <2>6, ResearchAssumption
<1> QED
    BY <1>3 DEF LinesAfter

LEMMA LinesTyped ==
    ASSUME NEW batch \in Seq(Line), NEW more \in Seq(Line)
    PROVE  LinesAfter(batch, more) \in Seq(Line)
<1>1. more # <<>> => Tail(more) \in Seq(Line)
    OBVIOUS
<1> QED
    BY <1>1 DEF LinesAfter

LEMMA FlushKeeps ==
    ASSUME NEW j, WholeJournal(j), NEW k \in Flush(j)
    PROVE  WholeJournal(k) /\ k.sequence = j.sequence /\ k.dropped = j.dropped
<1>1. /\ j \in ResearchJournal /\ Numbered(j)
      /\ j.written \in Seq(Line) /\ j.queue \in Seq(Event) /\ j.sequence \in Nat
      /\ j.bytes \in Nat /\ j.dropped \in Nat /\ j.state \in JournalStates
      /\ j.timer \in BOOLEAN /\ j.cut \in BOOLEAN
    BY DEF WholeJournal, ResearchJournal
<1>2. Numbers(j.queue) \in Seq(Line) /\ Numbers(<<>>) = <<>>
    BY <1>1, NumbersOf
<1>3. Bytes(j.queue) \in Nat /\ Bytes(<<>>) = 0
    BY <1>1, BytesQueue DEF Event
<1>4. CASE j.queue = <<>>
    <2>1. k = j
        BY <1>4 DEF Flush
    <2> QED
        BY <2>1
<1>5. CASE k = Flushed(j)
    <2>1. /\ k.written = LinesAfter(j.written, Numbers(j.queue)) /\ k.queue = <<>>
          /\ k.bytes = j.bytes + Bytes(j.queue) /\ k.state = StateAfterWrite(j.state)
          /\ k.cut = j.cut /\ k.sequence = j.sequence /\ k.dropped = j.dropped
        BY <1>1, <1>5 DEF Flushed, ResearchJournal
    <2>2. StateAfterWrite(j.state) \in JournalStates
        BY <1>1 DEF StateAfterWrite, JournalStates
    <2>3. LinesAfter(j.written, Numbers(j.queue)) \in Seq(Line)
        BY <1>1, <1>2, LinesTyped
    <2>4. j.bytes + Bytes(j.queue) \in Nat /\ <<>> \in Seq(Event)
        BY <1>1, <1>3
    <2>5. k \in ResearchJournal
        BY <1>1, <1>5, <2>2, <2>3, <2>4 DEF Flushed, ResearchJournal
    <2>6. Numbered(k)
        <3>1. ASSUME ~k.cut PROVE k.written \o Numbers(k.queue) = [i \in 1..k.sequence |-> i]
            <4>1. k.written = j.written \o Numbers(j.queue)
                BY <1>1, <1>2, <2>1, <3>1, NotTorn
            <4>2. k.written \o Numbers(k.queue) = k.written
                BY <1>2, <2>1, <2>3
            <4> QED
                BY <1>1, <2>1, <3>1, <4>1, <4>2 DEF Numbered
        <3> QED
            BY <3>1 DEF Numbered
    <2>7. Len(k.queue) <= MaxQueueEvents /\ k.bytes + Bytes(k.queue) <= MaxFileBytes
        <3>1. Len(k.queue) = 0 /\ MaxQueueEvents \in Nat
            BY <2>1, ResearchAssumption
        <3>2. k.bytes + Bytes(k.queue) = j.bytes + Bytes(j.queue)
            BY <1>1, <1>3, <2>1
        <3> QED
            BY <3>1, <3>2 DEF WholeJournal
    <2> QED
        BY <2>1, <2>5, <2>6, <2>7 DEF WholeJournal
<1>6. ASSUME NEW batch \in Pieces(j), k = NotFlushed(j, batch)
      PROVE  WholeJournal(k) /\ k.sequence = j.sequence /\ k.dropped = j.dropped
    <2>1. batch \in Seq(Line) /\ (j.cut => batch = <<>>)
        <3>1. CASE j.cut
            BY <1>6, <3>1 DEF Pieces
        <3>2. CASE ~j.cut
            <4>1. PICK n \in 0..(Len(j.queue) - 1) : \E piece \in {<<>>, <<Torn>>} :
                     batch = SubSeq(Numbers(j.queue), 1, n) \o piece
                <5> DEFINE Cut(i, p) == SubSeq(Numbers(j.queue), 1, i) \o p
                           Tails == {<<>>, <<Torn>>}
                           Upper == 0..(Len(j.queue) - 1)
                <5>1. Pieces(j) = {Cut(i, p) : i \in Upper, p \in Tails}
                    BY <3>2 DEF Pieces
                <5> HIDE DEF Cut, Tails, Upper
                <5>2. \E i \in Upper : \E p \in Tails : batch = Cut(i, p)
                    BY <1>6, <5>1
                <5> QED
                    BY <5>2, Zenon DEF Cut, Tails, Upper
            <4>4. PICK piece \in {<<>>, <<Torn>>} : batch = SubSeq(Numbers(j.queue), 1, n) \o piece
                BY <4>1
            <4>2. piece \in Seq(Line)
                <5>1. Torn \in Line
                    BY DEF Line
                <5> HIDE DEF Line
                <5>2. <<>> \in Seq(Line) /\ <<Torn>> \in Seq(Line)
                    BY <5>1
                <5> QED
                    BY <4>4, <5>2
            <4>3. SubSeq(Numbers(j.queue), 1, n) \in Seq(Line)
                <5>1. n <= Len(Numbers(j.queue)) /\ n \in Nat
                    BY <1>1, NumbersOf
                <5> QED
                    BY <1>2, <5>1
            <4> QED
                BY <3>2, <4>4, <4>2, <4>3
        <3> QED
            BY <1>1, <3>1, <3>2
    <2>2. PICK cut \in BOOLEAN : cut = (j.cut \/ batch # <<>>)
        BY Zenon
    <2>3. k = [j EXCEPT !.written = LinesAfter(j.written, batch), !.cut = cut, !.queue = j.queue,
                        !.state = "ERROR"]
        BY <1>6, <2>2, Zenon DEF NotFlushed, QueueAfterFailure
    <2>4. LinesAfter(j.written, batch) \in Seq(Line)
        BY <1>1, <2>1, LinesTyped
    <2>5. /\ k.written = LinesAfter(j.written, batch) /\ k.cut = cut /\ k.queue = j.queue
          /\ k.bytes = j.bytes /\ k.sequence = j.sequence /\ k.dropped = j.dropped
        BY <1>1, <2>3 DEF ResearchJournal
    <2>6. k \in ResearchJournal
        BY <1>1, <2>2, <2>3, <2>4 DEF ResearchJournal, JournalStates
    <2>7. Numbered(k)
        <3>1. ASSUME ~k.cut PROVE k.written \o Numbers(k.queue) = [i \in 1..k.sequence |-> i]
            <4>1. ~j.cut /\ batch = <<>>
                BY <2>2, <2>5, <3>1
            <4>2. LinesAfter(j.written, batch) = j.written
                BY <4>1 DEF LinesAfter
            <4> QED
                BY <1>1, <2>5, <4>1, <4>2 DEF Numbered
        <3> QED
            BY <3>1 DEF Numbered
    <2> QED
        BY <2>5, <2>6, <2>7 DEF WholeJournal
<1> QED
    BY <1>4, <1>5, <1>6 DEF Flush

(* An event is numbered and queued, or dropped and counted. *)
LEMMA AppendedKeeps ==
    ASSUME NEW j, WholeJournal(j), NEW size \in Sizes, NEW k \in Appended(j, size)
    PROVE  WholeJournal(k) /\ k.sequence + k.dropped = j.sequence + j.dropped + 1
<1>1. /\ j \in ResearchJournal /\ Numbered(j)
      /\ j.written \in Seq(Line) /\ j.queue \in Seq(Event) /\ j.sequence \in Nat
      /\ j.bytes \in Nat /\ j.dropped \in Nat /\ j.state \in JournalStates
      /\ j.timer \in BOOLEAN /\ j.cut \in BOOLEAN
    BY DEF WholeJournal, ResearchJournal
<1>2. size \in Nat /\ MaxQueueEvents \in Nat /\ MaxFileBytes \in Nat
    BY ResearchAssumption
<1>3. ASSUME NEW state \in JournalStates, k = Dropped(j, state)
      PROVE  WholeJournal(k) /\ k.sequence + k.dropped = j.sequence + j.dropped + 1
    <2>1. /\ k.state = state /\ k.dropped = j.dropped + 1 /\ k.sequence = j.sequence
          /\ k.queue = j.queue /\ k.written = j.written /\ k.bytes = j.bytes /\ k.cut = j.cut
        BY <1>1, <1>3 DEF Dropped, ResearchJournal
    <2>2. k \in ResearchJournal
        <3>1. j.dropped + 1 \in Nat
            BY <1>1
        <3>2. k = [j EXCEPT !.state = state, !.dropped = j.dropped + 1]
            BY <1>3 DEF Dropped
        <3> QED
            BY <1>1, <3>1, <3>2 DEF ResearchJournal
    <2>3. Numbered(k)
        BY <1>1, <2>1 DEF Numbered
    <2> QED
        BY <1>1, <2>1, <2>2, <2>3 DEF WholeJournal
<1>4. ASSUME ~QueueFull(j), ~FileFull(j, size)
      PROVE  /\ WholeJournal(Queued(j, size))
             /\ Queued(j, size).sequence = j.sequence + 1
             /\ Queued(j, size).dropped = j.dropped
    <2> DEFINE e == [number |-> j.sequence + 1, size |-> size]
               q == Append(j.queue, e)
               s == Queued(j, size)
    <2>1. e \in Event /\ q \in Seq(Event) /\ Len(q) = Len(j.queue) + 1 /\ e.size = size
          /\ e.number = j.sequence + 1
        <3>1. e \in Event /\ e.size = size /\ e.number = j.sequence + 1
            BY <1>1, <1>2 DEF Event
        <3> HIDE DEF e
        <3> QED
            BY <1>1, <3>1
    <2>2. PICK state \in JournalStates :
             state = IF j.state = "BACKPRESSURE" THEN "RECORDING" ELSE j.state
        BY <1>1 DEF JournalStates
    <2>3. s = [j EXCEPT !.sequence = j.sequence + 1, !.queue = q, !.state = state]
        BY <2>2 DEF Queued
    <2> HIDE DEF s, q, e
    <2>4. /\ s.sequence = j.sequence + 1 /\ s.dropped = j.dropped /\ s.queue = q
          /\ s.written = j.written /\ s.bytes = j.bytes /\ s.cut = j.cut
        BY <1>1, <2>3 DEF ResearchJournal
    <2>5. s \in ResearchJournal
        <3>1. j.sequence + 1 \in Nat
            BY <1>1
        <3> QED
            BY <1>1, <2>1, <2>2, <2>3, <3>1 DEF ResearchJournal
    <2>6. Numbered(s)
        <3>1. ASSUME ~s.cut PROVE s.written \o Numbers(s.queue) = [i \in 1..s.sequence |-> i]
            <4>1. Numbers(q) = Append(Numbers(j.queue), j.sequence + 1)
                BY <1>1, <2>1, NumbersOf DEF q
            <4>2. Numbers(j.queue) \in Seq(Line) /\ j.sequence + 1 \in Line
                BY <1>1, NumbersOf DEF Line
            <4>3. j.written \o Append(Numbers(j.queue), j.sequence + 1)
                    = Append(j.written \o Numbers(j.queue), j.sequence + 1)
                <5> DEFINE a == j.written
                           b == Numbers(j.queue)
                           x == j.sequence + 1
                <5>1. a \in Seq(Line) /\ b \in Seq(Line) /\ x \in Line
                    BY <1>1, <4>2
                <5> HIDE DEF a, b, x
                <5>2. a \o Append(b, x) = Append(a \o b, x)
                    BY <5>1
                <5> QED
                    BY <5>2 DEF a, b, x
            <4>4. Append([i \in 1..j.sequence |-> i], j.sequence + 1) = [i \in 1..(j.sequence + 1) |-> i]
                BY <1>1
            <4>5. j.written \o Numbers(j.queue) = [i \in 1..j.sequence |-> i]
                BY <1>1, <2>4, <3>1 DEF Numbered
            <4> QED
                BY <2>4, <4>1, <4>3, <4>4, <4>5
        <3> QED
            BY <3>1 DEF Numbered
    <2>7. Len(s.queue) <= MaxQueueEvents
        <3>1. Len(j.queue) \in Nat /\ ~(Len(j.queue) >= MaxQueueEvents)
            BY <1>1, <1>4 DEF QueueFull
        <3> QED
            BY <1>2, <2>1, <2>4, <3>1
    <2>8. s.bytes + Bytes(s.queue) <= MaxFileBytes
        <3>1. Bytes(j.queue) \in Nat /\ Bytes(q) = Bytes(j.queue) + size
            BY <1>1, <2>1, BytesQueue DEF Event, q
        <3>2. ~(j.bytes + Bytes(j.queue) + size > MaxFileBytes)
            BY <1>4 DEF FileFull
        <3> QED
            BY <1>1, <1>2, <2>4, <3>1, <3>2
    <2>9. WholeJournal(s)
        BY <2>5, <2>6, <2>7, <2>8 DEF WholeJournal
    <2> QED
        BY <2>4, <2>9 DEF s
<1>5. CASE QueueFull(j)
    BY <1>3, <1>5 DEF Appended, JournalStates
<1>6. CASE ~QueueFull(j) /\ FileFull(j, size)
    BY <1>3, <1>6 DEF Appended, JournalStates
<1>7. CASE ~QueueFull(j) /\ ~FileFull(j, size)
    <2> DEFINE s == Queued(j, size)
    <2>1. WholeJournal(s) /\ s.sequence = j.sequence + 1 /\ s.dropped = j.dropped
        BY <1>4, <1>7
    <2>2. k = s \/ k \in Flush(s)
        BY <1>7 DEF Appended
    <2> HIDE DEF s
    <2>3. WholeJournal(k) /\ k.sequence = s.sequence /\ k.dropped = s.dropped
        BY <2>1, <2>2, FlushKeeps
    <2> QED
        BY <1>1, <2>1, <2>3
<1> QED
    BY <1>5, <1>6, <1>7

LEMMA StopKeeps ==
    ASSUME NEW j, WholeJournal(j), NEW runs \in BOOLEAN, NEW state \in JournalStates,
           NEW k, k = [j EXCEPT !.timer = runs, !.state = state]
    PROVE  WholeJournal(k) /\ k.sequence = j.sequence /\ k.dropped = j.dropped
<1>1. j \in ResearchJournal /\ Numbered(j)
    BY DEF WholeJournal
<1>2. /\ k.sequence = j.sequence /\ k.dropped = j.dropped /\ k.queue = j.queue
      /\ k.written = j.written /\ k.bytes = j.bytes /\ k.cut = j.cut
    BY <1>1 DEF ResearchJournal
<1>3. k \in ResearchJournal
    BY <1>1 DEF ResearchJournal
<1>4. Numbered(k)
    BY <1>1, <1>2 DEF Numbered
<1>5. WholeJournal(k)
    BY <1>2, <1>3, <1>4 DEF WholeJournal
<1> QED
    BY <1>2, <1>5

LEMMA ResearchStep ==
    ASSUME ResearchInv, ResearchNext
    PROVE  ResearchInv'
<1> DEFINE j == research
<1>1. /\ WholeJournal(j) /\ j.sequence \in Nat /\ j.dropped \in Nat
      /\ j.sequence + j.dropped = offered
    BY DEF ResearchInv, WholeJournal, ResearchJournal
<1>2. CASE RecordEvent
    <2>1. PICK size \in Sizes : research' \in Appended(research, size)
        BY <1>2 DEF RecordEvent
    <2>2. offered' = offered + 1
        BY <1>2 DEF RecordEvent, Offer
    <2>3. /\ WholeJournal(research') 
          /\ research'.sequence + research'.dropped = j.sequence + j.dropped + 1
        BY <1>1, <2>1, AppendedKeeps
    <2>4. WholeJournal(research)'
        BY <2>3 DEF WholeJournal, ResearchJournal, Numbered
    <2> QED
        BY <1>1, <2>2, <2>3, <2>4 DEF ResearchInv
<1>3. CASE FlushDue
    <2>1. research' \in Flush(research) /\ offered' = offered
        BY <1>3 DEF FlushDue
    <2>2. /\ WholeJournal(research') 
          /\ research'.sequence = j.sequence /\ research'.dropped = j.dropped
        BY <1>1, <2>1, FlushKeeps
    <2> QED
        BY <1>1, <2>1, <2>2 DEF ResearchInv
<1>4. CASE StopRecording
    <2>1. PICK size \in Sizes : \E a \in Appended(research, size) :
             \E f \in Flush([a EXCEPT !.timer = FALSE]) :
                 research' = [f EXCEPT !.state = StateAfterStop(@)]
        BY <1>4 DEF StopRecording
    <2>2. PICK a \in Appended(research, size) : \E f \in Flush([a EXCEPT !.timer = FALSE]) :
             research' = [f EXCEPT !.state = StateAfterStop(@)]
        BY <2>1
    <2>3. PICK f \in Flush([a EXCEPT !.timer = FALSE]) :
             research' = [f EXCEPT !.state = StateAfterStop(@)]
        BY <2>2
    <2>4. offered' = offered + 1
        BY <1>4 DEF StopRecording, Offer
    <2>5. WholeJournal(a) /\ a.sequence + a.dropped = j.sequence + j.dropped + 1
        BY <1>1, AppendedKeeps
    <2>6. a \in ResearchJournal /\ a.state \in JournalStates
        BY <2>5 DEF WholeJournal, ResearchJournal
    <2> DEFINE b == [a EXCEPT !.timer = FALSE]
    <2>7. b = [a EXCEPT !.timer = FALSE, !.state = a.state] /\ FALSE \in BOOLEAN
        BY <2>6 DEF ResearchJournal
    <2>8. WholeJournal(b) /\ b.sequence = a.sequence /\ b.dropped = a.dropped
        <3> HIDE DEF b
        <3> QED
            BY <2>5, <2>6, <2>7, StopKeeps
    <2> HIDE DEF b
    <2>9. WholeJournal(f) /\ f.sequence = b.sequence /\ f.dropped = b.dropped
        BY <2>3, <2>8, FlushKeeps DEF b
    <2>10. f \in ResearchJournal /\ f.state \in JournalStates /\ f.timer \in BOOLEAN
        BY <2>9 DEF WholeJournal, ResearchJournal
    <2>11. StateAfterStop(f.state) \in JournalStates
        BY <2>10 DEF StateAfterStop, JournalStates
    <2>12. research' = [f EXCEPT !.timer = f.timer, !.state = StateAfterStop(f.state)]
        BY <2>3, <2>10 DEF ResearchJournal
    <2>13. /\ WholeJournal(research') 
           /\ research'.sequence = f.sequence /\ research'.dropped = f.dropped
        BY <2>9, <2>10, <2>11, <2>12, StopKeeps
    <2> QED
        BY <1>1, <2>4, <2>5, <2>8, <2>9, <2>13 DEF ResearchInv
<1> QED
    BY <1>2, <1>3, <1>4 DEF ResearchNext

(* The invariant of the research record. *)
THEOREM ResearchInvariant == ResearchSpec => []ResearchInv
<1>1. ResearchInit => ResearchInv
    <2> SUFFICES ASSUME ResearchInit PROVE ResearchInv
        OBVIOUS
    <2>1. /\ research \in ResearchJournal /\ research.queue = <<>> /\ research.written = <<>>
          /\ research.sequence = 0 /\ research.dropped = 0 /\ research.bytes = 0 /\ offered = 0
        <3>1. <<>> \in Seq(Event) /\ <<>> \in Seq(Line)
            OBVIOUS
        <3> QED
            BY <3>1 DEF ResearchInit, ResearchJournal, JournalStates
    <2>2. Bytes(<<>>) = 0
        <3>1. <<>> \in Seq([number : Nat, size : Nat])
            OBVIOUS
        <3> QED
            BY <3>1, BytesQueue
    <2>3. Numbers(<<>>) = <<>>
        <3>1. <<>> \in Seq(Event)
            OBVIOUS
        <3> QED
            BY <3>1, NumbersOf
    <2>4. Numbered(research)
        BY <2>1, <2>3 DEF Numbered
    <2>5. Len(research.queue) <= MaxQueueEvents /\ research.bytes + Bytes(research.queue) <= MaxFileBytes
        BY <2>1, <2>2, ResearchAssumption
    <2> QED
        BY <2>1, <2>4, <2>5 DEF ResearchInv, WholeJournal
<1>2. ResearchInv /\ [ResearchNext]_researchVars => ResearchInv'
    <2> SUFFICES ASSUME ResearchInv, [ResearchNext]_researchVars PROVE ResearchInv'
        OBVIOUS
    <2>1. CASE ResearchNext
        BY <2>1, ResearchStep
    <2>2. CASE UNCHANGED researchVars
        BY <2>2 DEF researchVars, ResearchInv, WholeJournal, ResearchJournal, Numbered
    <2> QED
        BY <2>1, <2>2
<1> QED
    BY <1>1, <1>2, PTL DEF ResearchSpec

(* However many events come, whatever the queue's, the batch's and the file's   *)
(* limits are and whichever writes fail: file and queue together are the        *)
(* accepted events in their order, the rest is counted, and neither limit is    *)
(* passed (append, flush and stop of the research journal).                     *)
THEOREM ResearchRecorded == ResearchSpec => []ResearchWhole
<1>1. ResearchInv => ResearchWhole
    BY DEF ResearchInv, WholeJournal, Numbered, ResearchWhole
<1> QED
    BY ResearchInvariant, <1>1, PTL

-----------------------------------------------------------------------------
(* The fills. Of every order the journal reaches some quantity: that of its last *)
(* fill, or none. It is never more than was seen of the order, and all of that  *)
(* as long as no fill was refused; a restart goes back to it.                   *)
Fill == [order : Orders, delta : Nat, price : Int, cumulative : Nat]

Entry == [order : Orders, quantity : Nat, price : Int]

FillTypes ==
    /\ executions \in [Orders -> Seq(Nat)] /\ seen \in [Orders -> Nat]
    /\ fills \in Seq(Fill) /\ history \subseteq Entry

HistoryNew ==
    /\ \A e \in history : seen[e.order] < e.quantity /\ e.quantity <= Executed(e.order)
    /\ \A e, f \in history : e.order = f.order => e = f

FillsApart ==
    \A i, j \in DOMAIN fills :
        i < j /\ fills[i].order = fills[j].order =>
            fills[i].cumulative <= fills[j].cumulative - fills[j].delta

DeltasOf(q, o) == [i \in DOMAIN q |-> IF q[i].order = o THEN q[i].delta ELSE 0]

ReachesTo(o, m) ==
    /\ m = 0 \/ \E i \in DOMAIN fills : fills[i].order = o /\ fills[i].cumulative = m
    /\ \A i \in DOMAIN fills : fills[i].order = o => fills[i].cumulative <= m

ReachedWith(o, m) ==
    /\ ReachesTo(o, m) /\ m <= seen[o] /\ seen[o] <= Executed(o)
    /\ ~unwritten => m = seen[o] /\ m = Total(DeltasOf(fills, o))

Reached == \A o \in Orders : \E m \in Nat : ReachedWith(o, m)

FillsInv == FillTypes /\ HistoryNew /\ FillsApart /\ Reached

LEMMA ReplayedIs ==
    ASSUME FillTypes, NEW o \in Orders, NEW m \in Nat, ReachesTo(o, m)
    PROVE  Replayed[o] = m
<1> DEFINE s == {0} \cup {fills[i].cumulative : i \in FillsOf(o)}
<1>1. \A i \in DOMAIN fills : fills[i] \in Fill
    BY ElementIn DEF FillTypes
<1>2. s \subseteq Int
    BY <1>1 DEF FillsOf, Fill
<1>3. m \in s /\ \A x \in s : m >= x
    BY DEF ReachesTo, FillsOf
<1>4. Max(s) = m
    <2> HIDE DEF s
    <2> QED
        BY <1>2, <1>3, MaxIs
<1> QED
    BY <1>4 DEF Replayed

LEMMA DeltasAppend ==
    ASSUME NEW q \in Seq(Fill), NEW f \in Fill, NEW o \in Orders
    PROVE  /\ Total(DeltasOf(q, o)) \in Int
           /\ Total(DeltasOf(Append(q, f), o)) =
                 Total(DeltasOf(q, o)) + IF f.order = o THEN f.delta ELSE 0
<1> DEFINE x == IF f.order = o THEN f.delta ELSE 0
           n == Len(q)
<1>1. x \in Int
    BY DEF Fill
<1>2. n \in Nat /\ DOMAIN q = 1..n /\ \A i \in 1..n : q[i] \in Fill
    BY ElementIn
<1>3. \A i \in 1..n : q[i].delta \in Int
    BY <1>2 DEF Fill
<1>4. DeltasOf(q, o) \in Seq(Int) /\ Len(DeltasOf(q, o)) = n
    BY <1>2, <1>3 DEF DeltasOf
<1>5. DeltasOf(Append(q, f), o) = Append(DeltasOf(q, o), x)
    BY <1>2 DEF DeltasOf
<1> HIDE DEF x
<1>6. Total(DeltasOf(Append(q, f), o)) = Total(DeltasOf(q, o)) + x /\ Total(DeltasOf(q, o)) \in Int
    BY <1>1, <1>4, <1>5, TotalAppend
<1> QED
    BY <1>6 DEF x

LEMMA FillsStart == FillsInit => FillsInv
<1> SUFFICES ASSUME FillsInit PROVE FillsInv
    OBVIOUS
<1>1. FillTypes
    BY DEF FillsInit, FillTypes
<1>2. HistoryNew /\ FillsApart
    BY DEF FillsInit, HistoryNew, FillsApart
<1>3. \A o \in Orders : DeltasOf(fills, o) = <<>>
    BY DEF FillsInit, DeltasOf
<1>4. Reached
    BY <1>3, TotalEmpty DEF FillsInit, Reached, ReachedWith, ReachesTo, Executed
<1> QED
    BY <1>1, <1>2, <1>4 DEF FillsInv

LEMMA ExecuteKeeps ==
    ASSUME FillsInv, NEW o \in Orders, NEW p \in Prices, Execute(o, p)
    PROVE  FillsInv'
<1>1. UNCHANGED <<history, seen, fills, resetAt, unwritten>>
    BY DEF Execute
<1>2. p \in Nat
    <2>1. Executed(o) \in Nat /\ Executed(o) < MaxQuantity
        BY DEF Execute, Executed, FillsInv, FillTypes
    <2>2. 1 \in 1..MaxQuantity
        BY <2>1, TrackerAssumption
    <2> QED
        BY <2>2, TrackerAssumption
<1>3. executions' \in [Orders -> Seq(Nat)] /\ \A x \in Orders : Executed(x)' >= Executed(x)
    <2>1. executions \in [Orders -> Seq(Nat)] /\ executions' = [executions EXCEPT ![o] = Append(executions[o], p)]
        BY DEF Execute, FillsInv, FillTypes
    <2>2. Append(executions[o], p) \in Seq(Nat) /\ Len(Append(executions[o], p)) = Len(executions[o]) + 1
        BY <1>2, <2>1
    <2> QED
        BY <2>1, <2>2 DEF Executed
<1>4. FillTypes' /\ FillsApart'
    BY <1>1, <1>3 DEF FillsInv, FillTypes, FillsApart
<1>5. \A x \in Orders : Executed(x) \in Nat /\ Executed(x)' \in Nat
    BY <1>3 DEF FillsInv, FillTypes, Executed
<1>6. HistoryNew'
    <2>1. \A e \in history : e.order \in Orders /\ e.quantity \in Nat
        BY DEF FillsInv, FillTypes, Entry
    <2> QED
        BY <1>1, <1>3, <1>5, <2>1 DEF FillsInv, HistoryNew
<1>7. Reached'
    <2> SUFFICES ASSUME NEW x \in Orders PROVE \E m \in Nat : ReachedWith(x, m)'
        BY DEF Reached
    <2>1. PICK m \in Nat : ReachedWith(x, m)
        BY DEF FillsInv, Reached
    <2>2. seen[x] \in Nat /\ fills' = fills /\ seen' = seen /\ unwritten' = unwritten
        BY <1>1 DEF FillsInv, FillTypes
    <2>3. ReachedWith(x, m)'
        BY <1>3, <1>5, <2>1, <2>2 DEF ReachedWith, ReachesTo
    <2> QED
        BY <2>3
<1> QED
    BY <1>4, <1>6, <1>7 DEF FillsInv

LEMMA BeginKeeps ==
    ASSUME FillsInv, BeginRecord
    PROVE  FillsInv'
<1>1. UNCHANGED <<executions, seen, fills, resetAt, unwritten>>
    BY DEF BeginRecord
<1>2. \A o \in Orders : Executed(o) \in Nat /\ seen[o] \in Nat
    BY DEF FillsInv, FillTypes, Executed
<1> DEFINE Priced(o) == Amount({o}) \div Executed(o)
           Late == {o \in Orders : Executed(o) > seen[o]}
<1>3. history' = {[order |-> o, quantity |-> Executed(o), price |-> Priced(o)] : o \in Late}
    BY DEF BeginRecord
<1>4. \A o \in Late : Priced(o) \in Int
    <2> SUFFICES ASSUME NEW o \in Late PROVE Priced(o) \in Int
        OBVIOUS
    <2>1. \A x \in Orders : Total(executions[x]) \in Nat
        BY TotalNat DEF FillsInv, FillTypes
    <2>2. [x \in Orders |-> IF x \in {o} THEN Total(executions[x]) ELSE 0] \in Seq(Nat)
        BY <2>1, TrackerAssumption DEF Orders
    <2>3. Amount({o}) \in Nat
        BY <2>2, TotalNat DEF Amount
    <2>4. Executed(o) \in Nat \ {0}
        BY <1>2
    <2> QED
        BY <2>3, <2>4
<1> HIDE DEF Priced
<1>5. \A e \in history' : \E o \in Late : /\ e.order = o /\ e.quantity = Executed(o)
                                        /\ e = [order |-> o, quantity |-> Executed(o), price |-> Priced(o)]
    BY <1>3
<1>6. history' \subseteq Entry
    BY <1>2, <1>4, <1>5 DEF Entry
<1>7. FillTypes' /\ FillsApart'
    BY <1>1, <1>6 DEF FillsInv, FillTypes, FillsApart
<1>8. HistoryNew'
    <2>1. \A e \in history' : seen'[e.order] < e.quantity /\ e.quantity <= Executed(e.order)'
        BY <1>1, <1>2, <1>5 DEF Executed
    <2>2. \A e, f \in history' : e.order = f.order => e = f
        BY <1>5
    <2> QED
        BY <2>1, <2>2 DEF HistoryNew
<1>9. Reached'
    BY <1>1 DEF FillsInv, Reached, ReachedWith, ReachesTo, Executed
<1> QED
    BY <1>7, <1>8, <1>9 DEF FillsInv

(* What the history says of an order that is taken from it. *)
LEMMA EntryFacts ==
    ASSUME FillsInv, NEW entry \in history
    PROVE  /\ entry \in Entry /\ entry.order \in Orders /\ entry.quantity \in Nat
           /\ entry.price \in Int /\ seen[entry.order] \in Nat
           /\ seen[entry.order] < entry.quantity /\ entry.quantity <= Executed(entry.order)
           /\ \A e \in history \ {entry} : e.order # entry.order
BY DEF FillsInv, FillTypes, HistoryNew, Entry

(* The quantities seen once it has been taken. *)
LEMMA NotedKeeps ==
    ASSUME FillsInv, NEW entry \in history,
           seen' = [seen EXCEPT ![entry.order] = entry.quantity],
           history' \subseteq history \ {entry}, UNCHANGED executions
    PROVE  /\ seen' \in [Orders -> Nat] /\ history' \subseteq Entry /\ HistoryNew'
           /\ seen'[entry.order] = entry.quantity
           /\ \A o \in Orders : Executed(o)' = Executed(o)
           /\ \A o \in Orders \ {entry.order} : seen'[o] = seen[o]
<1>1. /\ entry.order \in Orders /\ entry.quantity \in Nat
      /\ \A e \in history \ {entry} : e.order # entry.order
    BY EntryFacts
<1>2. seen \in [Orders -> Nat] /\ history \subseteq Entry
    BY DEF FillsInv, FillTypes
<1>3. /\ seen' \in [Orders -> Nat] /\ seen'[entry.order] = entry.quantity
      /\ \A o \in Orders \ {entry.order} : seen'[o] = seen[o]
    BY <1>1, <1>2
<1>4. \A o \in Orders : Executed(o)' = Executed(o)
    BY DEF Executed
<1>5. \A e \in history : e.order \in Orders
    BY <1>2 DEF Entry
<1>6. HistoryNew'
    BY <1>1, <1>3, <1>4, <1>5 DEF HistoryNew, FillsInv
<1> QED
    BY <1>2, <1>3, <1>4, <1>6

LEMMA RecordKeeps ==
    ASSUME FillsInv, RecordFill
    PROVE  FillsInv'
<1>1. PICK entry \in history :
         /\ fills' = Append(fills, FillOf(entry))
         /\ seen' = [seen EXCEPT ![entry.order] = entry.quantity]
         /\ history' = history \ {entry}
         /\ UNCHANGED <<executions, resetAt, unwritten>>
    BY DEF RecordFill
<1>2. /\ entry.order \in Orders /\ entry.quantity \in Nat /\ entry.price \in Int
      /\ seen[entry.order] \in Nat /\ seen[entry.order] < entry.quantity
      /\ entry.quantity <= Executed(entry.order)
    BY EntryFacts
<1>3. /\ seen' \in [Orders -> Nat] /\ history' \subseteq Entry /\ HistoryNew'
      /\ seen'[entry.order] = entry.quantity
      /\ \A o \in Orders : Executed(o)' = Executed(o)
      /\ \A o \in Orders \ {entry.order} : seen'[o] = seen[o]
    BY <1>1, NotedKeeps
<1> DEFINE f == FillOf(entry)
           n == Len(fills)
<1>4. /\ f \in Fill /\ f.order = entry.order /\ f.cumulative = entry.quantity
      /\ f.delta = entry.quantity - seen[entry.order]
    <2>1. entry.quantity - seen[entry.order] \in Nat
        BY <1>2
    <2> QED
        BY <1>2, <2>1 DEF FillOf, Fill
<1> HIDE DEF f
<1>5. /\ fills \in Seq(Fill) /\ n \in Nat /\ DOMAIN fills = 1..n
      /\ fills' \in Seq(Fill) /\ DOMAIN fills' = 1..(n + 1) /\ fills'[n + 1] = f
      /\ \A i \in 1..n : fills'[i] = fills[i]
    <2>1. fills \in Seq(Fill) /\ n \in Nat /\ DOMAIN fills = 1..n
        BY DEF FillsInv, FillTypes
    <2>2. fills' = Append(fills, f)
        BY <1>1 DEF f
    <2>3. /\ fills' \in Seq(Fill) /\ DOMAIN fills' = 1..(n + 1) /\ fills'[n + 1] = f
          /\ \A i \in 1..n : fills'[i] = fills[i]
        BY <1>4, <2>1, <2>2
    <2> QED
        BY <2>1, <2>3
<1> HIDE DEF n
<1>6. \A i \in 1..n : fills[i] \in Fill /\ fills[i].cumulative \in Nat
    <2>1. \A i \in 1..n : fills[i] \in Fill
        BY <1>5, ElementIn DEF n
    <2> QED
        BY <2>1 DEF Fill
<1>7. FillTypes'
    BY <1>1, <1>3, <1>5 DEF FillsInv, FillTypes
<1>8. PICK m \in Nat : ReachedWith(entry.order, m)
    BY <1>2 DEF FillsInv, Reached
<1>9. \A i \in 1..n : fills[i].order = entry.order => fills[i].cumulative <= seen[entry.order]
    BY <1>2, <1>5, <1>6, <1>8 DEF ReachedWith, ReachesTo
<1>10. FillsApart'
    <2> SUFFICES ASSUME NEW i \in 1..(n + 1), NEW j \in 1..(n + 1), i < j,
                        fills'[i].order = fills'[j].order
                 PROVE  fills'[i].cumulative <= fills'[j].cumulative - fills'[j].delta
        BY <1>5 DEF FillsApart
    <2>1. CASE j \in 1..n
        <3>1. i \in 1..n
            BY <1>5, <2>1
        <3> QED
            BY <1>5, <2>1, <3>1 DEF FillsInv, FillsApart
    <2>2. CASE j = n + 1
        <3>1. i \in 1..n /\ fills'[j] = f /\ fills'[i] = fills[i]
            BY <1>5, <2>2
        <3>2. f.cumulative - f.delta = seen[entry.order]
            BY <1>2, <1>4
        <3> QED
            BY <1>4, <1>9, <3>1, <3>2
    <2> QED
        BY <1>5, <2>1, <2>2
<1>11. ASSUME NEW o \in Orders
       PROVE  \E k \in Nat : ReachedWith(o, k)'
    <2>1. /\ Total(DeltasOf(fills, o)) \in Int
          /\ Total(DeltasOf(fills, o))' = Total(DeltasOf(fills, o)) + IF f.order = o THEN f.delta ELSE 0
        <3>1. Total(DeltasOf(fills, o))' = Total(DeltasOf(fills', o))
            BY DEF DeltasOf
        <3>2. fills' = Append(fills, f)
            BY <1>1 DEF f
        <3> QED
            BY <1>4, <1>5, <3>1, <3>2, DeltasAppend
    <2>2. CASE o = entry.order
        <3>1. ReachesTo(o, entry.quantity)'
            <4>1. n + 1 \in DOMAIN fills' /\ fills'[n + 1].order = o
                  /\ fills'[n + 1].cumulative = entry.quantity
                BY <1>4, <1>5, <2>2
            <4>2. ASSUME NEW i \in 1..(n + 1), fills'[i].order = o
                  PROVE  fills'[i].cumulative <= entry.quantity
                <5>1. CASE i = n + 1
                    BY <1>2, <4>1, <5>1
                <5>2. CASE i \in 1..n
                    <6>1. fills[i].cumulative <= seen[entry.order] /\ fills'[i] = fills[i]
                        BY <1>5, <1>9, <2>2, <4>2, <5>2
                    <6> QED
                        BY <1>2, <1>6, <5>2, <6>1
                <5> QED
                    BY <1>5, <5>1, <5>2
            <4> QED
                BY <1>5, <4>1, <4>2 DEF ReachesTo
        <3>2. seen'[o] = entry.quantity /\ seen'[o] <= Executed(o)'
            BY <1>2, <1>3, <2>2
        <3>3. ASSUME ~unwritten' PROVE entry.quantity = Total(DeltasOf(fills, o))'
            <4>1. Total(DeltasOf(fills, o)) = seen[o]
                BY <1>1, <1>8, <2>2, <3>3 DEF ReachedWith
            <4> QED
                BY <1>2, <1>4, <2>1, <2>2, <4>1
        <3>4. ReachedWith(o, entry.quantity)'
            BY <1>2, <3>1, <3>2, <3>3 DEF ReachedWith
        <3> QED
            BY <1>2, <3>4
    <2>3. CASE o # entry.order
        <3>1. PICK k \in Nat : ReachedWith(o, k)
            BY DEF FillsInv, Reached
        <3>2. ReachesTo(o, k)'
            BY <1>4, <1>5, <2>3, <3>1 DEF ReachedWith, ReachesTo
        <3>3. seen'[o] = seen[o] /\ Executed(o)' = Executed(o) /\ unwritten' = unwritten
            BY <1>1, <1>3, <2>3
        <3>4. Total(DeltasOf(fills, o))' = Total(DeltasOf(fills, o))
            BY <1>4, <2>1, <2>3
        <3>5. ReachedWith(o, k)'
            BY <3>1, <3>2, <3>3, <3>4 DEF ReachedWith
        <3> QED
            BY <3>5
    <2> QED
        BY <2>2, <2>3
<1> QED
    BY <1>3, <1>7, <1>10, <1>11 DEF FillsInv, Reached

LEMMA FailKeeps ==
    ASSUME FillsInv, AppendFails
    PROVE  FillsInv'
<1>1. PICK entry \in history :
         /\ seen' = [seen EXCEPT ![entry.order] = entry.quantity]
         /\ history' = {} /\ unwritten' = TRUE
         /\ UNCHANGED <<executions, fills, resetAt>>
    BY DEF AppendFails
<1>2. /\ entry.order \in Orders /\ entry.quantity \in Nat /\ seen[entry.order] \in Nat
      /\ seen[entry.order] < entry.quantity /\ entry.quantity <= Executed(entry.order)
    BY EntryFacts
<1>3. /\ seen' \in [Orders -> Nat] /\ history' \subseteq Entry /\ HistoryNew'
      /\ seen'[entry.order] = entry.quantity
      /\ \A o \in Orders : Executed(o)' = Executed(o)
      /\ \A o \in Orders \ {entry.order} : seen'[o] = seen[o]
    BY <1>1, NotedKeeps
<1>4. FillTypes' /\ FillsApart'
    BY <1>1, <1>3 DEF FillsInv, FillTypes, FillsApart
<1>5. ASSUME NEW o \in Orders
      PROVE  \E k \in Nat : ReachedWith(o, k)'
    <2>1. PICK k \in Nat : ReachedWith(o, k)
        BY DEF FillsInv, Reached
    <2>2. ReachesTo(o, k)'
        <3>1. fills' = fills
            BY <1>1
        <3> QED
            BY <2>1, <3>1 DEF ReachedWith, ReachesTo
    <2>3. k <= seen'[o] /\ seen'[o] <= Executed(o)'
        BY <1>2, <1>3, <2>1 DEF ReachedWith
    <2> QED
        BY <1>1, <2>2, <2>3 DEF ReachedWith
<1> QED
    BY <1>3, <1>4, <1>5 DEF FillsInv, Reached

LEMMA RestartKeeps ==
    ASSUME FillsInv, Restart
    PROVE  FillsInv'
<1>1. seen' = Replayed /\ history' = {} /\ executions' = executions /\ fills' = fills
      /\ unwritten' = unwritten
    BY DEF Restart
<1>2. ASSUME NEW o \in Orders PROVE Replayed[o] \in Nat
    <2>1. PICK m \in Nat : ReachedWith(o, m)
        BY DEF FillsInv, Reached
    <2> QED
        BY <2>1, ReplayedIs DEF FillsInv, ReachedWith
<1>3. FillTypes' /\ FillsApart' /\ HistoryNew'
    <2>1. seen' \in [Orders -> Nat]
        <3>1. Replayed = [o \in Orders |-> Replayed[o]]
            BY DEF Replayed
        <3> QED
            BY <1>1, <1>2, <3>1
    <2> QED
        BY <1>1, <2>1 DEF FillsInv, FillTypes, FillsApart, HistoryNew
<1>4. Reached'
    <2> SUFFICES ASSUME NEW o \in Orders PROVE \E m \in Nat : ReachedWith(o, m)'
        BY DEF Reached
    <2>1. PICK m \in Nat : ReachedWith(o, m)
        BY DEF FillsInv, Reached
    <2>2. Replayed[o] = m
        BY <2>1, ReplayedIs DEF FillsInv, ReachedWith
    <2>3. ReachesTo(o, m)'
        BY <1>1, <2>1 DEF ReachedWith, ReachesTo
    <2>4. seen[o] \in Nat /\ Executed(o) \in Nat /\ Executed(o)' = Executed(o)
        BY <1>1 DEF FillsInv, FillTypes, Executed
    <2>5. seen'[o] = m
        BY <1>1, <2>2
    <2>6. Total(DeltasOf(fills, o))' = Total(DeltasOf(fills, o))
        <3>1. DeltasOf(fills, o)' = DeltasOf(fills, o)
            BY <1>1 DEF DeltasOf
        <3> QED
            BY <3>1
    <2>7. ReachedWith(o, m)'
        BY <1>1, <2>1, <2>3, <2>4, <2>5, <2>6 DEF ReachedWith
    <2> QED
        BY <2>7
<1> QED
    BY <1>3, <1>4 DEF FillsInv

(* The invariant of the fills. *)
THEOREM FillsInvariant == FillsSpec => []FillsInv
<1>1. FillsInv /\ [FillsNext]_fillVars => FillsInv'
    <2> SUFFICES ASSUME FillsInv, [FillsNext]_fillVars PROVE FillsInv'
        OBVIOUS
    <2>1. CASE UNCHANGED fillVars \/ SetResetAt
        <3>1. /\ executions' = executions /\ seen' = seen /\ fills' = fills
              /\ history' = history /\ unwritten' = unwritten
            BY <2>1 DEF fillVars, SetResetAt
        <3>2. FillTypes' /\ FillsApart' /\ HistoryNew'
            BY <3>1 DEF FillsInv, FillTypes, FillsApart, HistoryNew, Executed
        <3>3. ASSUME NEW o \in Orders, NEW m \in Nat, ReachedWith(o, m)
              PROVE  ReachedWith(o, m)'
            <4>1. DeltasOf(fills, o)' = DeltasOf(fills, o) /\ Executed(o)' = Executed(o)
                BY <3>1 DEF DeltasOf, Executed
            <4> QED
                BY <3>1, <3>3, <4>1 DEF ReachedWith, ReachesTo
        <3> QED
            BY <3>2, <3>3 DEF FillsInv, Reached
    <2>2. CASE \E o \in Orders, p \in Prices : Execute(o, p)
        BY <2>2, ExecuteKeeps
    <2> QED
        BY <2>1, <2>2, BeginKeeps, RecordKeeps, FailKeeps, RestartKeeps DEF FillsNext
<1> QED
    BY FillsStart, <1>1, PTL DEF FillsSpec

(* For any orders, prices and quantities, and through any restarts, refused     *)
(* events and rounds that end early: no execution is in two fills, and none is  *)
(* missed but by a refused event (record and replayJournal of the tracker).     *)
THEOREM FilledOnce == FillsSpec => []FillsOnce
<1>1. FillsInv => FillsOnce
    <2> SUFFICES ASSUME FillsInv PROVE FillsOnce
        OBVIOUS
    <2>1. ASSUME NEW o \in Orders
          PROVE  /\ seen[o] <= Executed(o)
                 /\ ~unwritten => seen[o] = Total(DeltasOf(fills, o))
        BY DEF FillsInv, Reached, ReachedWith
    <2> QED
        BY <2>1 DEF FillsInv, FillsApart, FillsOnce, DeltasOf
<1> QED
    BY FillsInvariant, <1>1, PTL

-----------------------------------------------------------------------------
(* The report of trades. A fold over positions 1..n, one after the other: step  *)
(* is a function, so that it can be named in a lemma.                           *)
Folded(g, base, step, n) ==
    g = [s \in SUBSET (1..n) |-> IF s = {} THEN base ELSE step[g[s \ {Max(s)}], Max(s)]]

LEMMA StepsExist ==
    ASSUME NEW n \in Nat, NEW R, NEW base \in R, NEW step \in [R \X (1..n) -> R]
    PROVE  \E g : Folded(g, base, step, n) /\ \A s \in SUBSET (1..n) : g[s] \in R
<1> DEFINE Fits(g, k) == Folded(g, base, step, k) /\ \A s \in SUBSET (1..k) : g[s] \in R
           Bad == {k \in 0..n : ~ \E g : Fits(g, k)}
<1>1. SUFFICES ASSUME n \in Bad PROVE FALSE
    OBVIOUS
<1>2. PICK k \in Bad : \A j \in Bad : k <= j
    <2>1. Bad \in SUBSET Nat
        OBVIOUS
    <2>2. Bad # {}
        BY <1>1, Zenon
    <2> HIDE DEF Bad
    <2> QED
        BY <2>1, <2>2, LeastOf
<1>3. k # 0
    <2>1. SUBSET (1..0) = {{}}
        OBVIOUS
    <2>2. Fits([s \in {{}} |-> base], 0)
        BY <2>1 DEF Folded
    <2> QED
        BY <1>2, <2>2
<1>4. PICK g : Fits(g, k - 1)
    <2>1. k - 1 \in 0..n /\ k - 1 \notin Bad
        BY <1>2, <1>3
    <2> QED
        BY <2>1
<1> DEFINE h == [s \in SUBSET (1..k) |-> IF k \in s THEN step[g[s \ {k}], k] ELSE g[s]]
<1>5. k \in Nat /\ k >= 1 /\ k \in 1..n
    BY <1>2, <1>3
<1>6. ASSUME NEW s \in SUBSET (1..(k - 1))
      PROVE  /\ s \in SUBSET (1..k) /\ k \notin s /\ g[s] \in R
             /\ g[s] = IF s = {} THEN base ELSE step[g[s \ {Max(s)}], Max(s)]
    <2>1. s \in SUBSET (1..k) /\ k \notin s
        BY <1>5
    <2> QED
        BY <1>4, <2>1 DEF Folded
<1>7. ASSUME NEW s \in SUBSET (1..k)
      PROVE  /\ h[s] = IF s = {} THEN base ELSE step[h[s \ {Max(s)}], Max(s)]
             /\ h[s] \in R
    <2>1. CASE k \in s
        <3>1. Max(s) = k
            <4>1. s \subseteq Int /\ \A x \in s : k >= x
                BY <1>5
            <4> QED
                BY <2>1, <4>1, MaxIs
        <3>2. s \ {k} \in SUBSET (1..(k - 1))
            BY <1>5
        <3>3. h[s \ {k}] = g[s \ {k}] /\ g[s \ {k}] \in R
            BY <1>6, <3>2
        <3>4. h[s] = step[g[s \ {k}], k]
            BY <2>1
        <3>5. step[g[s \ {k}], k] \in R
            BY <1>5, <3>3
        <3> QED
            BY <2>1, <3>1, <3>3, <3>4, <3>5
    <2>2. CASE k \notin s /\ s # {}
        <3>1. s \in SUBSET (1..(k - 1)) /\ k - 1 \in Nat
            BY <1>5, <2>2
        <3>2. s \ {Max(s)} \in SUBSET (1..(k - 1))
            BY <3>1
        <3>3. h[s \ {Max(s)}] = g[s \ {Max(s)}] /\ h[s] = g[s]
            BY <1>6, <3>1, <3>2
        <3> QED
            BY <1>6, <2>2, <3>1, <3>3
    <2>3. CASE s = {}
        <3>1. s \in SUBSET (1..(k - 1))
            BY <2>3
        <3> QED
            BY <1>6, <2>3, <3>1
    <2> QED
        BY <2>1, <2>2, <2>3
<1>8. h = [s \in SUBSET (1..k) |-> IF s = {} THEN base ELSE step[h[s \ {Max(s)}], Max(s)]]
    <2> HIDE DEF h
    <2>1. h = [s \in SUBSET (1..k) |-> h[s]]
        BY DEF h
    <2> QED
        BY <1>7, <2>1
<1>9. \A s \in SUBSET (1..k) : h[s] \in R
    BY <1>7
<1> HIDE DEF h
<1>10. Fits(h, k)
    BY <1>8, <1>9 DEF Folded
<1> QED
    BY <1>2, <1>10

LEMMA LastOfFirst ==
    ASSUME NEW n \in Nat
    PROVE  /\ 1..0 = {} /\ {} \in SUBSET (1..n)
           /\ \A j \in 1..n : /\ Max(1..j) = j /\ (1..j) \ {j} = 1..(j - 1)
                             /\ 1..j # {} /\ 1..j \in SUBSET (1..n)
<1> SUFFICES ASSUME NEW j \in 1..n
             PROVE  /\ Max(1..j) = j /\ (1..j) \ {j} = 1..(j - 1)
                    /\ 1..j # {} /\ 1..j \in SUBSET (1..n)
    OBVIOUS
<1>1. Max(1..j) = j
    <2>1. j \in 1..j /\ 1..j \subseteq Int /\ \A x \in 1..j : j >= x
        OBVIOUS
    <2> QED
        BY <2>1, MaxIs
<1>2. (1..j) \ {j} = 1..(j - 1) /\ 1..j # {}
    <2>1. \A x : x \in (1..j) \ {j} <=> x \in 1..(j - 1)
        OBVIOUS
    <2>2. j \in 1..j
        OBVIOUS
    <2> QED
        BY <2>1, <2>2, Zenon
<1>3. 1..j \in SUBSET (1..n)
    OBVIOUS
<1> QED
    BY <1>1, <1>2, <1>3

(* The running sums of a sequence. *)
Running(r, q) ==
    /\ r \in [0..Len(q) -> Int] /\ r[0] = 0
    /\ \A k \in 1..Len(q) : r[k] = r[k - 1] + q[k]

LEMMA RunningExists ==
    ASSUME NEW q \in Seq(Int)
    PROVE  \E r : Running(r, q) /\ Total(q) = r[Len(q)]
<1>1. Len(q) \in Nat /\ q \in [1..Len(q) -> Int]
    OBVIOUS
<1>2. PICK g : Upto(g, q, Len(q)) /\ Total(q) = g[1..Len(q)]
    BY TotalIs
<1>3. \A j \in 1..Len(q) : g[1..j] = g[1..(j - 1)] + q[j]
    BY <1>1, <1>2, UptoStep
<1> DEFINE r == [k \in 0..Len(q) |-> g[1..k]]
<1>4. g[1..0] = 0
    <2>1. 1..0 = {} /\ {} \in SUBSET (1..Len(q))
        OBVIOUS
    <2> QED
        BY <1>2, <2>1, Zenon DEF Upto
<1>5. ASSUME NEW k \in 0..Len(q) PROVE g[1..k] \in Int
    BY <1>1, <1>2, UptoAgree
<1>6. Running(r, q)
    <2>1. r \in [0..Len(q) -> Int]
        BY <1>5
    <2>2. r[0] = 0
        BY <1>1, <1>4
    <2>3. \A k \in 1..Len(q) : r[k] = r[k - 1] + q[k]
        BY <1>1, <1>3
    <2> QED
        BY <2>1, <2>2, <2>3 DEF Running
<1>7. Total(q) = r[Len(q)]
    BY <1>1, <1>2
<1> QED
    BY <1>6, <1>7

(* A total is the difference of any running sums of its terms. *)
LEMMA TotalBetween ==
    ASSUME NEW q \in Seq(Int), NEW a \in Nat, NEW r,
           \A k \in 0..Len(q) : r[a + k] \in Int,
           \A k \in 1..Len(q) : r[a + k] = r[a + k - 1] + q[k]
    PROVE  Total(q) = r[a + Len(q)] - r[a]
<1>1. Len(q) \in Nat
    OBVIOUS
<1>2. PICK s : Running(s, q) /\ Total(q) = s[Len(q)]
    BY RunningExists
<1> DEFINE n == Len(q)
           Bad == {k \in 0..n : s[k] # r[a + k] - r[a]}
<1> HIDE DEF n
<1>3. n \notin Bad
    <2> SUFFICES ASSUME Bad # {} PROVE FALSE
        OBVIOUS
    <2>1. PICK k \in Bad : \A j \in Bad : k <= j
        <3>1. Bad \in SUBSET Nat
            BY <1>1 DEF n
        <3> HIDE DEF Bad
        <3> QED
            BY <3>1, LeastOf
    <2>2. k # 0
        <3>1. s[0] = 0 /\ a + 0 = a /\ r[a + 0] \in Int
            BY <1>1, <1>2 DEF Running, n
        <3> QED
            BY <2>1, <3>1
    <2>3. k \in 1..n /\ k - 1 \in 0..n /\ k - 1 \notin Bad /\ k \in Nat /\ k \in 0..n
        BY <1>1, <2>1, <2>2 DEF n
    <2>4. s[k - 1] = r[a + (k - 1)] - r[a]
        BY <2>3
    <2>5. s[k] = s[k - 1] + q[k] /\ r[a + k] = r[a + k - 1] + q[k] /\ q[k] \in Int
        BY <1>2, <2>3 DEF Running, n
    <2>6. a + (k - 1) = a + k - 1 /\ r[a + (k - 1)] \in Int /\ r[a] \in Int
        <3>1. 0 \in 0..n /\ a + 0 = a
            BY <1>1 DEF n
        <3> QED
            BY <2>3, <3>1 DEF n
    <2>7. s[k] = r[a + k] - r[a]
        BY <2>4, <2>5, <2>6
    <2> QED
        BY <2>1, <2>7
<1> QED
    BY <1>1, <1>2, <1>3 DEF n

(* What FlattenSeq gives: of the pieces h[k], the first k joined, each piece at *)
(* the place f that the lengths before it add up to.                            *)
Placed(whole, piece, at) == \A x \in 1..Len(piece) : whole[at + x] = piece[x]

Flat(h, f, seqs, S, n) ==
    /\ h \in [0..n -> Seq(S)] /\ f \in [0..n -> Nat]
    /\ h[0] = <<>> /\ f[0] = 0
    /\ \A k \in 1..n : h[k] = h[k - 1] \o seqs[k] /\ f[k] = f[k - 1] + Len(seqs[k])
    /\ \A k \in 0..n : Len(h[k]) = f[k]
    /\ \A k \in 1..n : \A i \in 1..k : Placed(h[k], seqs[i], f[i - 1]) /\ f[i] <= f[k]

LEMMA PlacedJoined ==
    ASSUME NEW S, NEW q \in Seq(S), NEW r \in Seq(S)
    PROVE  /\ q \o r \in Seq(S) /\ Len(q \o r) = Len(q) + Len(r) /\ Placed(q \o r, r, Len(q))
           /\ \A p \in Seq(S) : \A at \in Nat :
                Placed(q, p, at) /\ at + Len(p) <= Len(q) => Placed(q \o r, p, at)
<1>1. q \o r \in Seq(S) /\ Len(q \o r) = Len(q) + Len(r)
    OBVIOUS
<1>2. Placed(q \o r, r, Len(q))
    BY DEF Placed
<1>3. ASSUME NEW p \in Seq(S), NEW at \in Nat, Placed(q, p, at), at + Len(p) <= Len(q),
             NEW x \in 1..Len(p)
      PROVE  (q \o r)[at + x] = p[x]
    <2>1. at + x \in 1..Len(q)
        <3>1. Len(p) \in Nat /\ Len(q) \in Nat
            OBVIOUS
        <3> QED
            BY <1>3, <3>1
    <2>2. (q \o r)[at + x] = q[at + x]
        BY <2>1, Joined
    <2> QED
        BY <1>3, <2>2 DEF Placed
<1> QED
    BY <1>1, <1>2, <1>3 DEF Placed

LEMMA NothingJoined ==
    ASSUME NEW S, NEW q \in Seq(S)
    PROVE  <<>> \o q = q
    OBVIOUS

LEMMA FlatExists ==
    ASSUME NEW n \in Nat, NEW S, NEW seqs \in [1..n -> Seq(S)]
    PROVE  \E h, f : Flat(h, f, seqs, S, n)
<1> DEFINE Bad == {k \in 0..n : ~ \E h, f : Flat(h, f, seqs, S, k)}
<1>1. SUFFICES ASSUME n \in Bad PROVE FALSE
    OBVIOUS
<1>2. PICK k \in Bad : \A j \in Bad : k <= j
    <2>1. Bad \in SUBSET Nat
        OBVIOUS
    <2>2. Bad # {}
        BY <1>1, Zenon
    <2> HIDE DEF Bad
    <2> QED
        BY <2>1, <2>2, LeastOf
<1>3. k # 0
    <2>1. Flat([j \in 0..0 |-> <<>>], [j \in 0..0 |-> 0], seqs, S, 0)
        BY DEF Flat
    <2> QED
        BY <1>2, <2>1
<1> DEFINE p == k - 1
<1>4. PICK g, e : Flat(g, e, seqs, S, p)
    <2>1. k - 1 \in 0..n /\ k - 1 < k
        BY <1>2, <1>3
    <2>2. k - 1 \notin Bad
        <3>1. k \in Int
            BY <1>2
        <3> HIDE DEF Bad
        <3> QED
            BY <1>2, <2>1, <3>1
    <2> QED
        BY <2>1, <2>2
<1>5. k \in Nat /\ p \in Nat /\ k = p + 1 /\ k \in 1..n /\ p \in 0..p /\ seqs[k] \in Seq(S)
    BY <1>2, <1>3
<1>6. ~ \E h, f : Flat(h, f, seqs, S, k)
    BY <1>2
<1> HIDE DEF p, Bad
<1>7. g[p] \in Seq(S) /\ e[p] \in Nat /\ Len(g[p]) = e[p] /\ Len(seqs[k]) \in Nat
    BY <1>4, <1>5 DEF Flat
<1>16. /\ g[p] \o seqs[k] \in Seq(S) /\ Len(g[p] \o seqs[k]) = e[p] + Len(seqs[k])
       /\ Placed(g[p] \o seqs[k], seqs[k], e[p])
       /\ \A q \in Seq(S) : \A at \in Nat :
            Placed(g[p], q, at) /\ at + Len(q) <= e[p] => Placed(g[p] \o seqs[k], q, at)
    <2>1. PICK a : a = g[p]
        OBVIOUS
    <2>2. PICK b : b = seqs[k]
        OBVIOUS
    <2>3. a \in Seq(S) /\ b \in Seq(S) /\ Len(a) = e[p]
        BY <1>5, <1>7, <2>1, <2>2
    <2>4. /\ a \o b \in Seq(S) /\ Len(a \o b) = Len(a) + Len(b) /\ Placed(a \o b, b, Len(a))
          /\ \A q \in Seq(S) : \A at \in Nat :
               Placed(a, q, at) /\ at + Len(q) <= Len(a) => Placed(a \o b, q, at)
        BY <2>3, PlacedJoined
    <2> QED
        BY <2>1, <2>2, <2>3, <2>4
<1> DEFINE h == [j \in 0..k |-> IF j = k THEN g[p] \o seqs[k] ELSE g[j]]
           f == [j \in 0..k |-> IF j = k THEN e[p] + Len(seqs[k]) ELSE e[j]]
<1>8. /\ h \in [0..k -> Seq(S)] /\ f \in [0..k -> Nat]
      /\ h[k] = g[p] \o seqs[k] /\ f[k] = e[p] + Len(seqs[k])
      /\ \A j \in 0..p : h[j] = g[j] /\ f[j] = e[j]
    <2>1. g[p] \o seqs[k] \in Seq(S) /\ e[p] + Len(seqs[k]) \in Nat
        BY <1>5, <1>7
    <2>2. \A j \in 0..k : j # k => j \in 0..p
        BY <1>5
    <2>3. \A j \in 0..p : g[j] \in Seq(S) /\ e[j] \in Nat
        BY <1>4 DEF Flat
    <2>4. \A j \in 0..p : j \in 0..k /\ j # k
        BY <1>5
    <2>5. k \in 0..k
        BY <1>5
    <2> QED
        BY <2>1, <2>2, <2>3, <2>4, <2>5
<1> HIDE DEF h, f
<1>9. \A j \in 1..k : (j = k \/ j \in 1..p) /\ j \in 0..k /\ j - 1 \in 0..p
    BY <1>5
<1>10. \A j \in 1..p : j \in 0..p
    BY <1>5
<1>11. h[0] = <<>> /\ f[0] = 0
    <2>1. 0 \in 0..p
        BY <1>5
    <2> QED
        BY <1>4, <1>8, <2>1 DEF Flat
<1>12. \A j \in 1..k : h[j] = h[j - 1] \o seqs[j] /\ f[j] = f[j - 1] + Len(seqs[j])
    <2>1. \A j \in 1..p : g[j] = g[j - 1] \o seqs[j] /\ e[j] = e[j - 1] + Len(seqs[j])
        BY <1>4 DEF Flat
    <2>2. k - 1 = p
        BY <1>5
    <2> QED
        BY <1>5, <1>8, <1>9, <1>10, <2>1, <2>2
<1>13. \A j \in 0..k : Len(h[j]) = f[j]
    <2>1. \A j \in 0..k : j = k \/ j \in 0..p
        BY <1>5
    <2>2. Len(h[k]) = f[k]
        BY <1>8, <1>16
    <2>3. \A j \in 0..p : Len(g[j]) = e[j]
        BY <1>4 DEF Flat
    <2> QED
        BY <1>8, <2>1, <2>2, <2>3
<1>14. ASSUME NEW j \in 1..k, NEW i \in 1..j
       PROVE  Placed(h[j], seqs[i], f[i - 1]) /\ f[i] <= f[j]
    <2>1. CASE j # k
        <3>1. j \in 1..p /\ i \in 1..p /\ i - 1 \in 0..p /\ i \in 0..p /\ j \in 0..p
            BY <1>5, <2>1
        <3>2. Placed(g[j], seqs[i], e[i - 1]) /\ e[i] <= e[j]
            BY <1>4, <3>1 DEF Flat
        <3> QED
            BY <1>8, <3>1, <3>2
    <2>2. CASE j = k /\ i # k
        <3>1. i \in 1..p /\ i - 1 \in 0..p /\ p \in 1..p /\ i \in 0..p /\ i \in 1..n
            BY <1>5, <2>2
        <3>2. /\ Placed(g[p], seqs[i], e[i - 1]) /\ e[i] <= e[p] /\ e[i] = e[i - 1] + Len(seqs[i])
              /\ e[i - 1] \in Nat /\ e[i] \in Nat /\ seqs[i] \in Seq(S)
            BY <1>4, <3>1 DEF Flat
        <3>3. Placed(h[k], seqs[i], e[i - 1])
            <4>1. e[i - 1] + Len(seqs[i]) <= e[p]
                BY <3>2
            <4> QED
                BY <1>8, <1>16, <3>2, <4>1
        <3>4. e[i] <= f[k]
            BY <1>7, <1>8, <3>2
        <3> QED
            BY <1>8, <2>2, <3>1, <3>3, <3>4
    <2>3. CASE j = k /\ i = k
        <3>1. Placed(h[k], seqs[k], e[p]) /\ f[k - 1] = e[p] /\ f[k] \in Nat
            BY <1>5, <1>8, <1>16
        <3> QED
            BY <2>3, <3>1
    <2> QED
        BY <2>1, <2>2, <2>3
<1>15. Flat(h, f, seqs, S, k)
    BY <1>8, <1>11, <1>12, <1>13, <1>14 DEF Flat
<1> QED
    BY <1>6, <1>15

(* Places of the pieces in the whole. *)
Places(f, seqs, whole) ==
    /\ f \in [0..Len(seqs) -> Nat] /\ f[0] = 0 /\ Len(whole) = f[Len(seqs)]
    /\ \A k \in 1..Len(seqs) : /\ f[k] = f[k - 1] + Len(seqs[k]) /\ f[k] <= Len(whole)
                               /\ Placed(whole, seqs[k], f[k - 1])

LEMMA FlattenIs ==
    ASSUME NEW S, NEW seqs \in Seq(Seq(S))
    PROVE  /\ FlattenSeq(seqs) \in Seq(S)
           /\ \E f : Places(f, seqs, FlattenSeq(seqs))
<1> DEFINE n == Len(seqs)
<1>1. n \in Nat /\ seqs \in [1..n -> Seq(S)]
    OBVIOUS
<1>2. PICK h, f : Flat(h, f, seqs, S, n)
    BY <1>1, FlatExists
<1>3. FlattenSeq(seqs) = h[n]
    <2>1. CASE n = 0
        <3>1. seqs = <<>>
            BY <2>1
        <3>2. FlattenSeq(seqs) = seqs
            BY <2>1 DEF FlattenSeq
        <3> QED
            BY <1>2, <2>1, <3>1, <3>2 DEF Flat
    <2>2. CASE n # 0
        <3> DEFINE Fits(g) == g = [i \in 1..n |-> IF i = 1 THEN seqs[i] ELSE g[i - 1] \o seqs[i]]
                   flatten == CHOOSE g : Fits(g)
        <3>1. FlattenSeq(seqs) = flatten[n]
            BY <2>2 DEF FlattenSeq
        <3>2. h[1] = seqs[1]
            <4>1. 1 \in 1..n /\ 1 - 1 = 0
                BY <1>1, <2>2
            <4>2. h[1] = h[1 - 1] \o seqs[1] /\ h[0] = <<>> /\ seqs[1] \in Seq(S)
                BY <1>1, <1>2, <4>1 DEF Flat
            <4>3. <<>> \o seqs[1] = seqs[1]
                BY <4>2, NothingJoined
            <4> QED
                BY <4>1, <4>2, <4>3
        <3>3. Fits([i \in 1..n |-> h[i]])
            <4> DEFINE g == [i \in 1..n |-> h[i]]
            <4>1. \A i \in 1..n : i # 1 => i - 1 \in 1..n
                BY <1>1
            <4>2. ASSUME NEW i \in 1..n
                  PROVE  h[i] = IF i = 1 THEN seqs[i] ELSE g[i - 1] \o seqs[i]
                <5>1. i # 1 => g[i - 1] = h[i - 1]
                    BY <4>1
                <5>2. h[i] = h[i - 1] \o seqs[i]
                    BY <1>2 DEF Flat
                <5>3. i = 1 => h[i] = seqs[i]
                    BY <3>2
                <5> HIDE DEF g
                <5> QED
                    BY <5>1, <5>2, <5>3
            <4>3. \A i \in 1..n : h[i] = IF i = 1 THEN seqs[i] ELSE g[i - 1] \o seqs[i]
                BY <4>2
            <4> QED
                BY <4>3, Zenon
        <3>4. Fits(flatten)
            BY <3>3, Zenon
        <3> HIDE DEF flatten
        <3> DEFINE Bad == {k \in 1..n : flatten[k] # h[k]}
        <3>5. Bad = {}
            <4> SUFFICES ASSUME Bad # {} PROVE FALSE
                OBVIOUS
            <4>1. PICK k \in Bad : \A j \in Bad : k <= j
                <5>1. Bad \in SUBSET Nat
                    OBVIOUS
                <5> HIDE DEF Bad
                <5> QED
                    BY <5>1, LeastOf
            <4>2. k \in 1..n /\ flatten[k] # h[k] /\ h[k] = h[k - 1] \o seqs[k]
                BY <1>2, <4>1 DEF Flat
            <4>3. flatten[k] = IF k = 1 THEN seqs[k] ELSE flatten[k - 1] \o seqs[k]
                BY <3>4, <4>2
            <4>4. CASE k = 1
                BY <3>2, <4>2, <4>3, <4>4
            <4>5. CASE k # 1
                <5>1. k - 1 \in 1..n /\ k - 1 \notin Bad
                    BY <1>1, <4>1, <4>2, <4>5
                <5>2. flatten[k - 1] = h[k - 1]
                    BY <5>1
                <5> HIDE DEF Bad, n
                <5> QED
                    BY <4>2, <4>3, <4>5, <5>2
            <4> QED
                BY <4>4, <4>5
        <3>6. n \in 1..n /\ n \notin Bad
            BY <1>1, <2>2, <3>5
        <3> QED
            BY <3>1, <3>6
    <2> QED
        BY <2>1, <2>2
<1>4. /\ f \in [0..n -> Nat] /\ f[0] = 0 /\ Len(h[n]) = f[n] /\ h[n] \in Seq(S)
      /\ \A k \in 1..n : f[k] = f[k - 1] + Len(seqs[k])
      /\ \A k \in 1..n : Placed(h[n], seqs[k], f[k - 1]) /\ f[k] <= f[n]
    <2>1. n \in 0..n /\ (1..n # {} => n \in 1..n)
        BY <1>1
    <2> HIDE DEF n
    <2> QED
        BY <1>2, <2>1 DEF Flat
<1>5. Places(f, seqs, h[n])
    BY <1>4 DEF Places
<1> QED
    BY <1>3, <1>4, <1>5

(* Lots that are the shares a + 1..b of all that were bought.                   *)
Lot == [quantity : Nat \ {0}, price : Int]

Stock(lots, f, prices, a, b) ==
    /\ f \in [0..Len(lots) -> Nat] /\ f[0] = a /\ f[Len(lots)] = b
    /\ \A j \in 1..Len(lots) : f[j] = f[j - 1] + lots[j].quantity
    /\ \A j \in 1..Len(lots) : \A x \in (f[j - 1] + 1)..f[j] : prices[x] = lots[j].price

StockOf(lots, prices, a, b) == lots \in Seq(Lot) /\ \E f : Stock(lots, f, prices, a, b)

LEMMA StockNone ==
    ASSUME NEW prices, NEW a \in Nat
    PROVE  StockOf(<<>>, prices, a, a)
<1>1. Stock(<<>>, [j \in 0..0 |-> a], prices, a, a)
    BY DEF Stock
<1> QED
    BY <1>1 DEF StockOf

LEMMA StockMore ==
    ASSUME NEW lots, NEW prices, NEW a, NEW b \in Nat, StockOf(lots, prices, a, b), NEW lot \in Lot,
           \A x \in (b + 1)..(b + lot.quantity) : prices[x] = lot.price
    PROVE  StockOf(Append(lots, lot), prices, a, b + lot.quantity)
<1> DEFINE n == Len(lots)
           more == Append(lots, lot)
           c == b + lot.quantity
<1>1. PICK f : Stock(lots, f, prices, a, b)
    BY DEF StockOf
<1>2. /\ lots \in Seq(Lot) /\ n \in Nat /\ more \in Seq(Lot) /\ Len(more) = n + 1
      /\ more[n + 1] = lot /\ \A j \in 1..n : more[j] = lots[j]
    BY DEF StockOf
<1>3. lot.quantity \in Nat /\ c \in Nat
    BY DEF Lot
<1> DEFINE g == [j \in 0..(n + 1) |-> IF j = n + 1 THEN c ELSE f[j]]
<1>4. f \in [0..n -> Nat] /\ f[0] = a /\ f[n] = b
    BY <1>1 DEF Stock
<1> HIDE DEF n, more, c
<1>5. /\ g \in [0..(n + 1) -> Nat] /\ g[n + 1] = c /\ \A j \in 0..n : g[j] = f[j]
    BY <1>2, <1>3, <1>4
<1> HIDE DEF g
<1>6. \A j \in 1..(n + 1) : (j = n + 1 /\ j - 1 = n) \/ (j \in 1..n /\ j \in 0..n /\ j - 1 \in 0..n)
    BY <1>2
<1>7. 0 \in 0..n /\ n \in 0..n
    BY <1>2
<1>8. \A j \in 1..n : /\ f[j] = f[j - 1] + lots[j].quantity
                      /\ \A x \in (f[j - 1] + 1)..f[j] : prices[x] = lots[j].price
    BY <1>1 DEF Stock, n
<1>9. \A j \in 1..(n + 1) : g[j] = g[j - 1] + more[j].quantity
    BY <1>2, <1>4, <1>5, <1>6, <1>7, <1>8 DEF c
<1>10. \A j \in 1..(n + 1) : \A x \in (g[j - 1] + 1)..g[j] : prices[x] = more[j].price
    <2> SUFFICES ASSUME NEW j \in 1..(n + 1), NEW x \in (g[j - 1] + 1)..g[j]
                 PROVE  prices[x] = more[j].price
        OBVIOUS
    <2>1. CASE j = n + 1 /\ j - 1 = n
        BY <1>2, <1>4, <1>5, <1>7, <2>1 DEF c
    <2>2. CASE j \in 1..n /\ j \in 0..n /\ j - 1 \in 0..n
        BY <1>2, <1>5, <1>8, <2>2
    <2> QED
        BY <1>6, <2>1, <2>2
<1>11. Stock(more, g, prices, a, c)
    BY <1>2, <1>4, <1>5, <1>7, <1>9, <1>10 DEF Stock
<1> QED
    BY <1>2, <1>11 DEF StockOf, more, c

LEMMA StockWithin ==
    ASSUME NEW lots \in Seq(Lot), NEW f, NEW prices, NEW a, NEW b, Stock(lots, f, prices, a, b)
    PROVE  /\ a \in Nat /\ b \in Nat
           /\ \A j \in 0..Len(lots) : f[j] \in Nat /\ a <= f[j] /\ f[j] <= b
<1> DEFINE n == Len(lots)
<1>1. n \in Nat /\ \A j \in 1..n : lots[j].quantity \in Nat
    <2>1. n \in Nat /\ \A j \in 1..n : lots[j] \in Lot
        OBVIOUS
    <2> QED
        BY <2>1 DEF Lot
<1>2. /\ f \in [0..n -> Nat] /\ f[0] = a /\ f[n] = b
      /\ \A j \in 1..n : f[j] = f[j - 1] + lots[j].quantity
    BY DEF Stock
<1> HIDE DEF n
<1>3. \A j \in 0..n : f[j] \in Nat
    BY <1>2
<1>4. \A j \in 1..n : f[j - 1] <= f[j] /\ j - 1 \in 0..n /\ j \in 0..n
    <2>1. \A j \in 1..n : j - 1 \in 0..n /\ j \in 0..n
        BY <1>1
    <2>2. ASSUME NEW j \in 1..n PROVE f[j - 1] <= f[j]
        <3>1. f[j - 1] \in Nat /\ f[j] \in Nat /\ lots[j].quantity \in Nat
            BY <1>1, <1>3, <2>1
        <3> QED
            BY <1>2, <3>1
    <2> QED
        BY <2>1, <2>2
<1> DEFINE Low == {j \in 0..n : f[j] < a}
           High == {d \in 0..n : f[n - d] > b}
<1>5. Low = {}
    <2> SUFFICES ASSUME Low # {} PROVE FALSE
        OBVIOUS
    <2>1. PICK k \in Low : \A j \in Low : k <= j
        <3>1. Low \in SUBSET Nat
            BY <1>1
        <3> HIDE DEF Low
        <3> QED
            BY <3>1, LeastOf
    <2>2. k \in 0..n /\ f[k] < a /\ k # 0 /\ a \in Nat
        BY <1>1, <1>2, <1>3, <2>1
    <2>3. k \in 1..n /\ k - 1 \in 0..n /\ k - 1 < k
        BY <1>1, <2>2
    <2>4. k - 1 \notin Low
        <3> HIDE DEF Low
        <3> QED
            BY <2>1, <2>3
    <2> QED
        BY <1>3, <1>4, <2>2, <2>3, <2>4
<1>6. High = {}
    <2> SUFFICES ASSUME High # {} PROVE FALSE
        OBVIOUS
    <2>1. PICK d \in High : \A j \in High : d <= j
        <3>1. High \in SUBSET Nat
            BY <1>1
        <3> HIDE DEF High
        <3> QED
            BY <3>1, LeastOf
    <2>2. d \in 0..n /\ f[n - d] > b /\ b \in Nat
        BY <1>1, <1>2, <1>3, <2>1
    <2>3. d # 0
        <3>1. n - 0 = n
            BY <1>1
        <3> QED
            BY <1>1, <1>2, <2>2, <3>1
    <2>4. d - 1 \in 0..n /\ d - 1 < d /\ n - (d - 1) \in 1..n /\ n - (d - 1) - 1 = n - d
        BY <1>1, <2>2, <2>3
    <2>5. d - 1 \notin High
        <3>1. d \in Int
            BY <1>1, <2>2
        <3> HIDE DEF High
        <3> QED
            BY <2>1, <2>4, <3>1
    <2>6. ~(f[n - (d - 1)] > b)
        BY <2>4, <2>5
    <2>7. f[n - d] <= f[n - (d - 1)] /\ f[n - (d - 1)] \in Nat /\ f[n - d] \in Nat
        BY <1>3, <1>4, <2>4
    <2> QED
        BY <2>2, <2>6, <2>7
<1>7. a \in Nat /\ b \in Nat
    BY <1>1, <1>2
<1>8. ASSUME NEW j \in 0..n PROVE f[j] \in Nat /\ a <= f[j] /\ f[j] <= b
    <2>1. n - j \in 0..n /\ n - (n - j) = j
        BY <1>1
    <2>2. ~(f[j] < a) /\ ~(f[j] > b)
        BY <1>5, <1>6, <2>1
    <2> QED
        BY <1>3, <1>7, <2>2
<1> QED
    BY <1>7, <1>8 DEF n

(* Shares at one price. *)
SamePrice(prices, u, t, p) ==
    /\ u \in Nat /\ t \in Nat /\ p \in Int /\ u + t <= Len(prices)
    /\ \A x \in (u + 1)..(u + t) : prices[x] = p

LEMMA OnePrice ==
    ASSUME NEW prices \in Seq(Int), NEW r, Running(r, prices), NEW u, NEW t, NEW p,
           SamePrice(prices, u, t, p)
    PROVE  r[u + t] - r[u] = t * p
<1>0. /\ u \in Nat /\ t \in Nat /\ p \in Int /\ u + t <= Len(prices)
      /\ \A x \in (u + 1)..(u + t) : prices[x] = p
    BY DEF SamePrice
<1> USE <1>0
<1>1. Len(prices) \in Nat
    OBVIOUS
<1> DEFINE Bad == {k \in 0..t : r[u + k] - r[u] # k * p}
<1>2. \A k \in 0..t : u + k \in 0..Len(prices) /\ r[u + k] \in Int
    <2>1. \A k \in 0..t : u + k \in 0..Len(prices)
        BY <1>1
    <2> QED
        BY <2>1 DEF Running
<1>3. t \notin Bad
    <2> SUFFICES ASSUME Bad # {} PROVE FALSE
        OBVIOUS
    <2>1. PICK k \in Bad : \A j \in Bad : k <= j
        <3>1. Bad \in SUBSET Nat
            OBVIOUS
        <3> HIDE DEF Bad
        <3> QED
            BY <3>1, LeastOf
    <2>2. k \in 0..t /\ r[u + k] - r[u] # k * p
        BY <2>1
    <2>3. k # 0
        <3>1. u + 0 = u /\ 0 \in 0..t /\ 0 * p = 0
            OBVIOUS
        <3>2. r[u + 0] \in Int
            BY <1>2, <3>1
        <3> QED
            BY <2>2, <3>1, <3>2
    <2>4. /\ k - 1 \in 0..t /\ k - 1 < k /\ u + k \in (u + 1)..(u + t) /\ u + k \in 1..Len(prices)
          /\ u + k - 1 = u + (k - 1) /\ k \in Int
        BY <1>1, <2>2, <2>3
    <2>5. k - 1 \notin Bad
        <3> HIDE DEF Bad
        <3> QED
            BY <2>1, <2>4
    <2>6. r[u + (k - 1)] - r[u] = (k - 1) * p
        BY <2>4, <2>5
    <2>7. r[u + k] = r[u + (k - 1)] + p
        <3>1. prices[u + k] = p
            BY <2>4
        <3>2. r[u + k] = r[u + k - 1] + prices[u + k]
            BY <2>4 DEF Running
        <3> QED
            BY <2>4, <3>1, <3>2
    <2>8. (k - 1) * p + p = k * p
        <3> HIDE DEF Bad
        <3> QED
            BY <2>4
    <2>9. r[u + (k - 1)] \in Int /\ r[u] \in Int /\ k * p \in Int /\ (k - 1) * p \in Int
        <3>1. u + 0 = u /\ 0 \in 0..t
            OBVIOUS
        <3>2. r[u + (k - 1)] \in Int /\ r[u] \in Int
            BY <1>2, <2>4, <3>1
        <3>3. \A x, y \in Int : x * y \in Int
            OBVIOUS
        <3>4. k - 1 \in Int
            BY <2>4
        <3> QED
            BY <2>4, <3>2, <3>3, <3>4
    <2>10. PICK c : c = k * p
        OBVIOUS
    <2>11. PICK d : d = (k - 1) * p
        OBVIOUS
    <2>12. d + p = c /\ r[u + (k - 1)] - r[u] = d /\ r[u + k] - r[u] # c /\ c \in Int /\ d \in Int
        BY <2>2, <2>6, <2>8, <2>9, <2>10, <2>11
    <2>13. \A v, w \in Int : v - w = d => (v + p) - w = c
        <3> HIDE DEF Bad
        <3> QED
            BY <2>12
    <2>14. r[u + k] - r[u] = c
        BY <2>7, <2>9, <2>12, <2>13
    <2> QED
        BY <2>12, <2>14
<1> QED
    BY <1>3

(* One lot meets what is left of a sale.                                        *)
MatchLot(m, lot) ==
    LET taken == Take(lot, m.left)
    IN  [left |-> m.left - taken, cost |-> m.cost + taken * lot.price,
         lots |-> m.lots \o IF taken = 0 THEN <<lot>> ELSE LotsLeft(lot, taken)]

Match == [left : Nat, cost : Int, lots : Seq(Lot)]

(* A sale of quantity has met the lots up to share b: what it took are the      *)
(* shares after a, and what is left of these lots is the rest of them.          *)
Met(m, quantity, prices, r, a, b) ==
    /\ m \in Match /\ m.left <= quantity /\ a + (quantity - m.left) <= b
    /\ m.cost = r[a + (quantity - m.left)] - r[a]
    /\ StockOf(m.lots, prices, a + (quantity - m.left), b)
    /\ m.left # 0 => a + (quantity - m.left) = b /\ m.lots = <<>>

LEMMA LotsLeftTyped ==
    ASSUME NEW lot \in Lot, NEW taken \in Nat, taken <= lot.quantity
    PROVE  LotsLeft(lot, taken) \in Seq(Lot)
<1>1. CASE lot.quantity = taken
    BY <1>1 DEF LotsLeft
<1>2. CASE lot.quantity # taken
    <2> DEFINE part == [lot EXCEPT !.quantity = @ - taken]
    <2>1. lot.quantity - taken \in Nat \ {0}
        BY <1>2 DEF Lot
    <2>2. part \in Lot
        BY <2>1 DEF Lot
    <2>3. LotsLeft(lot, taken) = <<part>>
        BY <1>2 DEF LotsLeft
    <2> HIDE DEF part
    <2> QED
        BY <2>2, <2>3
<1> QED
    BY <1>1, <1>2

LEMMA MatchLotTyped ==
    ASSUME NEW m \in Match, NEW lot \in Lot
    PROVE  MatchLot(m, lot) \in Match /\ Take(lot, m.left) \in Nat /\ Take(lot, m.left) <= m.left
           /\ Take(lot, m.left) <= lot.quantity
<1> DEFINE taken == Take(lot, m.left)
           rest == IF taken = 0 THEN <<lot>> ELSE LotsLeft(lot, taken)
<1>1. /\ m.left \in Nat /\ m.cost \in Int /\ m.lots \in Seq(Lot)
      /\ lot.quantity \in Nat /\ lot.quantity # 0 /\ lot.price \in Int
    BY DEF Match, Lot
<1>2. taken \in Nat /\ taken <= m.left /\ taken <= lot.quantity
    BY <1>1 DEF Take
<1> HIDE DEF taken
<1>3. rest \in Seq(Lot)
    <2>1. CASE taken = 0
        BY <2>1
    <2>2. CASE taken # 0
        BY <1>2, <2>2, LotsLeftTyped
    <2> QED
        BY <2>1, <2>2
<1> HIDE DEF rest
<1>4. m.lots \o rest \in Seq(Lot)
    BY <1>1, <1>3
<1>5. taken * lot.price \in Int
    <2>1. \A x, y \in Int : x * y \in Int
        OBVIOUS
    <2> QED
        BY <1>1, <1>2, <2>1
<1>6. MatchLot(m, lot) = [left |-> m.left - taken, cost |-> m.cost + taken * lot.price,
                          lots |-> m.lots \o rest]
    BY DEF MatchLot, taken, rest
<1>7. m.left - taken \in Nat /\ m.cost + taken * lot.price \in Int
    BY <1>1, <1>2, <1>5
<1> QED
    BY <1>2, <1>4, <1>6, <1>7 DEF Match, taken

LEMMA MatchLotIs ==
    ASSUME NEW prices \in Seq(Int), NEW r, Running(r, prices), NEW quantity \in Nat,
           NEW a \in Nat, NEW b \in Nat, NEW m, Met(m, quantity, prices, r, a, b), NEW lot \in Lot,
           b + lot.quantity <= Len(prices),
           \A x \in (b + 1)..(b + lot.quantity) : prices[x] = lot.price
    PROVE  Met(MatchLot(m, lot), quantity, prices, r, a, b + lot.quantity)
<1> DEFINE taken == Take(lot, m.left)
           rest == IF taken = 0 THEN <<lot>> ELSE LotsLeft(lot, taken)
           sold == quantity - m.left
           c == b + lot.quantity
           x == MatchLot(m, lot)
<1>1. /\ m \in Match /\ m.left \in Nat /\ m.cost \in Int /\ m.lots \in Seq(Lot)
      /\ lot.quantity \in Nat /\ lot.quantity # 0 /\ lot.price \in Int /\ c \in Nat
    BY DEF Match, Lot, Met
<1>2. x \in Match /\ taken \in Nat /\ taken <= m.left /\ taken <= lot.quantity
    BY <1>1, MatchLotTyped
<1>3. x.left = m.left - taken /\ x.cost = m.cost + taken * lot.price /\ x.lots = m.lots \o rest
    BY DEF MatchLot
<1>4. /\ m.left <= quantity /\ a + sold <= b /\ m.cost = r[a + sold] - r[a]
      /\ StockOf(m.lots, prices, a + sold, b) /\ sold \in Nat
      /\ m.left # 0 => a + sold = b /\ m.lots = <<>>
    BY <1>1 DEF Met
<1>5. taken = 0 <=> m.left = 0
    BY <1>1 DEF Take
<1>6. taken # lot.quantity => x.left = 0
    BY <1>1, <1>3 DEF Take
<1> HIDE DEF taken, x
<1>7. quantity - x.left = sold + taken /\ x.left <= quantity
    <2>1. \A u, v, w \in Int : u - (v - w) = (u - v) + w
        OBVIOUS
    <2>2. quantity - (m.left - taken) = sold + taken
        BY <1>1, <1>2, <2>1
    <2>3. m.left - taken <= quantity
        BY <1>1, <1>2, <1>4
    <2> HIDE DEF sold
    <2> QED
        BY <1>3, <2>2, <2>3
<1>8. CASE taken = 0
    <2>1. x.lots = m.lots \o <<lot>>
        BY <1>3, <1>8
    <2>2. m.lots \o <<lot>> = Append(m.lots, lot)
        BY <1>1
    <2>3. StockOf(x.lots, prices, a + sold, c)
        BY <1>4, <2>1, <2>2, StockMore
    <2>4. x.cost = m.cost /\ x.left = 0
        <3>1. 0 * lot.price = 0
            BY <1>1
        <3>2. taken * lot.price = 0
            BY <1>8, <3>1
        <3>3. x.cost = m.cost + 0 /\ x.left = m.left - 0 /\ m.left = 0
            BY <1>3, <1>5, <1>8, <3>2
        <3> QED
            BY <1>1, <3>3
    <2>5. sold + taken = sold /\ a + sold <= c
        BY <1>1, <1>4, <1>8
    <2> HIDE DEF sold, c
    <2> QED
        BY <1>2, <1>4, <1>7, <2>3, <2>4, <2>5 DEF Met, x, c
<1>9. CASE taken # 0
    <2>1. a + sold = b /\ m.lots = <<>>
        BY <1>4, <1>5, <1>9
    <2>2. /\ a + (sold + taken) = b + taken /\ b + taken <= c /\ b + taken \in Nat
          /\ b + taken <= Len(prices)
        <3>1. Len(prices) \in Nat
            OBVIOUS
        <3>2. sold \in Nat /\ a + sold = b
            BY <1>4, <2>1
        <3> HIDE DEF sold
        <3>3. a + (sold + taken) = b + taken
            BY <1>2, <3>2
        <3> QED
            BY <1>1, <1>2, <3>1, <3>3
    <2>3. x.cost = r[b + taken] - r[a]
        <3>1. \A y \in (b + 1)..(b + taken) : prices[y] = lot.price
            BY <1>1, <1>2
        <3>2. r[b + taken] - r[b] = taken * lot.price
            <4>1. SamePrice(prices, b, taken, lot.price)
                BY <1>1, <1>2, <2>2, <3>1 DEF SamePrice
            <4> QED
                BY <4>1, OnePrice
        <3>3. r[b + taken] \in Int /\ r[b] \in Int /\ r[a] \in Int
            <4>1. Len(prices) \in Nat /\ a <= b /\ b <= Len(prices)
                BY <1>1, <1>4, <2>1
            <4>2. b + taken \in 0..Len(prices) /\ b \in 0..Len(prices) /\ a \in 0..Len(prices)
                BY <2>2, <4>1
            <4> QED
                BY <4>2 DEF Running
        <3>4. m.cost = r[b] - r[a]
            BY <1>4, <2>1
        <3>5. PICK p : p = taken * lot.price
            OBVIOUS
        <3>6. x.cost = m.cost + p /\ r[b + taken] - r[b] = p
            BY <1>3, <3>2, <3>5
        <3> HIDE DEF c, sold
        <3> QED
            BY <3>3, <3>4, <3>6
    <2>4. rest = LotsLeft(lot, taken) /\ x.lots = rest
        <3>1. rest = LotsLeft(lot, taken)
            BY <1>9
        <3>2. x.lots = <<>> \o rest /\ rest \in Seq(Lot)
            <4>1. x.lots \in Seq(Lot)
                BY <1>2 DEF Match
            <4>2. rest \in Seq(Lot)
                BY <1>1, <1>2, <1>9, <3>1, LotsLeftTyped
            <4> QED
                BY <1>3, <2>1, <4>2
        <3> QED
            BY <3>1, <3>2, NothingJoined
    <2>5. StockOf(x.lots, prices, b + taken, c)
        <3>1. CASE taken = lot.quantity
            <4>1. x.lots = <<>> /\ b + taken = c
                BY <2>4, <3>1 DEF LotsLeft
            <4> QED
                BY <2>2, <4>1, StockNone
        <3>2. CASE taken # lot.quantity
            <4> DEFINE part == [lot EXCEPT !.quantity = @ - taken]
            <4>1. /\ part \in Lot /\ part.quantity = lot.quantity - taken /\ part.price = lot.price
                <5>1. lot.quantity - taken \in Nat \ {0}
                    BY <1>1, <1>2, <3>2
                <5> QED
                    BY <5>1 DEF Lot
            <4>2. x.lots = <<part>>
                BY <2>4, <3>2 DEF LotsLeft
            <4> HIDE DEF part
            <4>3. Append(<<>>, part) = <<part>>
                OBVIOUS
            <4>4. (b + taken) + part.quantity = c
                BY <1>1, <1>2, <4>1
            <4>5. \A y \in ((b + taken) + 1)..((b + taken) + part.quantity) : prices[y] = part.price
                BY <1>1, <1>2, <4>1, <4>4
            <4>6. StockOf(<<>>, prices, b + taken, b + taken)
                BY <2>2, StockNone
            <4>7. StockOf(Append(<<>>, part), prices, b + taken, (b + taken) + part.quantity)
                <5> HIDE DEF c
                <5> QED
                    BY <2>2, <4>1, <4>5, <4>6, StockMore
            <4> QED
                BY <4>2, <4>3, <4>4, <4>7
        <3> QED
            BY <3>1, <3>2
    <2>6. x.left # 0 => b + taken = c /\ x.lots = <<>>
        BY <1>6, <2>4 DEF LotsLeft
    <2> HIDE DEF sold, c, rest
    <2> QED
        BY <1>2, <1>7, <2>2, <2>3, <2>5, <2>6 DEF Met, x, c
<1> QED
    BY <1>8, <1>9

(* The fold over the lots, lot by lot.                                          *)
MatchedTo(it, lots, quantity) ==
    /\ it[1..0] = [left |-> quantity, cost |-> 0, lots |-> <<>>]
    /\ \A j \in 1..Len(lots) : it[1..j] = MatchLot(it[1..(j - 1)], lots[j])

LEMMA MatchedFold ==
    ASSUME NEW lots \in Seq(Lot), NEW quantity \in Nat
    PROVE  \E it : MatchedTo(it, lots, quantity) /\ Matched(lots, quantity) = it[1..Len(lots)]
<1> DEFINE n == Len(lots)
           base == [left |-> quantity, cost |-> 0, lots |-> <<>>]
           step == [x \in Match \X (1..n) |-> MatchLot(x[1], lots[x[2]])]
<1>1. n \in Nat /\ DOMAIN lots = 1..n /\ \A j \in 1..n : lots[j] \in Lot
    OBVIOUS
<1>2. base \in Match
    BY DEF Match
<1>3. step \in [Match \X (1..n) -> Match]
    BY <1>1, MatchLotTyped
<1>4. PICK g : Folded(g, base, step, n) /\ \A s \in SUBSET (1..n) : g[s] \in Match
    <2> HIDE DEF base, step, n
    <2> QED
        BY <1>1, <1>2, <1>3, StepsExist
<1> DEFINE Fits(h) == h = [s \in SUBSET DOMAIN lots |->
                             IF s = {} THEN base ELSE MatchLot(h[s \ {Max(s)}], lots[Max(s)])]
           iter == CHOOSE h : Fits(h)
<1>5. Matched(lots, quantity) = iter[DOMAIN lots]
    BY DEF Matched, FoldLeft, MapThenFoldSet, MatchLot
<1>6. ASSUME NEW s \in SUBSET (1..n)
      PROVE  g[s] = IF s = {} THEN base ELSE MatchLot(g[s \ {Max(s)}], lots[Max(s)])
    <2>1. g[s] = IF s = {} THEN base ELSE step[g[s \ {Max(s)}], Max(s)]
        BY <1>4 DEF Folded
    <2>2. ASSUME s # {}
          PROVE  step[g[s \ {Max(s)}], Max(s)] = MatchLot(g[s \ {Max(s)}], lots[Max(s)])
        <3>1. Max(s) \in 1..n
            BY <1>1, <2>2, MaxOf
        <3>2. g[s \ {Max(s)}] \in Match
            BY <1>4
        <3> QED
            BY <3>1, <3>2
    <2> HIDE DEF step, base
    <2> QED
        BY <2>1, <2>2
<1>7. Fits(iter)
    <2> HIDE DEF base, n, step
    <2>1. g = [s \in SUBSET (1..n) |-> g[s]]
        BY <1>4, Zenon DEF Folded
    <2>2. g = [s \in SUBSET (1..n) |->
                 IF s = {} THEN base ELSE MatchLot(g[s \ {Max(s)}], lots[Max(s)])]
        BY <1>6, <2>1, Zenon
    <2>3. Fits(g)
        BY <1>1, <2>2, Zenon
    <2> QED
        BY <2>3, Zenon
<1> HIDE DEF iter
<1>8. /\ iter[1..0] = base
      /\ \A j \in 1..n : iter[1..j] = MatchLot(iter[1..(j - 1)], lots[j])
    <2> HIDE DEF base, n, step
    <2>1. \A s \in SUBSET (1..n) :
             iter[s] = IF s = {} THEN base ELSE MatchLot(iter[s \ {Max(s)}], lots[Max(s)])
        BY <1>1, <1>7, Zenon
    <2>2. /\ 1..0 = {} /\ {} \in SUBSET (1..n)
          /\ \A j \in 1..n : /\ Max(1..j) = j /\ (1..j) \ {j} = 1..(j - 1)
                            /\ 1..j # {} /\ 1..j \in SUBSET (1..n)
        BY <1>1, LastOfFirst
    <2>3. iter[1..0] = base
        BY <2>1, <2>2, Zenon
    <2>4. ASSUME NEW j \in 1..n PROVE iter[1..j] = MatchLot(iter[1..(j - 1)], lots[j])
        <3>1. iter[1..j] = MatchLot(iter[(1..j) \ {Max(1..j)}], lots[Max(1..j)])
            BY <2>1, <2>2, Zenon
        <3> QED
            BY <2>2, <3>1
    <2> QED
        BY <2>3, <2>4
<1> QED
    BY <1>1, <1>5, <1>8 DEF MatchedTo

LEMMA MatchedTyped ==
    ASSUME NEW lots \in Seq(Lot), NEW quantity \in Nat
    PROVE  Matched(lots, quantity) \in Match /\ Matched(lots, quantity).left <= quantity
<1> DEFINE n == Len(lots)
<1>1. n \in Nat /\ \A j \in 1..n : lots[j] \in Lot
    OBVIOUS
<1>2. PICK it : MatchedTo(it, lots, quantity) /\ Matched(lots, quantity) = it[1..n]
    BY MatchedFold
<1> DEFINE Fine(m) == m \in Match /\ m.left <= quantity
           Bad == {j \in 0..n : ~Fine(it[1..j])}
<1>3. n \notin Bad
    <2> SUFFICES ASSUME Bad # {} PROVE FALSE
        OBVIOUS
    <2>1. PICK j \in Bad : \A i \in Bad : j <= i
        <3>1. Bad \in SUBSET Nat
            OBVIOUS
        <3> HIDE DEF Bad
        <3> QED
            BY <3>1, LeastOf
    <2>2. j \in 0..n /\ ~Fine(it[1..j])
        BY <2>1
    <2>3. j # 0
        <3>1. Fine([left |-> quantity, cost |-> 0, lots |-> <<>>])
            BY DEF Match
        <3> HIDE DEF Fine
        <3> QED
            BY <1>2, <2>2, <3>1 DEF MatchedTo
    <2>4. j \in 1..n /\ j - 1 \in 0..n /\ j - 1 < j /\ j \in Int
        BY <1>1, <2>2, <2>3
    <2>5. j - 1 \notin Bad
        <3> HIDE DEF Bad
        <3> QED
            BY <2>1, <2>4
    <2>6. PICK m : m = it[1..(j - 1)]
        OBVIOUS
    <2>7. m \in Match /\ m.left <= quantity
        BY <2>4, <2>5, <2>6
    <2>8. PICK lot : lot = lots[j]
        OBVIOUS
    <2>9. it[1..j] = MatchLot(m, lot) /\ lot \in Lot
        BY <1>1, <1>2, <2>4, <2>6, <2>8 DEF MatchedTo
    <2>10. MatchLot(m, lot) \in Match /\ MatchLot(m, lot).left <= m.left
        <3>1. /\ MatchLot(m, lot) \in Match /\ Take(lot, m.left) \in Nat
              /\ Take(lot, m.left) <= m.left
            BY <2>7, <2>9, MatchLotTyped
        <3>2. MatchLot(m, lot).left = m.left - Take(lot, m.left)
            BY DEF MatchLot
        <3>3. m.left \in Nat
            BY <2>7 DEF Match
        <3> QED
            BY <3>1, <3>2, <3>3
    <2>11. m.left \in Nat /\ MatchLot(m, lot).left \in Nat
        BY <2>7, <2>10 DEF Match
    <2> QED
        BY <2>2, <2>7, <2>9, <2>10, <2>11
<1> QED
    BY <1>1, <1>2, <1>3

(* A sale against the lots a + 1..b takes the oldest and leaves the rest.       *)
LEMMA MatchedIs ==
    ASSUME NEW prices \in Seq(Int), NEW r, Running(r, prices), NEW quantity \in Nat,
           NEW a, NEW b, NEW lots, StockOf(lots, prices, a, b), b <= Len(prices)
    PROVE  Met(Matched(lots, quantity), quantity, prices, r, a, b)
<1> DEFINE n == Len(lots)
           base == [left |-> quantity, cost |-> 0, lots |-> <<>>]
<1>1. PICK f : Stock(lots, f, prices, a, b)
    BY DEF StockOf
<1>2. lots \in Seq(Lot) /\ n \in Nat /\ DOMAIN lots = 1..n /\ \A j \in 1..n : lots[j] \in Lot
    BY DEF StockOf
<1>3. PICK it : MatchedTo(it, lots, quantity) /\ Matched(lots, quantity) = it[1..n]
    BY <1>2, MatchedFold
<1>4. /\ it[1..0] = base
      /\ \A j \in 1..n : it[1..j] = MatchLot(it[1..(j - 1)], lots[j])
    BY <1>3 DEF MatchedTo
<1> DEFINE Bad == {j \in 0..n : ~Met(it[1..j], quantity, prices, r, a, f[j])}
<1>5. n \notin Bad
    <2> SUFFICES ASSUME Bad # {} PROVE FALSE
        OBVIOUS
    <2>1. PICK j \in Bad : \A i \in Bad : j <= i
        <3>1. Bad \in SUBSET Nat
            OBVIOUS
        <3> HIDE DEF Bad
        <3> QED
            BY <3>1, LeastOf
    <2>2. j \in 0..n /\ ~Met(it[1..j], quantity, prices, r, a, f[j])
        BY <2>1
    <2>3. a \in Nat /\ b \in Nat /\ \A i \in 0..n : f[i] \in Nat /\ f[i] <= b
        BY <1>1, <1>2, StockWithin
    <2>4. CASE j = 0
        <3>1. f[0] = a
            BY <1>1 DEF Stock
        <3>2. StockOf(<<>>, prices, a, a)
            BY <2>3, StockNone
        <3>3. r[a] \in Int
            <4>1. Len(prices) \in Nat /\ a <= b
                <5>1. 0 \in 0..n
                    BY <1>2
                <5> QED
                    BY <2>3, <3>1, <5>1
            <4>2. a \in 0..Len(prices)
                BY <2>3, <4>1
            <4> QED
                BY <4>2 DEF Running
        <3>4. quantity - quantity = 0 /\ a + 0 = a /\ r[a] - r[a] = 0
            BY <2>3, <3>3
        <3>5. base.left = quantity /\ base.cost = 0 /\ base.lots = <<>>
            OBVIOUS
        <3>7. base \in Match
            BY DEF Match
        <3> HIDE DEF base
        <3>6. Met(base, quantity, prices, r, a, a)
            BY <2>3, <3>2, <3>4, <3>5, <3>7 DEF Met
        <3> QED
            BY <1>4, <2>2, <2>4, <3>1, <3>6
    <2>5. CASE j # 0
        <3>1. j \in 1..n /\ j - 1 \in 0..n /\ j - 1 < j /\ j \in Int
            BY <1>2, <2>2, <2>5
        <3>2. j - 1 \notin Bad
            <4> HIDE DEF Bad
            <4> QED
                BY <2>1, <3>1
        <3>3. Met(it[1..(j - 1)], quantity, prices, r, a, f[j - 1])
            BY <3>1, <3>2
        <3>4. /\ f[j] = f[j - 1] + lots[j].quantity /\ lots[j] \in Lot
              /\ \A x \in (f[j - 1] + 1)..f[j] : prices[x] = lots[j].price
            BY <1>1, <1>2, <3>1 DEF Stock
        <3>5. f[j - 1] \in Nat /\ f[j] <= Len(prices)
            <4>1. Len(prices) \in Nat /\ f[j] \in Nat /\ f[j] <= b /\ f[j - 1] \in Nat
                BY <2>3, <3>1
            <4> QED
                BY <2>3, <4>1
        <3>6. it[1..j] = MatchLot(it[1..(j - 1)], lots[j])
            BY <1>4, <3>1
        <3>7. PICK m : m = it[1..(j - 1)]
            OBVIOUS
        <3>8. PICK lot : lot = lots[j]
            OBVIOUS
        <3>9. Met(MatchLot(m, lot), quantity, prices, r, a, f[j - 1] + lot.quantity)
            BY <2>3, <3>3, <3>4, <3>5, <3>7, <3>8, MatchLotIs
        <3> QED
            BY <2>2, <3>4, <3>6, <3>7, <3>8, <3>9
    <2> QED
        BY <2>4, <2>5
<1>6. Met(it[1..n], quantity, prices, r, a, f[n])
    BY <1>2, <1>5
<1>7. f[n] = b
    BY <1>1 DEF Stock
<1> QED
    BY <1>2, <1>3, <1>6, <1>7

(* The report. t[i] is how many shares the first i trades took from the oldest   *)
(* that were bought.                                                            *)
NewFill == {f \in Fill : f.delta # 0}

Trade == [quantity : Nat, cost : Int, proceeds : Int]

ReportType == [lots : Seq(Lot), trades : Seq(Trade), incomplete : Nat]

Trades(trades, t, r, total) ==
    /\ t \in [0..Len(trades) -> Nat] /\ t[0] = 0 /\ t[Len(trades)] = total
    /\ \A i \in 1..Len(trades) : /\ t[i] = t[i - 1] + trades[i].quantity /\ t[i] <= total
                                 /\ trades[i].cost = r[t[i]] - r[t[i - 1]]

Reported(report, prices, r, bought, sold) ==
    /\ report \in ReportType
    /\ \E total \in Nat : /\ total + report.incomplete = sold
                          /\ StockOf(report.lots, prices, total, bought)
                          /\ \E t : Trades(report.trades, t, r, total)

LEMMA TradesNone ==
    ASSUME NEW r
    PROVE  Trades(<<>>, [i \in 0..0 |-> 0], r, 0)
BY DEF Trades

LEMMA TradesMore ==
    ASSUME NEW trades \in Seq(Trade), NEW t, NEW r, NEW total \in Nat, Trades(trades, t, r, total),
           NEW trade \in Trade, trade.cost = r[total + trade.quantity] - r[total]
    PROVE  \E u : Trades(Append(trades, trade), u, r, total + trade.quantity)
<1> DEFINE n == Len(trades)
           more == Append(trades, trade)
           c == total + trade.quantity
           u == [i \in 0..(n + 1) |-> IF i = n + 1 THEN c ELSE t[i]]
<1>1. /\ n \in Nat /\ Len(more) = n + 1 /\ more[n + 1] = trade /\ \A i \in 1..n : more[i] = trades[i]
    OBVIOUS
<1>2. trade.quantity \in Nat /\ c \in Nat /\ total <= c
    BY DEF Trade
<1>3. t \in [0..n -> Nat] /\ t[0] = 0 /\ t[n] = total
    BY DEF Trades
<1>4. \A i \in 1..n : /\ t[i] = t[i - 1] + trades[i].quantity /\ t[i] <= total
                      /\ trades[i].cost = r[t[i]] - r[t[i - 1]]
    BY DEF Trades
<1> HIDE DEF n, more, c
<1>5. u \in [0..(n + 1) -> Nat] /\ u[n + 1] = c /\ \A i \in 0..n : u[i] = t[i]
    BY <1>1, <1>2, <1>3
<1> HIDE DEF u
<1>6. 0 \in 0..n /\ n \in 0..n /\ n + 1 - 1 = n
    BY <1>1
<1>7. \A i \in 1..(n + 1) : (i = n + 1 /\ i - 1 = n) \/ (i \in 1..n /\ i \in 0..n /\ i - 1 \in 0..n)
    BY <1>1
<1>8. ASSUME NEW i \in 1..(n + 1)
      PROVE  u[i] = u[i - 1] + more[i].quantity /\ u[i] <= c /\ more[i].cost = r[u[i]] - r[u[i - 1]]
    <2>1. CASE i = n + 1 /\ i - 1 = n
        <3>1. u[i] = c /\ u[i - 1] = total /\ more[i] = trade
            BY <1>1, <1>3, <1>5, <1>6, <2>1
        <3> QED
            BY <1>2, <3>1 DEF c
    <2>2. CASE i \in 1..n /\ i \in 0..n /\ i - 1 \in 0..n
        <3>1. u[i] = t[i] /\ u[i - 1] = t[i - 1] /\ more[i] = trades[i] /\ t[i] \in Nat
            BY <1>1, <1>3, <1>5, <2>2
        <3> QED
            BY <1>2, <1>4, <2>2, <3>1
    <2> QED
        BY <1>7, <2>1, <2>2
<1>9. Trades(more, u, r, c)
    BY <1>1, <1>3, <1>5, <1>6, <1>8 DEF Trades
<1> QED
    BY <1>9 DEF more, c

(* A buy is one more lot. *)
LEMMA BoughtIs ==
    ASSUME NEW prices, NEW r, NEW report, NEW b \in Nat, NEW sold, Reported(report, prices, r, b, sold),
           NEW fill \in NewFill, \A x \in (b + 1)..(b + fill.delta) : prices[x] = fill.price
    PROVE  Reported(Bought(report, fill), prices, r, b + fill.delta, sold)
<1> DEFINE lot == [quantity |-> fill.delta, price |-> fill.price]
           next == Bought(report, fill)
<1>1. lot \in Lot /\ lot.quantity = fill.delta /\ lot.price = fill.price
    BY DEF NewFill, Fill, Lot
<1>2. PICK total \in Nat : /\ total + report.incomplete = sold
                           /\ StockOf(report.lots, prices, total, b)
                           /\ \E t : Trades(report.trades, t, r, total)
    BY DEF Reported
<1>3. report \in ReportType
    BY DEF Reported
<1>4. next = [report EXCEPT !.lots = Append(report.lots, lot)]
    BY DEF Bought
<1> HIDE DEF lot, next
<1>5. Append(report.lots, lot) \in Seq(Lot)
    BY <1>1, <1>3 DEF ReportType
<1>6. /\ next \in ReportType /\ next.lots = Append(report.lots, lot)
      /\ next.trades = report.trades /\ next.incomplete = report.incomplete
    BY <1>3, <1>4, <1>5 DEF ReportType
<1>7. StockOf(Append(report.lots, lot), prices, total, b + lot.quantity)
    BY <1>1, <1>2, StockMore
<1> QED
    BY <1>1, <1>2, <1>6, <1>7 DEF Reported, next

(* A sale is one more trade, of the oldest shares that are left. *)
LEMMA SoldIs ==
    ASSUME NEW prices \in Seq(Int), NEW r, Running(r, prices), NEW report, NEW b \in Nat,
           NEW sold, Reported(report, prices, r, b, sold), b <= Len(prices), NEW fill \in NewFill
    PROVE  Reported(Sold(report, fill), prices, r, b, sold + fill.delta)
<1> DEFINE m == Matched(report.lots, fill.delta)
           q == fill.delta - m.left
           trade == [quantity |-> q, cost |-> m.cost, proceeds |-> q * fill.price]
           next == Sold(report, fill)
<1>1. PICK total \in Nat : /\ total + report.incomplete = sold
                           /\ StockOf(report.lots, prices, total, b)
                           /\ \E t : Trades(report.trades, t, r, total)
    BY DEF Reported
<1>2. /\ report \in ReportType /\ report.trades \in Seq(Trade) /\ report.incomplete \in Nat
      /\ fill.delta \in Nat /\ fill.price \in Int
    BY DEF Reported, ReportType, NewFill, Fill
<1>3. Met(m, fill.delta, prices, r, total, b)
    BY <1>1, <1>2, MatchedIs
<1>4. /\ next.lots = m.lots /\ next.incomplete = report.incomplete + m.left
      /\ next.trades = (IF q = 0 THEN report.trades ELSE Append(report.trades, trade))
      /\ next = [lots |-> next.lots, incomplete |-> next.incomplete, trades |-> next.trades]
    BY DEF Sold
<1> HIDE DEF m, next
<1>5. /\ m \in Match /\ m.left <= fill.delta /\ m.cost = r[total + q] - r[total]
      /\ StockOf(m.lots, prices, total + q, b)
    BY <1>3 DEF Met
<1>6. m.left \in Nat /\ m.cost \in Int /\ m.lots \in Seq(Lot)
    BY <1>5 DEF Match
<1>7. q \in Nat /\ fill.delta = q + m.left
    BY <1>2, <1>5, <1>6
<1> HIDE DEF q
<1>8. q * fill.price \in Int
    <2>1. \A x, y \in Int : x * y \in Int
        OBVIOUS
    <2> QED
        BY <1>2, <1>7, <2>1
<1>9. trade \in Trade /\ trade.quantity = q /\ trade.cost = m.cost
    BY <1>6, <1>7, <1>8 DEF Trade
<1> HIDE DEF trade
<1>10. next.trades \in Seq(Trade) /\ \E u : Trades(next.trades, u, r, total + q)
    <2>1. PICK t : Trades(report.trades, t, r, total)
        BY <1>1
    <2>2. CASE q = 0
        <3>1. total + q = total
            BY <2>2
        <3> QED
            BY <1>2, <1>4, <2>1, <2>2, <3>1
    <2>3. CASE q # 0
        <3>1. \E u : Trades(Append(report.trades, trade), u, r, total + trade.quantity)
            BY <1>2, <1>5, <1>9, <2>1, TradesMore
        <3>2. Append(report.trades, trade) \in Seq(Trade)
            BY <1>2, <1>9
        <3> QED
            BY <1>4, <1>9, <2>3, <3>1, <3>2
    <2> QED
        BY <2>2, <2>3
<1>11. next.incomplete \in Nat /\ (total + q) + next.incomplete = sold + fill.delta /\ total + q \in Nat
    <2>1. \A u, v, w, x \in Nat :
             (u + v) + (w + x) = (u + w) + (v + x) /\ w + x \in Nat /\ u + v \in Nat
        OBVIOUS
    <2>2. (total + q) + (report.incomplete + m.left) = (total + report.incomplete) + (q + m.left)
          /\ report.incomplete + m.left \in Nat /\ total + q \in Nat
        <3>1. total \in Nat /\ q \in Nat
            BY <1>1, <1>7
        <3>2. PICK i : i = report.incomplete
            OBVIOUS
        <3>3. PICK l : l = m.left
            OBVIOUS
        <3>4. i \in Nat /\ l \in Nat
            BY <1>2, <1>6, <3>2, <3>3
        <3>5. (total + q) + (i + l) = (total + i) + (q + l) /\ i + l \in Nat /\ total + q \in Nat
            BY <2>1, <3>1, <3>4
        <3> QED
            BY <3>2, <3>3, <3>5
    <2>3. total + report.incomplete = sold /\ q + m.left = fill.delta
        BY <1>1, <1>7
    <2>4. next.incomplete = report.incomplete + m.left
        BY <1>4
    <2> QED
        BY <2>2, <2>3, <2>4
<1>12. next \in ReportType
    BY <1>4, <1>6, <1>10, <1>11 DEF ReportType
<1> QED
    BY <1>4, <1>5, <1>10, <1>11, <1>12 DEF Reported, next

(* The next counted fill. *)
Counting(report, fill) == IF fill.order \in Buys THEN Bought(report, fill) ELSE Sold(report, fill)

LEMMA CountingTyped ==
    ASSUME NEW report \in ReportType, NEW fill \in NewFill
    PROVE  Counting(report, fill) \in ReportType
<1>1. /\ report.lots \in Seq(Lot) /\ report.trades \in Seq(Trade) /\ report.incomplete \in Nat
      /\ fill.delta \in Nat /\ fill.delta # 0 /\ fill.price \in Int
    BY DEF ReportType, NewFill, Fill
<1>2. Bought(report, fill) \in ReportType
    <2> DEFINE lot == [quantity |-> fill.delta, price |-> fill.price]
    <2>1. lot \in Lot
        BY <1>1 DEF Lot
    <2>2. Bought(report, fill) = [report EXCEPT !.lots = Append(report.lots, lot)]
        BY DEF Bought
    <2> HIDE DEF lot
    <2>3. Append(report.lots, lot) \in Seq(Lot)
        BY <1>1, <2>1
    <2> QED
        BY <2>2, <2>3 DEF ReportType
<1>3. Sold(report, fill) \in ReportType
    <2> DEFINE m == Matched(report.lots, fill.delta)
               q == fill.delta - m.left
               trade == [quantity |-> q, cost |-> m.cost, proceeds |-> q * fill.price]
               next == IF q = 0 THEN report.trades ELSE Append(report.trades, trade)
    <2>1. m \in Match /\ m.left <= fill.delta
        BY <1>1, MatchedTyped
    <2>2. Sold(report, fill) = [lots |-> m.lots, incomplete |-> report.incomplete + m.left, trades |-> next]
        BY DEF Sold
    <2> HIDE DEF m
    <2>3. m.left \in Nat /\ m.cost \in Int /\ m.lots \in Seq(Lot)
        BY <2>1 DEF Match
    <2>4. q \in Nat
        BY <1>1, <2>1, <2>3
    <2> HIDE DEF q
    <2>5. q * fill.price \in Int
        <3>1. \A x, y \in Int : x * y \in Int
            OBVIOUS
        <3> QED
            BY <1>1, <2>4, <3>1
    <2>6. trade \in Trade
        BY <2>3, <2>4, <2>5 DEF Trade
    <2> HIDE DEF trade
    <2>7. next \in Seq(Trade)
        BY <1>1, <2>6
    <2>8. report.incomplete + m.left \in Nat
        BY <1>1, <2>3
    <2> HIDE DEF next
    <2> QED
        BY <2>2, <2>3, <2>7, <2>8 DEF ReportType
<1> QED
    BY <1>2, <1>3 DEF Counting

(* The report is made fill by fill. *)
ReportTo(it) ==
    /\ it[1..0] = NoTrades
    /\ \A j \in 1..Len(Counted) : it[1..j] = Counting(it[1..(j - 1)], Counted[j])

LEMMA ReportFold ==
    ASSUME Counted \in Seq(NewFill)
    PROVE  \E it : ReportTo(it) /\ Report = it[1..Len(Counted)]
<1> DEFINE n == Len(Counted)
           step == [x \in ReportType \X (1..n) |-> Counting(x[1], Counted[x[2]])]
<1>1. n \in Nat /\ DOMAIN Counted = 1..n /\ \A j \in 1..n : Counted[j] \in NewFill
    OBVIOUS
<1>2. NoTrades \in ReportType
    BY DEF NoTrades, ReportType
<1>3. step \in [ReportType \X (1..n) -> ReportType]
    BY <1>1, CountingTyped
<1>4. PICK g : Folded(g, NoTrades, step, n) /\ \A s \in SUBSET (1..n) : g[s] \in ReportType
    <2> HIDE DEF step, n
    <2> QED
        BY <1>1, <1>2, <1>3, StepsExist
<1> DEFINE Fits(h) == h = [s \in SUBSET DOMAIN Counted |->
                             IF s = {} THEN NoTrades ELSE Counting(h[s \ {Max(s)}], Counted[Max(s)])]
           iter == CHOOSE h : Fits(h)
<1>5. Report = iter[DOMAIN Counted]
    BY DEF Report, FoldLeft, MapThenFoldSet, Counting
<1>6. ASSUME NEW s \in SUBSET (1..n)
      PROVE  g[s] = IF s = {} THEN NoTrades ELSE Counting(g[s \ {Max(s)}], Counted[Max(s)])
    <2>1. g[s] = IF s = {} THEN NoTrades ELSE step[g[s \ {Max(s)}], Max(s)]
        BY <1>4 DEF Folded
    <2>2. ASSUME s # {}
          PROVE  step[g[s \ {Max(s)}], Max(s)] = Counting(g[s \ {Max(s)}], Counted[Max(s)])
        <3>1. Max(s) \in 1..n
            BY <1>1, <2>2, MaxOf
        <3>2. g[s \ {Max(s)}] \in ReportType
            BY <1>4
        <3> QED
            BY <3>1, <3>2
    <2> HIDE DEF step
    <2> QED
        BY <2>1, <2>2
<1>7. Fits(iter)
    <2> HIDE DEF n, step
    <2>1. g = [s \in SUBSET (1..n) |-> g[s]]
        BY <1>4, Zenon DEF Folded
    <2>2. g = [s \in SUBSET (1..n) |->
                 IF s = {} THEN NoTrades ELSE Counting(g[s \ {Max(s)}], Counted[Max(s)])]
        BY <1>6, <2>1, Zenon
    <2>3. Fits(g)
        BY <1>1, <2>2, Zenon
    <2> QED
        BY <2>3, Zenon
<1> HIDE DEF iter
<1>8. /\ iter[1..0] = NoTrades
      /\ \A j \in 1..n : iter[1..j] = Counting(iter[1..(j - 1)], Counted[j])
    <2> HIDE DEF n, step
    <2>1. \A s \in SUBSET (1..n) :
             iter[s] = IF s = {} THEN NoTrades ELSE Counting(iter[s \ {Max(s)}], Counted[Max(s)])
        BY <1>1, <1>7, Zenon
    <2>2. /\ 1..0 = {} /\ {} \in SUBSET (1..n)
          /\ \A j \in 1..n : /\ Max(1..j) = j /\ (1..j) \ {j} = 1..(j - 1)
                             /\ 1..j # {} /\ 1..j \in SUBSET (1..n)
        BY <1>1, LastOfFirst
    <2>3. iter[1..0] = NoTrades
        BY <2>1, <2>2, Zenon
    <2>4. ASSUME NEW j \in 1..n PROVE iter[1..j] = Counting(iter[1..(j - 1)], Counted[j])
        <3>1. iter[1..j] = Counting(iter[(1..j) \ {Max(1..j)}], Counted[Max(1..j)])
            BY <2>1, <2>2, Zenon
        <3> QED
            BY <2>2, <3>1
    <2> QED
        BY <2>3, <2>4
<1> QED
    BY <1>1, <1>5, <1>8 DEF ReportTo

(* The shares a counted fill bought and how many it sold. *)
SharesOf(fill) == IF fill.order \in Buys THEN [n \in 1..fill.delta |-> fill.price] ELSE <<>>

SoldBy(fill) == IF fill.order \in Buys THEN 0 ELSE fill.delta

LEMMA SharesTyped ==
    ASSUME NEW fill \in NewFill
    PROVE  /\ SharesOf(fill) \in Seq(Int) /\ SoldBy(fill) \in Nat
           /\ fill.order \in Buys => /\ Len(SharesOf(fill)) = fill.delta
                                     /\ \A x \in 1..fill.delta : SharesOf(fill)[x] = fill.price
           /\ fill.order \notin Buys => Len(SharesOf(fill)) = 0
<1>1. fill.delta \in Nat /\ fill.price \in Int
    BY DEF NewFill, Fill
<1>2. [n \in 1..fill.delta |-> fill.price] \in Seq(Int)
    BY <1>1
<1>3. Len([n \in 1..fill.delta |-> fill.price]) = fill.delta
    BY <1>1
<1> QED
    BY <1>1, <1>2, <1>3 DEF SharesOf, SoldBy

Bounds(f, s, prices) ==
    /\ Places(f, [i \in DOMAIN Counted |-> SharesOf(Counted[i])], prices)
    /\ Running(s, [i \in DOMAIN Counted |-> SoldBy(Counted[i])])

LEMMA BoundsStep ==
    ASSUME Counted \in Seq(NewFill), NEW prices \in Seq(Int), NEW f, NEW s, Bounds(f, s, prices)
    PROVE  /\ f[0] = 0 /\ s[0] = 0 /\ \A j \in 0..Len(Counted) : f[j] \in Nat /\ s[j] \in Int
           /\ f[Len(Counted)] = Len(prices)
           /\ \A j \in 1..Len(Counted) :
                /\ f[j] <= Len(prices) /\ s[j] = s[j - 1] + SoldBy(Counted[j])
                /\ f[j] = f[j - 1] + Len(SharesOf(Counted[j]))
                /\ Placed(prices, SharesOf(Counted[j]), f[j - 1])
<1> DEFINE n == Len(Counted)
           shares == [i \in 1..n |-> SharesOf(Counted[i])]
           sales == [i \in 1..n |-> SoldBy(Counted[i])]
<1>1. n \in Nat /\ DOMAIN Counted = 1..n
    OBVIOUS
<1>2. /\ Len(shares) = n /\ Len(sales) = n
      /\ \A j \in 1..n : shares[j] = SharesOf(Counted[j]) /\ sales[j] = SoldBy(Counted[j])
    BY <1>1
<1>3. Places(f, shares, prices) /\ Running(s, sales)
    BY <1>1 DEF Bounds
<1> HIDE DEF shares, sales, n
<1>4. /\ f \in [0..n -> Nat] /\ f[0] = 0 /\ Len(prices) = f[n]
      /\ \A k \in 1..n : /\ f[k] = f[k - 1] + Len(shares[k]) /\ f[k] <= Len(prices)
                         /\ Placed(prices, shares[k], f[k - 1])
    BY <1>2, <1>3 DEF Places
<1>5. s \in [0..n -> Int] /\ s[0] = 0 /\ \A k \in 1..n : s[k] = s[k - 1] + sales[k]
    BY <1>2, <1>3 DEF Running
<1> QED
    BY <1>2, <1>4, <1>5 DEF n

LEMMA ReportIs ==
    ASSUME Counted \in Seq(NewFill), NEW prices \in Seq(Int), NEW r, Running(r, prices),
           NEW f, NEW s, Bounds(f, s, prices)
    PROVE  Reported(Report, prices, r, f[Len(Counted)], s[Len(Counted)])
<1> DEFINE n == Len(Counted)
<1>1. n \in Nat /\ \A j \in 1..n : Counted[j] \in NewFill
    OBVIOUS
<1>2. PICK it : ReportTo(it) /\ Report = it[1..n]
    BY ReportFold
<1>3. it[1..0] = NoTrades /\ \A j \in 1..n : it[1..j] = Counting(it[1..(j - 1)], Counted[j])
    BY <1>2 DEF ReportTo
<1>4. /\ f[0] = 0 /\ s[0] = 0 /\ \A j \in 0..n : f[j] \in Nat /\ s[j] \in Int
      /\ \A j \in 1..n : /\ f[j] <= Len(prices) /\ s[j] = s[j - 1] + SoldBy(Counted[j])
                         /\ f[j] = f[j - 1] + Len(SharesOf(Counted[j]))
                         /\ Placed(prices, SharesOf(Counted[j]), f[j - 1])
    BY BoundsStep
<1> HIDE DEF n
<1>5. Reported(NoTrades, prices, r, 0, 0)
    <2>1. NoTrades \in ReportType /\ NoTrades.lots = <<>> /\ NoTrades.trades = <<>> /\ NoTrades.incomplete = 0
        BY DEF NoTrades, ReportType
    <2>2. StockOf(<<>>, prices, 0, 0)
        BY StockNone
    <2>3. \E t : Trades(<<>>, t, r, 0)
        BY TradesNone
    <2>4. 0 + 0 = 0
        OBVIOUS
    <2> QED
        BY <2>1, <2>2, <2>3, <2>4 DEF Reported
<1>6. ASSUME NEW j \in 1..n, Reported(it[1..(j - 1)], prices, r, f[j - 1], s[j - 1])
      PROVE  Reported(it[1..j], prices, r, f[j], s[j])
    <2>1. PICK report : report = it[1..(j - 1)]
        OBVIOUS
    <2>2. PICK fill : fill = Counted[j]
        OBVIOUS
    <2>3. /\ fill \in NewFill /\ it[1..j] = Counting(report, fill)
          /\ Reported(report, prices, r, f[j - 1], s[j - 1])
          /\ f[j] <= Len(prices) /\ s[j] = s[j - 1] + SoldBy(fill)
          /\ f[j] = f[j - 1] + Len(SharesOf(fill)) /\ Placed(prices, SharesOf(fill), f[j - 1])
        BY <1>1, <1>3, <1>4, <1>6, <2>1, <2>2
    <2>4. f[j - 1] \in Nat /\ s[j - 1] \in Int /\ fill.delta \in Nat
        <3>1. j - 1 \in 0..n
            BY <1>1
        <3> QED
            BY <1>4, <2>3, <3>1 DEF NewFill, Fill
    <2>5. CASE fill.order \in Buys
        <3>1. Len(SharesOf(fill)) = fill.delta /\ \A x \in 1..fill.delta : SharesOf(fill)[x] = fill.price
            BY <2>3, <2>5, SharesTyped
        <3>2. f[j] = f[j - 1] + fill.delta /\ s[j] = s[j - 1]
            BY <2>3, <2>4, <2>5, <3>1 DEF SoldBy
        <3>3. \A x \in (f[j - 1] + 1)..(f[j - 1] + fill.delta) : prices[x] = fill.price
            <4> SUFFICES ASSUME NEW x \in (f[j - 1] + 1)..(f[j - 1] + fill.delta)
                         PROVE  prices[x] = fill.price
                OBVIOUS
            <4> DEFINE y == x - f[j - 1]
            <4>1. y \in 1..fill.delta /\ f[j - 1] + y = x
                BY <2>4
            <4>2. prices[f[j - 1] + y] = SharesOf(fill)[y]
                BY <2>3, <3>1, <4>1 DEF Placed
            <4> QED
                BY <3>1, <4>1, <4>2
        <3>4. Reported(Bought(report, fill), prices, r, f[j - 1] + fill.delta, s[j - 1])
            BY <2>3, <2>4, <3>3, BoughtIs
        <3> QED
            BY <2>3, <2>5, <3>2, <3>4 DEF Counting
    <2>6. CASE fill.order \notin Buys
        <3>1. f[j] = f[j - 1] /\ s[j] = s[j - 1] + fill.delta
            <4>1. Len(SharesOf(fill)) = 0
                BY <2>3, <2>6, SharesTyped
            <4> QED
                BY <2>3, <2>4, <2>6, <4>1 DEF SoldBy
        <3>2. Reported(Sold(report, fill), prices, r, f[j - 1], s[j - 1] + fill.delta)
            BY <2>3, <2>4, <3>1, SoldIs
        <3> QED
            BY <2>3, <2>6, <3>1, <3>2 DEF Counting
    <2> QED
        BY <2>5, <2>6
<1> DEFINE Bad == {j \in 0..n : ~Reported(it[1..j], prices, r, f[j], s[j])}
<1>7. n \notin Bad
    <2> SUFFICES ASSUME Bad # {} PROVE FALSE
        OBVIOUS
    <2>1. PICK j \in Bad : \A i \in Bad : j <= i
        <3>1. Bad \in SUBSET Nat
            OBVIOUS
        <3> HIDE DEF Bad
        <3> QED
            BY <3>1, LeastOf
    <2>2. j \in 0..n /\ ~Reported(it[1..j], prices, r, f[j], s[j])
        BY <2>1
    <2>3. j # 0
        BY <1>3, <1>4, <1>5, <2>2
    <2>4. j \in 1..n /\ j - 1 \in 0..n /\ j - 1 < j /\ j \in Int
        BY <1>1, <2>2, <2>3
    <2>5. j - 1 \notin Bad
        <3> HIDE DEF Bad
        <3> QED
            BY <2>1, <2>4
    <2>6. Reported(it[1..(j - 1)], prices, r, f[j - 1], s[j - 1])
        BY <2>4, <2>5
    <2> QED
        BY <1>6, <2>2, <2>4, <2>6
<1> QED
    BY <1>1, <1>2, <1>7 DEF n

LEMMA CountedTyped ==
    ASSUME fills \in Seq(NewFill)
    PROVE  Counted \in Seq(NewFill)
<1>1. Len(fills) \in Nat /\ DOMAIN fills = 1..Len(fills) /\ \A i \in 1..Len(fills) : fills[i] \in NewFill
    OBVIOUS
<1>2. ASSUME NEW o \in Orders PROVE CountedOf(o) \in Seq(NewFill)
    <2> DEFINE seqs == [i \in DOMAIN fills |->
                            IF fills[i].order = o /\ o >= resetAt THEN <<fills[i]>> ELSE <<>>]
    <2>1. \A i \in 1..Len(fills) : seqs[i] \in Seq(NewFill)
        BY <1>1
    <2>2. seqs = [i \in 1..Len(fills) |-> seqs[i]]
        BY <1>1
    <2>3. CountedOf(o) = FlattenSeq(seqs)
        BY DEF CountedOf
    <2> HIDE DEF seqs
    <2>4. seqs \in Seq(Seq(NewFill))
        BY <1>1, <2>1, <2>2
    <2> QED
        BY <2>3, <2>4, FlattenIs
<1> DEFINE all == [o \in Orders |-> CountedOf(o)]
<1>3. all \in Seq(Seq(NewFill))
    <2>1. LastOrder \in Nat /\ Orders = 1..LastOrder
        BY TrackerAssumption DEF Orders
    <2> QED
        BY <1>2, <2>1
<1>4. Counted = FlattenSeq(all)
    BY DEF Counted
<1> HIDE DEF all
<1> QED
    BY <1>3, <1>4, FlattenIs

(* The first trades, and a stretch of the shares. *)
LEMMA SoldInIs ==
    ASSUME NEW trades \in Seq(Trade), NEW t, NEW r, NEW total, Trades(trades, t, r, total),
           NEW first \in Seq(Trade), Len(first) <= Len(trades),
           \A i \in 1..Len(first) : first[i] = trades[i]
    PROVE  SharesSoldIn(first) = t[Len(first)]
<1> DEFINE n == Len(first)
           q == [i \in DOMAIN first |-> first[i].quantity]
<1>1. n \in Nat /\ Len(trades) \in Nat /\ DOMAIN first = 1..n /\ \A i \in 1..n : first[i] \in Trade
    OBVIOUS
<1>2. \A i \in 1..n : q[i] = first[i].quantity /\ first[i].quantity \in Int
    BY <1>1 DEF Trade
<1>3. q \in Seq(Int) /\ Len(q) = n
    BY <1>1, <1>2
<1>4. /\ t \in [0..Len(trades) -> Nat] /\ t[0] = 0
      /\ \A i \in 1..Len(trades) : t[i] = t[i - 1] + trades[i].quantity
    BY DEF Trades
<1>5. SharesSoldIn(first) = Total(q)
    BY DEF SharesSoldIn
<1> HIDE DEF q
<1>6. \A k \in 0..n : t[0 + k] \in Int
    <2>1. \A k \in 0..n : 0 + k = k /\ k \in 0..Len(trades)
        BY <1>1
    <2> QED
        BY <1>4, <2>1
<1>7. \A k \in 1..n : t[0 + k] = t[0 + k - 1] + q[k]
    <2> SUFFICES ASSUME NEW k \in 1..n PROVE t[0 + k] = t[0 + k - 1] + q[k]
        OBVIOUS
    <2>1. 0 + k = k /\ 0 + k - 1 = k - 1 /\ k \in 1..Len(trades)
        BY <1>1
    <2>2. t[k] = t[k - 1] + trades[k].quantity
        BY <1>4, <2>1
    <2>3. first[k].quantity = trades[k].quantity
        OBVIOUS
    <2> HIDE DEF n
    <2> QED
        BY <1>2, <2>1, <2>2, <2>3
<1>8. Total(q) = t[0 + Len(q)] - t[0]
    <2>1. 0 \in Nat
        OBVIOUS
    <2> HIDE DEF n
    <2> QED
        BY <1>3, <1>6, <1>7, <2>1, TotalBetween
<1>9. 0 + n = n /\ t[n] \in Nat
    BY <1>1, <1>4
<1> QED
    BY <1>3, <1>4, <1>5, <1>8, <1>9

LEMMA StretchIs ==
    ASSUME NEW prices \in Seq(Int), NEW r, Running(r, prices), NEW a \in Nat, NEW k \in Nat,
           a + k <= Len(prices)
    PROVE  Total(SubSeq(prices, a + 1, a + k)) = r[a + k] - r[a]
<1> DEFINE q == SubSeq(prices, a + 1, a + k)
<1>1. Len(prices) \in Nat
    OBVIOUS
<1>2. q \in Seq(Int) /\ Len(q) = k
    OBVIOUS
<1>3. \A i \in 1..k : q[i] = prices[a + i] /\ a + i \in 1..Len(prices)
    BY <1>1
<1> HIDE DEF q
<1>4. r \in [0..Len(prices) -> Int] /\ \A i \in 1..Len(prices) : r[i] = r[i - 1] + prices[i]
    BY DEF Running
<1>5. \A i \in 0..k : r[a + i] \in Int
    <2>1. \A i \in 0..k : a + i \in 0..Len(prices)
        BY <1>1
    <2> QED
        BY <1>4, <2>1
<1>6. \A i \in 1..k : r[a + i] = r[a + i - 1] + q[i]
    BY <1>3, <1>4
<1>7. Total(q) = r[a + Len(q)] - r[a]
    BY <1>2, <1>5, <1>6, TotalBetween
<1> QED
    BY <1>2, <1>7 DEF q

LEMMA LotsHold ==
    ASSUME NEW lots, NEW prices, NEW a, NEW b, StockOf(lots, prices, a, b)
    PROVE  Total([i \in DOMAIN lots |-> lots[i].quantity]) = b - a
<1> DEFINE n == Len(lots)
           q == [i \in DOMAIN lots |-> lots[i].quantity]
<1>1. PICK f : Stock(lots, f, prices, a, b)
    BY DEF StockOf
<1>2. lots \in Seq(Lot) /\ n \in Nat /\ DOMAIN lots = 1..n /\ \A i \in 1..n : lots[i] \in Lot
    BY DEF StockOf
<1>3. \A i \in 1..n : q[i] = lots[i].quantity /\ lots[i].quantity \in Int
    BY <1>2 DEF Lot
<1>4. q \in Seq(Int) /\ Len(q) = n
    BY <1>2, <1>3
<1>5. /\ f \in [0..n -> Nat] /\ f[0] = a /\ f[n] = b
      /\ \A i \in 1..n : f[i] = f[i - 1] + lots[i].quantity
    BY <1>1 DEF Stock
<1> HIDE DEF q, n
<1>6. \A k \in 0..n : f[0 + k] \in Int /\ 0 + k = k
    <2>1. \A k \in 0..n : 0 + k = k
        BY <1>2
    <2> QED
        BY <1>5, <2>1
<1>7. \A k \in 1..n : f[0 + k] = f[0 + k - 1] + q[k]
    <2>1. \A k \in 1..n : 0 + k = k /\ 0 + k - 1 = k - 1
        BY <1>2
    <2> QED
        BY <1>3, <1>5, <2>1
<1>8. Total(q) = f[0 + Len(q)] - f[0]
    <2>1. 0 \in Nat
        OBVIOUS
    <2> QED
        BY <1>4, <1>6, <1>7, <2>1, TotalBetween
<1>9. 0 + n = n
    BY <1>2
<1> QED
    BY <1>4, <1>5, <1>8, <1>9 DEF q

LEMMA FifoOf ==
    ASSUME Counted \in Seq(NewFill)
    PROVE  TradesAreFifo
<1> DEFINE n == Len(Counted)
           shares == [i \in DOMAIN Counted |-> SharesOf(Counted[i])]
           sales == [i \in DOMAIN Counted |-> SoldBy(Counted[i])]
<1>1. n \in Nat /\ DOMAIN Counted = 1..n /\ \A i \in 1..n : Counted[i] \in NewFill
    OBVIOUS
<1>2. \A i \in 1..n : SharesOf(Counted[i]) \in Seq(Int) /\ SoldBy(Counted[i]) \in Nat
    BY <1>1, SharesTyped
<1>3. shares \in Seq(Seq(Int)) /\ sales \in Seq(Int) /\ Len(sales) = n
    BY <1>1, <1>2
<1>4. SharesBought = FlattenSeq(shares)
    BY DEF SharesBought, SharesOf
<1>5. Total([i \in DOMAIN Counted |-> IF Counted[i].order \in Buys THEN 0 ELSE Counted[i].delta]) = Total(sales)
    BY DEF SoldBy
<1> HIDE DEF shares, sales
<1>6. PICK prices : prices = SharesBought
    OBVIOUS
<1>7. prices \in Seq(Int) /\ \E f : Places(f, shares, prices)
    BY <1>3, <1>4, <1>6, FlattenIs
<1>8. PICK f : Places(f, shares, prices)
    BY <1>7
<1>9. PICK s : Running(s, sales) /\ Total(sales) = s[n]
    BY <1>3, RunningExists
<1>10. PICK r : Running(r, prices)
    BY <1>7, RunningExists
<1>11. Bounds(f, s, prices)
    BY <1>8, <1>9 DEF Bounds, shares, sales
<1>12. PICK report : report = Report
    OBVIOUS
<1>13. Reported(report, prices, r, Len(prices), s[n])
    <2>1. f[n] = Len(prices)
        BY <1>7, <1>11, BoundsStep
    <2>2. Reported(Report, prices, r, f[n], s[n])
        BY <1>7, <1>10, <1>11, ReportIs
    <2> QED
        BY <1>12, <2>1, <2>2
<1>14. report.trades \in Seq(Trade) /\ report.incomplete \in Nat /\ report.lots \in Seq(Lot)
    BY <1>13 DEF Reported, ReportType
<1>15. PICK total \in Nat : /\ total + report.incomplete = s[n]
                            /\ StockOf(report.lots, prices, total, Len(prices))
                            /\ \E t : Trades(report.trades, t, r, total)
    BY <1>13 DEF Reported
<1>16. PICK t : Trades(report.trades, t, r, total)
    BY <1>15
<1>17. /\ t \in [0..Len(report.trades) -> Nat] /\ t[Len(report.trades)] = total
       /\ \A i \in 1..Len(report.trades) : /\ t[i] = t[i - 1] + report.trades[i].quantity
                                           /\ t[i] <= total
                                           /\ report.trades[i].cost = r[t[i]] - r[t[i - 1]]
    BY <1>16 DEF Trades
<1>18. SharesSoldIn(report.trades) = total
    <2>1. Len(report.trades) <= Len(report.trades)
        BY <1>14
    <2>2. SharesSoldIn(report.trades) = t[Len(report.trades)]
        BY <1>14, <1>16, <2>1, SoldInIs
    <2> QED
        BY <1>17, <2>2
<1>19. total <= Len(prices) /\ Len(prices) \in Nat
    <2>1. PICK g : Stock(report.lots, g, prices, total, Len(prices))
        BY <1>15 DEF StockOf
    <2>2. /\ Len(report.lots) \in Nat /\ g[Len(report.lots)] = Len(prices)
          /\ \A j \in 0..Len(report.lots) : g[j] \in Nat /\ total <= g[j]
        <3>1. PICK lots : lots = report.lots
            OBVIOUS
        <3>2. Stock(lots, g, prices, total, Len(prices)) /\ lots \in Seq(Lot)
            BY <1>14, <2>1, <3>1
        <3>3. \A j \in 0..Len(lots) : g[j] \in Nat /\ total <= g[j]
            BY <3>2, StockWithin
        <3>4. Len(lots) \in Nat /\ g[Len(lots)] = Len(prices)
            BY <3>2 DEF Stock
        <3> QED
            BY <3>1, <3>3, <3>4
    <2>3. Len(report.lots) \in 0..Len(report.lots)
        BY <2>2
    <2> QED
        BY <2>2, <2>3
<1>20. ASSUME NEW i \in DOMAIN report.trades
       PROVE  LET before == SharesSoldIn(SubSeq(report.trades, 1, i - 1))
              IN  report.trades[i].cost =
                      Total(SubSeq(prices, before + 1, before + report.trades[i].quantity))
    <2> DEFINE first == SubSeq(report.trades, 1, i - 1)
    <2>1. i \in 1..Len(report.trades) /\ Len(report.trades) \in Nat /\ report.trades[i] \in Trade
        BY <1>14
    <2>2. first \in Seq(Trade) /\ Len(first) = i - 1 /\ i - 1 <= Len(report.trades)
        BY <1>14, <2>1
    <2>3. \A k \in 1..(i - 1) : first[k] = report.trades[k]
        BY <1>14, <2>1
    <2> HIDE DEF first
    <2>4. SharesSoldIn(first) = t[i - 1]
        BY <1>14, <1>16, <2>2, <2>3, SoldInIs
    <2>5. PICK q : q = report.trades[i].quantity
        OBVIOUS
    <2>6. PICK a : a = t[i - 1]
        OBVIOUS
    <2>7. q \in Nat /\ a \in Nat /\ t[i] = a + q /\ t[i] <= total /\ report.trades[i].cost = r[t[i]] - r[a]
        <3>1. i - 1 \in 0..Len(report.trades)
            BY <2>1
        <3>2. report.trades[i].quantity \in Nat
            BY <2>1 DEF Trade
        <3> QED
            BY <1>17, <2>1, <2>5, <2>6, <3>1, <3>2
    <2>8. a + q <= Len(prices)
        BY <1>15, <1>19, <2>7
    <2>9. Total(SubSeq(prices, a + 1, a + q)) = r[a + q] - r[a]
        BY <1>7, <1>10, <2>7, <2>8, StretchIs
    <2> QED
        BY <2>4, <2>5, <2>6, <2>7, <2>9 DEF first
<1>21. Total([i \in DOMAIN report.lots |-> report.lots[i].quantity]) = Len(prices) - total
    BY <1>15, LotsHold
<1>22. total + (Len(prices) - total) = Len(prices)
    BY <1>15, <1>19
<1> QED
    BY <1>5, <1>6, <1>9, <1>12, <1>15, <1>18, <1>20, <1>21, <1>22 DEF TradesAreFifo

-----------------------------------------------------------------------------
(* Every fill adds something: it is of an entry that goes beyond what was seen. *)
FillsAdd == \A i \in DOMAIN fills : fills[i].delta # 0

LEMMA FillsAddStep ==
    ASSUME FillsInv, FillsAdd, [FillsNext]_fillVars
    PROVE  FillsAdd'
<1>1. CASE RecordFill
    <2>1. PICK entry \in history : fills' = Append(fills, FillOf(entry))
        BY <1>1 DEF RecordFill
    <2>2. seen[entry.order] < entry.quantity /\ seen[entry.order] \in Nat /\ entry.quantity \in Nat
        BY <2>1 DEF FillsInv, FillTypes, HistoryNew, Entry
    <2>3. FillOf(entry).delta # 0
        BY <2>2 DEF FillOf
    <2>4. PICK fill : fill = FillOf(entry)
        OBVIOUS
    <2>5. fills \in Seq(Fill)
        BY DEF FillsInv, FillTypes
    <2>6. \A i \in DOMAIN Append(fills, fill) :
             \/ i \in DOMAIN fills /\ Append(fills, fill)[i] = fills[i]
             \/ Append(fills, fill)[i] = fill
        BY <2>5
    <2> QED
        BY <2>1, <2>3, <2>4, <2>6 DEF FillsAdd
<1>2. CASE UNCHANGED fills
    BY <1>2 DEF FillsAdd
<1>3. RecordFill \/ UNCHANGED fills
    BY DEF FillsNext, fillVars, Execute, BeginRecord, AppendFails, Restart, SetResetAt
<1> QED
    BY <1>1, <1>2, <1>3

(* Whatever was filled, in whatever order of rounds, restarts and refusals, and *)
(* wherever the statistics begin: the report matches share by share, oldest     *)
(* first, across lots that are sold in part and sales larger than any stock     *)
(* (computePerformanceReport of the paper and the live performance).            *)
THEOREM TradesAlwaysFifo == FillsSpec => []TradesAreFifo
<1>1. FillsInit => FillsAdd
    BY DEF FillsInit, FillsAdd
<1>2. FillsInv /\ FillsAdd /\ [FillsNext]_fillVars => FillsAdd'
    BY FillsAddStep
<1>3. FillsInv /\ FillsAdd => TradesAreFifo
    <2> SUFFICES ASSUME FillsInv, FillsAdd PROVE TradesAreFifo
        OBVIOUS
    <2>1. Len(fills) \in Nat /\ DOMAIN fills = 1..Len(fills) /\ fills \in [1..Len(fills) -> Fill]
        BY DEF FillsInv, FillTypes
    <2>2. fills \in Seq(NewFill)
        BY <2>1 DEF FillsAdd, NewFill
    <2> QED
        BY <2>2, CountedTyped, FifoOf
<1> QED
    BY FillsInvariant, <1>1, <1>2, <1>3, PTL DEF FillsSpec
=============================================================================
