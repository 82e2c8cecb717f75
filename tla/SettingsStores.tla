---------------------------- MODULE SettingsStores ----------------------------
(* What the user sets and a restart must find again: the routes of app.js over  *)
(* PaperAutoTradingConfigStore, SelectedInstrumentStore and                     *)
(* StrategySettingsStore. One server at a time (ServerProcess: JournalWhole).   *)
(* A change is one run of the server's thread, but the server may be killed     *)
(* between two of its file operations; each of them may fail. Every store       *)
(* writes a temporary file and renames it, so a file is the old or the new one. *)
(* A change that is refused by its normaliser (400) changes nothing.            *)
EXTENDS Integers, Sequences

CONSTANTS
    Parts,          \* of paper-auto-trading-config.json
    Values,         \* what a setting can be
    Default,        \* of the environment or the code
    Enabled,        \* the values of "settings" with enabled = true
    Unset,          \* not in the file, or no file
    MaxChanges      \* bound: changes asked for

ASSUME StoresAssumption ==
    /\ "settings" \in Parts /\ {"strategy", "selection"} \cap Parts = {}
    /\ Default \in Values /\ Enabled \subseteq Values /\ Unset \notin Values
    /\ MaxChanges \in Nat

Things == Parts \cup {"strategy", "selection"}

VARIABLES
    up,         \* the server runs
    file,       \* what the files hold
    past,       \* strategy-settings.json.history.jsonl: the settings of each version
    torn,       \* a line of it is incomplete
    memory,     \* what the server goes by
    timer,      \* autoTradingTimer is set
    change,     \* the change under way
    acked,      \* the last value of each thing that was answered with 200
    tried,      \* the values asked for since, and not so answered
    removed,    \* selected-instrument.json was removed to make place for a new one
    changes     \* changes asked for

storeVars == <<up, file, past, torn, memory, timer, change, acked, tried, removed, changes>>

NoChange == [step |-> "none", thing |-> Unset, value |-> Unset]

StoresInit ==
    /\ up = FALSE
    /\ file = [x \in Things |-> Unset]
    /\ past = <<>> /\ torn = FALSE
    /\ memory = [x \in Things |-> Default]
    /\ timer = FALSE /\ change = NoChange
    /\ acked = [x \in Things |-> Default]
    /\ tried = [x \in Things |-> {}]
    /\ removed = FALSE /\ changes = 0

Found(x) == IF file[x] = Unset THEN Default ELSE file[x]

(* The stores are loaded; restartAutoTradingTimer.                              *)
Start ==
    /\ ~up
    /\ up' = TRUE
    /\ memory' = [x \in Things |-> Found(x)]
    /\ timer' = (Found("settings") \in Enabled)
    /\ UNCHANGED <<file, past, torn, change, acked, tried, removed, changes>>

(* The parts of the configuration are in force before they are saved; the       *)
(* others are saved first.                                                      *)
Begin(x, v) ==
    /\ up /\ change.step = "none" /\ changes < MaxChanges
    /\ change' = [step |-> "save", thing |-> x, value |-> v]
    /\ memory' = IF x \in Parts THEN [memory EXCEPT ![x] = v] ELSE memory
    /\ tried' = [tried EXCEPT ![x] = @ \cup {v}]
    /\ changes' = changes + 1
    /\ UNCHANGED <<up, file, past, torn, timer, acked, removed>>

Change == \E x \in Things, v \in Values : Begin(x, v)

(* restore(version): a damaged history cannot be read.                          *)
Restore ==
    /\ ~torn
    /\ \E version \in DOMAIN past : Begin("strategy", past[version])

Doing(steps) == up /\ change.step \in steps

(* Mutant: the parts that were not given are not kept. *)
SavedAlone ==
    [x \in Things |-> IF x = change.thing THEN change.value
                      ELSE IF x \in Parts /\ change.thing \in Parts THEN Unset ELSE file[x]]

(* save: the other parts are kept as they are in the file.                      *)
Saved == [file EXCEPT ![change.thing] = change.value]

AfterSave == IF change.thing = "strategy" THEN "history" ELSE "answer"

Save ==
    /\ Doing({"save", "again"})
    /\ file' = Saved
    /\ change' = [change EXCEPT !.step = AfterSave]
    /\ UNCHANGED <<up, past, torn, memory, timer, acked, tried, removed, changes>>

(* The directory, the temporary file or the rename: 500, and the timer is left  *)
(* as it was.                                                                   *)
SaveFails ==
    /\ Doing({"save", "again"})
    /\ change' = NoChange
    /\ UNCHANGED <<up, file, past, torn, memory, timer, acked, tried, removed, changes>>

(* SelectedInstrumentStore: when the rename fails the old file is removed and   *)
(* the rename is tried again.                                                   *)
RemoveOld ==
    /\ Doing({"save"}) /\ change.thing = "selection" /\ file["selection"] # Unset
    /\ file' = [file EXCEPT !["selection"] = Unset]
    /\ removed' = TRUE
    /\ change' = [change EXCEPT !.step = "again"]
    /\ UNCHANGED <<up, past, torn, memory, timer, acked, tried, changes>>

(* appendHistory reads all of the history for the number of the new version.    *)
RecordVersion ==
    /\ Doing({"history"}) /\ ~torn
    /\ past' = Append(past, change.value)
    /\ change' = [change EXCEPT !.step = "answer"]
    /\ UNCHANGED <<up, file, torn, memory, timer, acked, tried, removed, changes>>

(* Mutant: a history that cannot be written stops nothing. *)
NotRecorded == [change EXCEPT !.step = "answer"]

ChangeFailed == NoChange

(* A damaged history, or an append that fails, perhaps in the middle: 500, with *)
(* the new settings in the file and the old ones in force.                      *)
RecordFails ==
    /\ Doing({"history"})
    /\ torn' \in {torn, TRUE}
    /\ change' = ChangeFailed
    /\ UNCHANGED <<up, file, past, memory, timer, acked, tried, removed, changes>>

(* The rest of the run: in force, the timer set anew, and the answer 200.       *)
Answer ==
    /\ Doing({"answer"})
    /\ memory' = [memory EXCEPT ![change.thing] = change.value]
    /\ timer' = IF change.thing = "settings" THEN change.value \in Enabled ELSE timer
    /\ acked' = [acked EXCEPT ![change.thing] = change.value]
    /\ tried' = [tried EXCEPT ![change.thing] = {}]
    /\ removed' = (removed /\ change.thing # "selection")
    /\ change' = NoChange
    /\ UNCHANGED <<up, file, past, torn, changes>>

Kill ==
    /\ up
    /\ up' = FALSE
    /\ torn' \in IF change.step = "history" THEN {torn, TRUE} ELSE {torn}
    /\ change' = NoChange /\ timer' = FALSE
    /\ UNCHANGED <<file, past, memory, acked, tried, removed, changes>>

StoresNext ==
    \/ Start \/ Change \/ Restore \/ Save \/ SaveFails \/ RemoveOld
    \/ RecordVersion \/ RecordFails \/ Answer \/ Kill

StoresSpec == StoresInit /\ [][StoresNext]_storeVars

-----------------------------------------------------------------------------
StoresTypeOK ==
    /\ up \in BOOLEAN /\ torn \in BOOLEAN /\ timer \in BOOLEAN /\ removed \in BOOLEAN
    /\ file \in [Things -> Values \cup {Unset}]
    /\ past \in Seq(Values)
    /\ memory \in [Things -> Values] /\ acked \in [Things -> Values]
    /\ tried \in [Things -> SUBSET Values]
    /\ change.step \in {"none", "save", "again", "history", "answer"}

(* What a restart finds, and what the server goes by, is the last value that    *)
(* was answered, or one asked for since whose change failed: never an older     *)
(* one, through failures, kills and changes of other things. The one exception: *)
(* a selection file removed before its successor was in place. Trading runs on  *)
(* its timer if the settings say so, unless a change of them failed.            *)
SettingsKept ==
    /\ \A x \in Things :
          LET fits == {acked[x]} \cup tried[x]
          IN  (x = "selection" => ~removed) => Found(x) \in fits /\ (up => memory[x] \in fits)
    /\ up /\ tried["settings"] = {} => timer = (memory["settings"] \in Enabled)

(* The strategy settings in force by an answer are in the history, and nothing  *)
(* follows them there but changes that failed: a version number means the same  *)
(* settings for good (StrategySettingsStore.save, restore).                     *)
HistoryKept ==
    \E i \in 0..Len(past) :
        /\ acked["strategy"] = IF i = 0 THEN Default ELSE past[i]
        /\ \A j \in DOMAIN past : j > i => past[j] \in tried["strategy"]
=============================================================================
