---------------------------- MODULE ServerProcess ----------------------------
(* Server processes over one data directory: the instance lock and the shutdown *)
(* of app.js. Several processes may be started; the system gives each a number, *)
(* and to other programs too. Any process may be killed between two system      *)
(* calls. The journal is reduced to the number of its last line: a process      *)
(* counts on from the number it read at its start (executionJournal.js).        *)
EXTENDS Integers

CONSTANTS
    Pids,           \* process numbers, given again when they are free
    Nobody,         \* not a process: no lock file, or nothing in it
    MaxLines        \* bound: lines of the journal

ASSUME ServerAssumption == Nobody \notin Pids /\ MaxLines \in Nat

VARIABLES
    proc,       \* what runs under each number, and the lock it read
    lock,       \* server.lock: is it there, whose number is in it
    lines,      \* execution-journal.jsonl: the number of its last line
    count,      \* sequence, of each server
    damaged,    \* a line does not follow the one before it
    raced       \* two starts have overlapped

serverVars == <<proc, lock, lines, count, damaged, raced>>

Stages == {"free", "other", "started", "found", "read", "passed", "truncated",
           "locked", "running", "closing"}

NoLock == [there |-> FALSE, pid |-> Nobody]

Free == [at |-> "free", previous |-> Nobody]

ServerInit ==
    /\ proc = [p \in Pids |-> Free]
    /\ lock = NoLock
    /\ lines = 0 /\ count = [p \in Pids |-> 0]
    /\ damaged = FALSE /\ raced = FALSE

At(p, stages) == proc[p].at \in stages

(* isProcessAlive: any program's.                                               *)
Alive(p) == ~At(p, {"free"})

(* Between the first look at the lock and the number written into it.           *)
Starting == {"started", "found", "read", "passed", "truncated"}

Moves(p, stage) == proc' = [proc EXCEPT ![p].at = stage]

Ends(p) == proc' = [proc EXCEPT ![p] = Free]

(* A server is started, or another program gets the number; that one may end.   *)
Launch(p) ==
    /\ At(p, {"free"})
    /\ Moves(p, "started")
    /\ raced' = (raced \/ \E q \in Pids : At(q, Starting))
    /\ UNCHANGED <<lock, lines, count, damaged>>

OtherProgram(p) ==
    /\ \/ At(p, {"free"}) /\ Moves(p, "other")
       \/ At(p, {"other"}) /\ Ends(p)
    /\ UNCHANGED <<lock, lines, count, damaged, raced>>

LookForLock(p) ==
    /\ At(p, {"started"})
    /\ Moves(p, IF lock.there THEN "found" ELSE "passed")
    /\ UNCHANGED <<lock, lines, count, damaged, raced>>

(* readFileSync throws when the file has gone: the process ends.                *)
ReadLock(p) ==
    /\ At(p, {"found"})
    /\ IF lock.there
       THEN proc' = [proc EXCEPT ![p] = [at |-> "read", previous |-> lock.pid]]
       ELSE Ends(p)
    /\ UNCHANGED <<lock, lines, count, damaged, raced>>

(* Number("") is no process; one's own number is a dead server's.               *)
Held(p) ==
    /\ proc[p].previous \notin {Nobody, p}
    /\ Alive(proc[p].previous)

CheckLock(p) ==
    /\ At(p, {"read"})
    /\ IF Held(p) THEN Ends(p) ELSE Moves(p, "passed")
    /\ UNCHANGED <<lock, lines, count, damaged, raced>>

(* writeFileSync empties the file, then writes the number.                      *)
TruncateLock(p) ==
    /\ At(p, {"passed"})
    /\ lock' = [there |-> TRUE, pid |-> Nobody]
    /\ Moves(p, "truncated")
    /\ UNCHANGED <<lines, count, damaged, raced>>

WriteLock(p) ==
    /\ At(p, {"truncated"})
    /\ lock' = IF lock.there THEN [lock EXCEPT !.pid = p] ELSE lock
    /\ Moves(p, "locked")
    /\ UNCHANGED <<lines, count, damaged, raced>>

(* The journal is read and checked: a damaged one ends the start.               *)
Load(p) ==
    /\ At(p, {"locked"})
    /\ IF damaged
       THEN Ends(p) /\ UNCHANGED count
       ELSE Moves(p, "running") /\ count' = [count EXCEPT ![p] = lines]
    /\ UNCHANGED <<lock, lines, damaged, raced>>

(* SESSION_STARTED, and whatever the services write: what was under way when a  *)
(* shutdown began may still write until the process ends.                       *)
AppendLine(p) ==
    /\ At(p, {"running", "closing"}) /\ lines < MaxLines
    /\ count' = [count EXCEPT ![p] = @ + 1]
    /\ damaged' = (damaged \/ count[p] # lines)
    /\ lines' = lines + 1
    /\ UNCHANGED <<proc, lock, raced>>

(* Mutant: the lock is given up when the shutdown begins. *)
LockGivenUp == NoLock

LockKept == lock

(* SIGINT or SIGTERM, the first one: timers and streams stop, the server and    *)
(* its connections are closed.                                                  *)
Shutdown(p) ==
    /\ At(p, {"running"})
    /\ Moves(p, "closing")
    /\ lock' = LockKept
    /\ UNCHANGED <<lines, count, damaged, raced>>

(* finish: the server has closed, or three seconds have passed. The file is     *)
(* removed whosever number is in it.                                            *)
Finish(p) ==
    /\ At(p, {"closing"})
    /\ lock' = NoLock
    /\ Ends(p)
    /\ UNCHANGED <<lines, count, damaged, raced>>

(* Killed, or the start failed on something else: the lock stays.               *)
Killed(p) ==
    /\ ~At(p, {"free", "other"})
    /\ Ends(p)
    /\ UNCHANGED <<lock, lines, count, damaged, raced>>

ServerNext ==
    \E p \in Pids :
        \/ Launch(p) \/ OtherProgram(p) \/ LookForLock(p) \/ ReadLock(p) \/ CheckLock(p)
        \/ TruncateLock(p) \/ WriteLock(p) \/ Load(p) \/ AppendLine(p)
        \/ Shutdown(p) \/ Finish(p) \/ Killed(p)

ServerSpec == ServerInit /\ [][ServerNext]_serverVars

-----------------------------------------------------------------------------
ServerTypeOK ==
    /\ proc \in [Pids -> [at : Stages, previous : Pids \cup {Nobody}]]
    /\ lock \in [there : BOOLEAN, pid : Pids \cup {Nobody}]
    /\ lines \in 0..MaxLines /\ count \in [Pids -> 0..MaxLines]
    /\ damaged \in BOOLEAN /\ raced \in BOOLEAN

Servers == {p \in Pids : At(p, {"locked", "running", "closing"})}

(* Whatever is killed, shut down or given an old number, and whenever: as long  *)
(* as no two starts overlap, one process at a time writes the journal, and its  *)
(* lines follow each other (the lock of app.js:60-89, and its removal at the    *)
(* very end of the shutdown).                                                   *)
JournalWhole == ~raced => ~damaged /\ \A p, q \in Servers : p = q
=============================================================================
