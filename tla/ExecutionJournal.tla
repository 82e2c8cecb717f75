--------------------------- MODULE ExecutionJournal ---------------------------
(***************************************************************************)
(* The execution journal: a JSON-lines file that one process at a time     *)
(* appends to, and that the next process validates line by line before it  *)
(* starts.  An append opens, writes, syncs and closes the file; each of    *)
(* the four can fail, the process can be killed between them and the       *)
(* machine can lose power.                                                 *)
(*                                                                         *)
(* What one write leaves in the file is a piece: a whole line, a whole     *)
(* event that lost its newline, or the torn beginning of an event.  Bytes  *)
(* are appended, so the piece that follows one without a newline shares    *)
(* its line.  Events are numbered in the order their appends were tried;   *)
(* timestamps, session ids and payloads are data left out.                 *)
(***************************************************************************)
EXTENDS Naturals, Sequences, FiniteSets

CONSTANTS
  MaxEvents,         \* bound: appends tried
  MaxStops,          \* bound: ends of the process
  FailurePoints,     \* the calls of an append that can fail
  Fragments          \* what a write cut short can leave

ASSUME JournalAssumption ==
  /\ MaxEvents \in Nat
  /\ MaxStops \in Nat
  /\ FailurePoints \subseteq {"open", "write", "fsync", "close"}
  /\ Fragments \subseteq {"torn", "bare"}

VARIABLES
  pieces,            \* the file, in order
  synced,            \* how many pieces are on stable storage
  running,           \* the process is running
  sequence,          \* this.sequence
  known,             \* events this process read at its start or appended since
  acknowledged,      \* events whose append returned to its caller
  attempts,          \* appends tried so far
  stops,             \* ends of the process so far
  clean              \* the faults of this behaviour leave nothing behind

journalVars == <<pieces, synced, running, sequence, known, acknowledged, attempts, stops, clean>>

Piece == [event : 1..MaxEvents, seq : 1..MaxEvents, part : {"line", "bare", "torn"}]

(* The type invariant: what each variable may hold. *)
TypeOK ==
  /\ pieces \in Seq(Piece)
  /\ synced \in 0..Len(pieces)
  /\ running \in BOOLEAN
  /\ sequence \in 0..MaxEvents
  /\ known \subseteq 1..MaxEvents
  /\ acknowledged \subseteq 1..MaxEvents
  /\ attempts \in 0..MaxEvents
  /\ stops \in 0..MaxStops
  /\ clean \in BOOLEAN

JournalInit ==
  /\ pieces = <<>>
  /\ synced = 0
  /\ running = TRUE
  /\ sequence = 0
  /\ known = {}
  /\ acknowledged = {}
  /\ attempts = 0
  /\ stops = 0
  /\ clean \in BOOLEAN

(* In a clean behaviour an append fails only before it writes, and a write *)
(* is never cut short.                                                     *)
Failing == IF clean THEN FailurePoints \cap {"open"} ELSE FailurePoints

Cut == IF clean THEN {} ELSE Fragments

(***************************************************************************)
(* readAll(): the validation of the file.                                  *)
(***************************************************************************)
(* JSON.parse takes a line that holds one whole event; only the last line  *)
(* may lack its newline.                                                   *)
WholeLine(k) ==
  \/ pieces[k].part = "line"
  \/ pieces[k].part = "bare" /\ k = Len(pieces)

(* Mutant: lines that cannot be parsed are skipped. *)
ReadableSkippingDamage ==
  \A k \in 1..Len(pieces) : WholeLine(k) => pieces[k].seq = k

Readable ==
  \A k \in 1..Len(pieces) : WholeLine(k) /\ pieces[k].seq = k

(* The events on lines of their own. *)
ReadEvents ==
  {pieces[k].event : k \in {n \in 1..Len(pieces) :
                              WholeLine(n) /\ (n = 1 \/ WholeLine(n - 1))}}

(***************************************************************************)
(* append()                                                                *)
(***************************************************************************)
Try == running /\ attempts < MaxEvents /\ attempts' = attempts + 1

Written(part) ==
  Append(pieces, [event |-> attempts + 1, seq |-> sequence + 1, part |-> part])

(* Mutant: the sync is left out. *)
SyncSkipped == UNCHANGED synced

Sync == synced' = Len(pieces')

AppendEvent ==
  /\ Try
  /\ pieces' = Written("line")
  /\ Sync
  /\ sequence' = sequence + 1
  /\ known' = known \cup {attempts'}
  /\ acknowledged' = acknowledged \cup {attempts'}
  /\ UNCHANGED <<running, stops, clean>>

(* Mutant: the number is taken before the event is written. *)
SequenceTaken == sequence' = sequence + 1

SequenceKept == UNCHANGED sequence

(* The append throws; the caller goes on.  What is in the file by then     *)
(* stays there.                                                            *)
AppendThrows ==
  /\ Try
  /\ SequenceKept
  /\ \/ /\ "open" \in Failing
        /\ UNCHANGED <<pieces, synced>>
     \/ /\ "write" \in Failing
        /\ \E part \in Cut : pieces' = Written(part)
        /\ UNCHANGED synced
     \/ /\ "fsync" \in Failing
        /\ pieces' = Written("line")
        /\ UNCHANGED synced
     \/ /\ "close" \in Failing
        /\ pieces' = Written("line")
        /\ Sync
  /\ UNCHANGED <<running, known, acknowledged, stops, clean>>

(* append() refuses a type EVENT_TYPES does not name before it opens the    *)
(* file.  The services do append such types and swallow the refusal.       *)
AppendUnregistered ==
  /\ Try
  /\ UNCHANGED <<pieces, synced, running, sequence, known, acknowledged, stops, clean>>

(***************************************************************************)
(* The process ends and starts again.                                      *)
(***************************************************************************)
Stop == running' = FALSE /\ stops < MaxStops /\ stops' = stops + 1

Exit ==
  /\ running
  /\ Stop
  /\ UNCHANGED <<pieces, synced, sequence, known, acknowledged, attempts, clean>>

(* Killed between the write and the return of an append. *)
ExitInAppend ==
  /\ Try
  /\ Stop
  /\ \E part \in Cut \cup {"line"} : pieces' = Written(part)
  /\ UNCHANGED <<synced, sequence, known, acknowledged, clean>>

(* The operating system had not written the unsynced tail, or not all of   *)
(* it.                                                                     *)
PowerLoss ==
  /\ Stop
  /\ \E n \in synced..Len(pieces) :
       \/ pieces' = SubSeq(pieces, 1, n)
       \/ /\ n < Len(pieces)
          /\ \E part \in Cut :
               /\ pieces[n + 1].part = "line" \/ part = "torn"
               /\ pieces' = Append(SubSeq(pieces, 1, n), [pieces[n + 1] EXCEPT !.part = part])
  /\ UNCHANGED <<synced, sequence, known, acknowledged, attempts, clean>>

(* The constructor: it refuses an unreadable file, and then nothing runs.  *)
OpenJournal ==
  /\ ~running
  /\ Readable
  /\ running' = TRUE
  /\ sequence' = IF pieces = <<>> THEN 0 ELSE pieces[Len(pieces)].seq
  /\ known' = ReadEvents
  /\ UNCHANGED <<pieces, synced, acknowledged, attempts, stops, clean>>

JournalNext ==
  \/ AppendEvent \/ AppendThrows \/ AppendUnregistered
  \/ Exit \/ ExitInAppend \/ PowerLoss \/ OpenJournal

JournalSpec == JournalInit /\ [][JournalNext]_journalVars

(***************************************************************************)
(* Properties                                                              *)
(***************************************************************************)
(* An event whose append returned is on stable storage for good: no kill,  *)
(* no loss of power and no later failed append takes it away.              *)
AckedDurable ==
  \A e \in acknowledged : \E k \in 1..synced : pieces[k].event = e /\ pieces[k].part = "line"

(* A running process knows every event any process was told is written:    *)
(* it never starts from a file that lost or buried one.                    *)
NothingForgotten == running => acknowledged \subseteq known

(* When failed appends leave nothing behind, the file can be read: a       *)
(* process that stopped can be started again.                              *)
StartsAgain == clean => Readable

(* Then the journal is the log its callers take it for. In the other       *)
(* behaviours nothing is claimed here: they show the log an empty file.    *)
Log == INSTANCE EventLog WITH
         Events <- 1..MaxEvents,
         log <- IF clean THEN [k \in 1..Len(pieces) |-> pieces[k].event] ELSE <<>>,
         told <- IF clean THEN acknowledged ELSE {}

ImplementsLog == Log!Spec

=============================================================================
