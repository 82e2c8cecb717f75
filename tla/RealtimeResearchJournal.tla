----------------------- MODULE RealtimeResearchJournal -----------------------
(* The record of the market research: realtimeResearchJournal.js. Events are    *)
(* numbered, queued, and written in batches by a timer or when a batch is full; *)
(* whoever records never waits and never fails (safeResearchWrite). An event is *)
(* its number and its size; the file holds numbers, or a torn line. One session *)
(* writes one file.                                                             *)
EXTENDS Integers, Sequences, SequencesExt

CONSTANTS
    Sizes,          \* of a line
    MaxBatchEvents, \* maxBatchEvents
    MaxQueueEvents, \* maxQueueEvents
    MaxFileBytes,   \* maxFileBytes
    Torn,           \* a line that was not written to its end
    MaxOffered      \* bound: events somebody wants recorded

ASSUME ResearchAssumption ==
    /\ Sizes \subseteq Nat \ {0} /\ Torn \notin Nat \ {0}
    /\ {MaxBatchEvents, MaxQueueEvents} \subseteq Nat \ {0}
    /\ {MaxFileBytes, MaxOffered} \subseteq Nat

VARIABLES
    research,   \* the journal and its file
    offered     \* events that were to be recorded

researchVars == <<research, offered>>

ResearchInit ==
    /\ research = [state |-> "RECORDING", sequence |-> 0, queue |-> <<>>, written |-> <<>>,
                   bytes |-> 0, dropped |-> 0, timer |-> TRUE, cut |-> FALSE]
    /\ offered = 0

Bytes(events) == FoldLeft(LAMBDA sum, e : sum + e.size, 0, events)

Numbers(events) == [i \in DOMAIN events |-> events[i].number]

(* What is written after a piece of a line belongs to that line.                *)
LinesAfter(lines, more) ==
    IF lines # <<>> /\ more # <<>> /\ lines[Len(lines)] = Torn THEN lines \o Tail(more) ELSE lines \o more

StateAfterWrite(state) == IF state = "LIMIT_REACHED" THEN state ELSE "RECORDING"

Flushed(j) ==
    [j EXCEPT !.written = LinesAfter(@, Numbers(j.queue)), !.queue = <<>>,
              !.bytes = @ + Bytes(j.queue), !.state = StateAfterWrite(@)]

(* Mutant: a batch that cannot be written is given up. *)
BatchGivenUp(events) == <<>>

QueueAfterFailure(events) == events

(* appendFile throws and wrote nothing, or the first lines of the batch and     *)
(* perhaps a piece of the next: the batch stays, to be written from its start.  *)
(* Bound: one batch is cut.                                                     *)
NotFlushed(j, lines) ==
    [j EXCEPT !.written = LinesAfter(@, lines), !.cut = @ \/ lines # <<>>,
              !.queue = QueueAfterFailure(@), !.state = "ERROR"]

Pieces(j) ==
    IF j.cut THEN {<<>>} ELSE
    {SubSeq(Numbers(j.queue), 1, n) \o piece : n \in 0..(Len(j.queue) - 1), piece \in {<<>>, <<Torn>>}}

Flush(j) ==
    IF j.queue = <<>> THEN {j}
    ELSE {Flushed(j)} \cup {NotFlushed(j, lines) : lines \in Pieces(j)}

Accepting == research.state # "STOPPED"

QueueFull(j) == Len(j.queue) >= MaxQueueEvents

FileFull(j, size) == j.bytes + Bytes(j.queue) + size > MaxFileBytes

Dropped(j, state) == [j EXCEPT !.state = state, !.dropped = @ + 1]

Queued(j, size) ==
    [j EXCEPT !.sequence = @ + 1,
              !.queue = Append(@, [number |-> j.sequence + 1, size |-> size]),
              !.state = IF @ = "BACKPRESSURE" THEN "RECORDING" ELSE @]

(* append: neither the number nor the queue moves for an event that is dropped. *)
Appended(j, size) ==
    IF QueueFull(j) THEN {Dropped(j, "BACKPRESSURE")}
    ELSE IF FileFull(j, size) THEN {Dropped(j, "LIMIT_REACHED")}
    ELSE IF Len(j.queue) + 1 >= MaxBatchEvents THEN Flush(Queued(j, size))
    ELSE {Queued(j, size)}

Offer == Accepting /\ offered < MaxOffered /\ offered' = offered + 1

RecordEvent ==
    /\ Offer
    /\ \E size \in Sizes : research' \in Appended(research, size)

FlushDue ==
    /\ research.timer /\ research.queue # <<>>
    /\ research' \in Flush(research)
    /\ UNCHANGED offered

(* A journal in trouble does not become STOPPED.                                *)
StateAfterStop(state) == IF state \in {"ERROR", "LIMIT_REACHED"} THEN state ELSE "STOPPED"

(* stop, in the shutdown of the server: SESSION_STOPPED, and the last flush.    *)
StopRecording ==
    /\ research.timer /\ Offer
    /\ \E size \in Sizes : \E j \in Appended(research, size) :
          \E k \in Flush([j EXCEPT !.timer = FALSE]) :
              research' = [k EXCEPT !.state = StateAfterStop(@)]

ResearchNext == RecordEvent \/ FlushDue \/ StopRecording

ResearchSpec == ResearchInit /\ [][ResearchNext]_researchVars

-----------------------------------------------------------------------------
(* Whatever fails and whatever is dropped, at the queue's limit or the file's:  *)
(* the file and the queue together are the events that were accepted, each once *)
(* and numbered without a gap, as readRealtimeResearchEvents demands of the     *)
(* file; every other event is counted as dropped. Only a batch that was written *)
(* in part is written twice, and then the file cannot be read.                  *)
ResearchWhole ==
    /\ ~research.cut =>
          research.written \o Numbers(research.queue) = [i \in 1..research.sequence |-> i]
    /\ research.sequence + research.dropped = offered
    /\ Len(research.queue) <= MaxQueueEvents
    /\ research.bytes + Bytes(research.queue) <= MaxFileBytes
=============================================================================
