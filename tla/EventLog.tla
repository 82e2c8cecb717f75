------------------------------- MODULE EventLog -------------------------------
(***************************************************************************)
(* What the services behind the execution journal take for granted: a log  *)
(* that grows by one event at a time, whose appends either happen or leave *)
(* nothing behind, and that a later process reads back as it stands.       *)
(***************************************************************************)
EXTENDS Naturals, Sequences

CONSTANT Events                 \* what may be logged

VARIABLES
  log,                          \* the events of the log, oldest first
  told                          \* events whose append was reported done

vars == <<log, told>>

Init == log = <<>> /\ told = {}

(* Done and reported. *)
Write(e) == log' = Append(log, e) /\ told' = told \cup {e}

(* Done, but the process ended before it could say so. *)
WriteSilently(e) == log' = Append(log, e) /\ UNCHANGED told

(* The machine stops: the tail that nobody was told of may be lost.        *)
LoseTail ==
  \E n \in 0..Len(log) :
    /\ log' = SubSeq(log, 1, n)
    /\ \A k \in n + 1..Len(log) : log[k] \notin told
    /\ UNCHANGED told

Next == LoseTail \/ \E e \in Events : Write(e) \/ WriteSilently(e)

Spec == Init /\ [][Next]_vars

=============================================================================
