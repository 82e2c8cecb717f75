----------------------------- MODULE OrderLedger -----------------------------
(***************************************************************************)
(* What an order service with a write-ahead journal promises its caller,   *)
(* stated without queues, reconciliation or restarts.  Every client order  *)
(* id has one ledger line; a request leaves for the broker only after its  *)
(* line is committed, leaves at most once, and the line moves forward      *)
(* only: an outcome, once written, is never rewritten, and a doubtful      *)
(* outcome is settled by the user alone.                                   *)
(*                                                                         *)
(* ARCHITECTURE.md lists these promises as invariants 4, 5 and 7; both     *)
(* KIS order services are meant to keep them.                              *)
(***************************************************************************)

EXTENDS Naturals

CONSTANT Ids                    \* client order ids

VARIABLES
  line,                         \* [Ids -> the ledger line of each id]
  posted                        \* [Ids -> how often the request has left]

vars == <<line, posted>>

Open    == "PENDING"            \* committed, outcome not known
Doubt   == "UNKNOWN"            \* outcome declared unknown
Decided == {"ACCEPTED", "REJECTED", "DISMISSED"}
Lines   == {"NONE", Open, Doubt} \cup Decided

TypeOK == line \in [Ids -> Lines] /\ posted \in [Ids -> 0..1]

Init == line = [i \in Ids |-> "NONE"] /\ posted = [i \in Ids |-> 0]

Commit(i) ==
  /\ line[i] = "NONE"
  /\ line' = [line EXCEPT ![i] = Open]
  /\ UNCHANGED posted

Send(i) ==
  /\ line[i] = Open
  /\ posted[i] = 0
  /\ posted' = [posted EXCEPT ![i] = 1]
  /\ UNCHANGED line

(* The outcome of a request becomes definite, or it is declared unknown. *)
Conclude(i, outcome) ==
  /\ line[i] = Open
  /\ outcome = "ACCEPTED" => posted[i] = 1
  /\ line' = [line EXCEPT ![i] = outcome]
  /\ UNCHANGED posted

(* The user settles a doubtful line against the broker's order history. *)
Settle(i, outcome) ==
  /\ line[i] \in {Open, Doubt}
  /\ line' = [line EXCEPT ![i] = outcome]
  /\ UNCHANGED posted

(* A restart declares every line it finds open doubtful; it may be cut     *)
(* short and finish in a later restart.                                    *)
Restart(S) ==
  /\ \A i \in S : line[i] = Open
  /\ line' = [i \in Ids |-> IF i \in S THEN Doubt ELSE line[i]]
  /\ UNCHANGED posted

Next ==
  \/ \E i \in Ids : Commit(i) \/ Send(i)
  \/ \E i \in Ids : \E o \in {"ACCEPTED", "REJECTED", Doubt} : Conclude(i, o)
  \/ \E i \in Ids : \E o \in {"ACCEPTED", "DISMISSED"} : Settle(i, o)
  \/ \E S \in SUBSET Ids : Restart(S)

Spec == Init /\ [][Next]_vars
==============================================================================
