--------------------------- MODULE JournalRecorder ---------------------------
(***************************************************************************)
(* ExecutionJournalRecorder: copies the events of the simulated account's  *)
(* orders to the execution journal.  A track is what the recorder knows of *)
(* one order and what the journal holds of it: event 0 is ORDER_CREATED,   *)
(* event n the nth entry of order.events.                                  *)
(***************************************************************************)
EXTENDS Naturals, Sequences

NoTrack == [created |-> FALSE, seen |-> 0, written |-> <<>>]

Track(tracks, i) == IF i \in DOMAIN tracks THEN tracks[i] ELSE NoTrack

(* The events of an order that capture() would append. *)
Due(orders, tracks, i) ==
  LET track == Track(tracks, i)
  IN (IF track.created THEN <<>> ELSE <<0>>)
       \o [k \in 1..(orders[i].events - track.seen) |-> track.seen + k]

Recorded(orders, tracks, i) ==
  [created |-> TRUE, seen |-> orders[i].events,
   written |-> Track(tracks, i).written \o Due(orders, tracks, i)]

(* Mutant: an order whose events were cut short counts as seen. *)
CutShortCounted(orders, tracks, i, n) ==
  [created |-> TRUE, seen |-> orders[i].events,
   written |-> Track(tracks, i).written \o SubSeq(Due(orders, tracks, i), 1, n)]

(* The append of event n + 1 of those due throws: what was written before  *)
(* it stays, but only the creation is remembered.                          *)
CutShort(orders, tracks, i, n) ==
  LET track == Track(tracks, i)
  IN [track EXCEPT !.created = @ \/ n > 0,
                   !.written = @ \o SubSeq(Due(orders, tracks, i), 1, n)]

(* capture(), oldest order first. *)
Captured(orders, tracks) == [i \in DOMAIN orders |-> Recorded(orders, tracks, i)]

CaptureFails(orders, tracks) ==
  UNION {{[i \in DOMAIN orders |->
             IF i < j THEN Recorded(orders, tracks, i)
             ELSE IF i = j THEN CutShort(orders, tracks, i, n)
             ELSE Track(tracks, i)] :
          n \in {k \in 0..Len(Due(orders, tracks, j)) : k < Len(Due(orders, tracks, j))}} :
         j \in DOMAIN orders}
=============================================================================
