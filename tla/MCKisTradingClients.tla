------------------------- MODULE MCKisTradingClients -------------------------
(* The paper and the live client side by side: each behaviour is of one of them *)
(* from its start. A caller that reads, one that cancels, and one that submits  *)
(* whenever it likes.                                                           *)
EXTENDS KisLiveTradingClient
CONSTANTS reader1, reader2, trader
VARIABLE live

MCAsks == (reader1 :> {"balance", "history"}) @@ (reader2 :> {"cancel"}) @@ (trader :> {"submit"})

MCInit == Init /\ live \in BOOLEAN

MCNext == ((live /\ LiveNext) \/ (~live /\ Next)) /\ UNCHANGED live

MCFairness ==
    /\ WF_<<vars, live>>((TokenIssued \/ TokenFails) /\ UNCHANGED live)
    /\ WF_<<vars, live>>(Send /\ UNCHANGED live)
    /\ \A c \in Callers :
          /\ WF_<<vars, live>>(Authorize(c) /\ UNCHANGED live)
          /\ WF_<<vars, live>>(Retry(c) /\ UNCHANGED live)
          /\ WF_<<vars, live>>((PageRead(c) \/ LivePageRead(c) \/ RequestFails(c) \/ Accepted(c)) /\ UNCHANGED live)

MCSpec == MCInit /\ [][MCNext]_<<vars, live>>

MCFairSpec == MCSpec /\ MCFairness
=============================================================================
