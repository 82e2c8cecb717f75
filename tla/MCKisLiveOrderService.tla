------------------------ MODULE MCKisLiveOrderService ------------------------
(* An instance of KisLiveOrderService: two purchases alike, the cancel of the   *)
(* first, and a sale the user makes elsewhere.                                  *)
EXTENDS KisLiveOrderService
CONSTANTS buy1, buy2, cancel1, sale
MCOperation == [i \in Ids |-> IF i = cancel1 THEN "CANCEL" ELSE "SUBMIT"]
MCOriginal == [i \in Ids |-> IF i = cancel1 THEN buy1 ELSE None]
MCSigned == [o \in Ids \cup Foreign |-> CASE o = sale -> -1 [] o = cancel1 -> 0 [] OTHER -> 1]
MCShape == [o \in Ids \cup Foreign |-> CASE o = sale -> 3 [] o = cancel1 -> 2 [] OTHER -> 1]
=============================================================================
