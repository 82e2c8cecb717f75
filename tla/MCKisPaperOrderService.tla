------------------------ MODULE MCKisPaperOrderService ------------------------
(* Small instances of KisPaperOrderService: a and b are orders of the same  *)
(* shape, c a cancel.                                                       *)
EXTENDS KisPaperOrderService, TLC

CONSTANTS a, b, c

TwinShape == [i \in Ids |-> IF i = c THEN 2 ELSE 1]

(* a and b are interchangeable: same shape, both gated. *)
Twins == Permutations({a, b})

=============================================================================
