----------------------------- MODULE MCAutoTrader -----------------------------
(* A small instance of KisPaperAutoTrader: two stocks for two positions.        *)
EXTENDS KisPaperAutoTrader, TLC
CONSTANTS s1, s2

(* The stocks are alike. *)
StocksAlike == Permutations(Symbols)
=============================================================================
