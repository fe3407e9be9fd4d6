------------------------ MODULE MCMarketDataIngestion -------------------------
(* Instances of MarketDataIngestion for TLC: two instruments, numbered in   *)
(* the order of the universe, and a provider whose answers differ in one    *)
(* bar, in both, or lack one.                                               *)
EXTENDS MarketDataIngestion, Sequences, TLC

CONSTANTS x, y, j1, j2, j3

Universe == 1 .. 2
TwoAnswers == {<<x, x>>, <<y, y>>}
SomeAnswers == TwoAnswers \union {<<y, x>>, <<x, Missing>>}

JobSymmetry == Permutations(Jobs)
=============================================================================
