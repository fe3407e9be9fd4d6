--------------------------- MODULE MCCandidatePool ----------------------------
(* Instances of CandidatePool for TLC: two instruments whose bars may tie,  *)
(* overtake each other or miss their amount, and a policy that admits more  *)
(* than the other.                                                          *)
EXTENDS CandidatePool, TLC

CONSTANTS j1, j2

Bar(volume, amount) == [suspended |-> FALSE, close |-> 1, volume |-> volume, amount |-> amount]

small   == Bar(1, 1)
large   == Bar(2, 2)
partial == Bar(2, None)

AllContents == {small, large, partial}
Two         == 1 .. 2
Answers     == {<<small, small>>, <<partial, large>>}

Strict == [minVolume |-> 1, minAmount |-> 2]
Loose  == [minVolume |-> 1, minAmount |-> 1]

BothPolicies == {Strict, Loose}
OneUniverse  == {{1, 2}}
JobSymmetry  == Permutations(Jobs)
=============================================================================
