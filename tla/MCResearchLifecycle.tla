------------------------- MODULE MCResearchLifecycle -------------------------
(***************************************************************************)
(* Instances of ResearchLifecycle for TLC: all idempotency keys belong to  *)
(* one case.                                                               *)
(***************************************************************************)
EXTENDS ResearchLifecycle, TLC

CONSTANTS c1, k1, k2, w1, a1, a2, s1, s2

OneCase == [k \in Keys |-> c1]

ServesAll == [p \in Procs |-> Keys]
\* The worker CLI started for another runner than that of k2.
ServesSome == [p \in Procs |-> IF p = w1 THEN Keys \ {k2} ELSE Keys]

SessionSymmetry == Permutations(Sessions)
=============================================================================
