--------------------------- MODULE PoolPublications ---------------------------
(***************************************************************************)
(* What analytics.candidate_pool_runs promises to its readers: a pool      *)
(* appears complete, is never changed or taken back, and there is one pool *)
(* for a policy, a universe and a choice of bars.  Complete means that     *)
(* every instrument of the universe is judged: those whose bar the policy  *)
(* admits have the ranks 1 to n, in the order of their turnover.           *)
(***************************************************************************)
EXTENDS Integers, FiniteSets

CONSTANTS
  Policies, Universes,
  None,             \* no bar
  Admits(_, _),     \* Admits(p, b): policy p admits an instrument with bar b
  Worth(_)          \* the turnover of a bar

VARIABLE pools

Init == pools = {}

(* A pool is a record [id, policy, universe, bars, ranks].                 *)
(* ranks[i] says how many admitted instruments are not behind i. *)
Complete(pool) ==
  LET bar(i)   == IF pool.bars[i] = None THEN None ELSE pool.bars[i].content
      admitted == {i \in pool.universe : Admits(pool.policy, bar(i))}
      ahead(i) == {k \in admitted : \/ Worth(bar(k)) > Worth(bar(i))
                                    \/ Worth(bar(k)) = Worth(bar(i)) /\ k <= i}
  IN /\ pool.policy \in Policies
     /\ pool.universe \in Universes
     /\ DOMAIN pool.bars = pool.universe
     /\ DOMAIN pool.ranks = pool.universe
     /\ \A i \in pool.universe :
          pool.ranks[i] = IF i \in admitted THEN Cardinality(ahead(i)) ELSE 0

SameBasis(p, q) == p.policy = q.policy /\ p.universe = q.universe /\ p.bars = q.bars

Publish(pool) ==
  /\ Complete(pool)
  /\ \A p \in pools : ~SameBasis(p, pool)
  /\ pools' = pools \union {pool}

Next == \E pool \in pools' \ pools : Publish(pool)

Spec == Init /\ [][Next]_pools
=============================================================================
