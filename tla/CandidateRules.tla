---------------------------- MODULE CandidateRules ----------------------------
(***************************************************************************)
(* The pure part of the minimum_v1 candidate pool: which instruments of a  *)
(* universe a policy admits, given one bar each, and how they are ranked.  *)
(* A bar is a record [suspended, close, volume, amount]; an instrument     *)
(* without a bar, and a column without a value, are None.                  *)
(***************************************************************************)
EXTENDS Integers, FiniteSets

CONSTANT None

(* _check_eligibility: a suspended bar carries no numbers at all, a normal *)
(* one has a price, but its volume or amount may be missing.               *)
Eligible(policy, bar) ==
  /\ bar # None
  /\ ~bar.suspended
  /\ bar.volume # None /\ bar.volume >= policy.minVolume
  /\ bar.amount # None /\ bar.amount >= policy.minAmount

Turnover(bar) == bar.close * bar.volume

(* The sort key: turnover descending, then the identifier. *)
Before(chosen, i, k) ==
  \/ Turnover(chosen[i]) > Turnover(chosen[k])
  \/ Turnover(chosen[i]) = Turnover(chosen[k]) /\ i < k

Included(policy, chosen) == {i \in DOMAIN chosen : Eligible(policy, chosen[i])}

(* The included instruments in the order of that key. *)
Sorted(policy, chosen) ==
  LET included == Included(policy, chosen)
  IN CHOOSE order \in [1 .. Cardinality(included) -> included] :
       \A m, n \in DOMAIN order : m < n => Before(chosen, order[m], order[n])

(* calculate: every instrument of the universe is judged; its item carries *)
(* the position in the sorted list, or 0 if it is excluded.                *)
Ranks(policy, chosen) ==
  LET order == Sorted(policy, chosen)
  IN [i \in DOMAIN chosen |->
        IF i \in Included(policy, chosen)
          THEN CHOOSE n \in DOMAIN order : order[n] = i ELSE 0]
=============================================================================
