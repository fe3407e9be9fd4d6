--------------------------- MODULE StrategyRegistry ---------------------------
(***************************************************************************)
(* What strategy governance promises to a reader: approved versions, one   *)
(* for each strategy key and version string, that never change; for each   *)
(* key at most one of them active, and for ever.                           *)
(***************************************************************************)
CONSTANTS
  Keys,       \* strategy keys
  Approvals,  \* approved versions: records with a key of Keys, a version and evidence
  None        \* no approval

VARIABLES
  approved,  \* the versions published so far
  active     \* the active version of each key, or None

vars == <<approved, active>>

Init ==
  /\ approved = {}
  /\ active = [k \in Keys |-> None]

Approve(v) ==
  /\ \A w \in approved : <<w.key, w.version>> # <<v.key, v.version>>
  /\ approved' = approved \union {v}
  /\ UNCHANGED active

Activate(v) ==
  /\ v \in approved
  /\ active[v.key] = None
  /\ active' = [active EXCEPT ![v.key] = v]
  /\ UNCHANGED approved

Next == \E v \in Approvals : Approve(v) \/ Activate(v)

Spec == Init /\ [][Next]_vars
=============================================================================
