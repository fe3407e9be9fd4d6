--------------------------- MODULE ResearchOutcome ---------------------------
(***************************************************************************)
(* What the research subsystem promises to a reader of its tables: every   *)
(* research case receives at most one verdict, a completed case has        *)
(* exactly one published result, and neither is ever taken back.  Workers, *)
(* transactions, the queue and the gateway are invisible here;             *)
(* ResearchLifecycle is shown to implement this specification.             *)
(***************************************************************************)

CONSTANTS
  Cases,    \* research cases
  Runs      \* identifiers of research runs

VARIABLES
  verdict,  \* verdict[c]: "open" until the case is closed
  results   \* published results, each the result of one run for one case

vars == <<verdict, results>>

Init ==
  /\ verdict = [c \in Cases |-> "open"]
  /\ results = {}

(* A run delivers an accepted draft: the case is completed and the result *)
(* of the run appears, in one step.                                       *)
Publish(c, r) ==
  /\ verdict[c] = "open"
  /\ \A x \in results : x.run # r
  /\ verdict' = [verdict EXCEPT ![c] = "completed"]
  /\ results' = results \union {[case |-> c, run |-> r]}

(* A run is given up: the case is closed without a result. *)
Abandon(c) ==
  /\ verdict[c] = "open"
  /\ verdict' = [verdict EXCEPT ![c] = "failed"]
  /\ UNCHANGED results

Next == \E c \in Cases : Abandon(c) \/ \E r \in Runs : Publish(c, r)

Spec == Init /\ [][Next]_vars
=============================================================================
