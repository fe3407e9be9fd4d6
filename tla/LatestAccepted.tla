----------------------------- MODULE LatestAccepted -----------------------------
(***************************************************************************)
(* What the governance archive promises: a run is archived once and its    *)
(* archive never changes, and the pointer to the latest accepted run names *)
(* an archived, accepted run and only moves forward.                       *)
(***************************************************************************)
EXTENDS Integers

CONSTANTS
  Runs,          \* identities of runs
  Accepted(_),   \* a record was accepted
  Key(_),        \* its place in the order: <<trade date, finished at, run>>
  None

VARIABLES
  runs,   \* run -> its record, or None
  latest  \* the record the pointer names, or None

vars == <<runs, latest>>

Init == runs = [i \in Runs |-> None] /\ latest = None

Later(k, l) ==
  \E n \in DOMAIN k : k[n] > l[n] /\ \A m \in 1 .. n - 1 : k[m] = l[m]

Archive(i) ==
  /\ runs[i] = None
  /\ runs'[i] # None
  /\ runs' = [runs EXCEPT ![i] = runs'[i]]
  /\ UNCHANGED latest

Advance(i) ==
  /\ runs[i] # None
  /\ Accepted(runs[i])
  /\ latest # None => Later(Key(runs[i]), Key(latest))
  /\ latest' = runs[i]
  /\ UNCHANGED runs

Next == \E i \in Runs : Archive(i) \/ Advance(i)

Spec == Init /\ [][Next]_vars
=============================================================================
