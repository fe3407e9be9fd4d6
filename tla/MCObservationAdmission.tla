------------------------ MODULE MCObservationAdmission -------------------------
(* An instance of ObservationAdmission for TLC: three runs report about one *)
(* symbol and day, the newest against the others.  A page holds two: the   *)
(* second observation can be corroborated by the first, before the third   *)
(* takes its place on the page and contradicts it.                         *)
EXTENDS ObservationAdmission, TLC

CONSTANTS q1, q2

Report(run, payload) ==
  [run |-> run, symbol |-> "s", day |-> 0, payload |-> payload, unit |-> TRUE,
   observed |-> run, id |-> run]

TwoAgainstOne == {Report(1, "high"), Report(2, "high"), Report(3, "low")}

OneCase == 100 :> "s"

Interchangeable == Permutations(Workers)
=============================================================================
