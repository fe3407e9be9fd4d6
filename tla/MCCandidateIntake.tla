--------------------------- MODULE MCCandidateIntake ---------------------------
(* An instance of CandidateIntake for TLC: a directory, its malformed      *)
(* successor, a file that is submitted again unchanged, another file that  *)
(* brings the run of the directory, and one that contradicts the first.    *)
EXTENDS CandidateIntake

Content(run, body) == [run |-> run, body |-> body]

AllContents == {Content("r1", "a"), Content("r1", "b"), Content("r2", "a")}

OnTime == {<<1, Content("r2", "a")>>, <<2, Content("r1", "a")>>,
           <<3, Content("r2", "a")>>, <<4, Content("r1", "b")>>}
Late   == {<<1, Malformed>>, <<2, Content("r1", "a")>>}
=============================================================================
