--------------------------- MODULE PartitionRecord ---------------------------
(***************************************************************************)
(* What ops.pipeline_runs promises about one partition of a job: it is     *)
(* begun, it ends well or badly, it may be begun again after it ended      *)
(* badly, and a success is final.                                          *)
(***************************************************************************)
CONSTANT Partitions

VARIABLE record   \* record[d]: where partition d stands

States == {"none", "running", "failed", "succeeded"}

Init == record = [d \in Partitions |-> "none"]

Move(d, from, to) ==
  /\ record[d] \in from
  /\ record' = [record EXCEPT ![d] = to]

Begin(d)   == Move(d, {"none", "failed"}, "running")
Succeed(d) == Move(d, {"running"}, "succeeded")
Fail(d)    == Move(d, {"running"}, "failed")

Next == \E d \in Partitions : Begin(d) \/ Succeed(d) \/ Fail(d)

Spec == Init /\ [][Next]_record
=============================================================================
