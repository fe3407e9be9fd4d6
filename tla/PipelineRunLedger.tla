-------------------------- MODULE PipelineRunLedger --------------------------
(***************************************************************************)
(* The audit rows of the personal daily job: personal_daily_cli writes a   *)
(* row of ops.pipeline_runs when an invocation begins, executes the job    *)
(* and moves the row to its terminal state, each in a transaction of its   *)
(* own.  The recorder is best effort: an invocation whose row is refused   *)
(* or lost executes the job all the same.                                  *)
(*                                                                         *)
(* An invocation opens at most one row, so invocation and row share their  *)
(* number; started_at is taken when the invocation begins, so the numbers  *)
(* are in the order of started_at.  The job key is fixed in the CLI.       *)
(***************************************************************************)
EXTENDS Naturals, FiniteSets

CONSTANTS
  Partitions,      \* trade dates, the partition keys of the job
  None,            \* no partition yet
  MaxInvocations,  \* bound: invocations of the CLI
  Faults           \* whether processes die and recordings are lost

Invocations == 1 .. MaxInvocations

ASSUME LedgerOK ==
  /\ None \notin Partitions
  /\ MaxInvocations \in Nat
  /\ Faults \in BOOLEAN

VARIABLES
  partition, \* the trade date an invocation was asked for
  status,    \* pipeline_runs.status of its row, "absent" before the row exists
  known,     \* whether run_daily holds the id of its row
  phase,     \* where the invocation is
  outcome    \* how execute_in_process ended

ledgerVars == <<partition, status, known, phase, outcome>>

Outcomes == {"none", "raised", "failed", "empty", "ok"}
InvocationPhases   == {"new", "start", "insert", "execute", "mark", "done", "lost", "dead"}
Statuses == {"absent", "running", "succeeded", "failed"}
Blocking == {"running", "succeeded"}

LedgerInit ==
  /\ partition = [i \in Invocations |-> None]
  /\ status    = [i \in Invocations |-> "absent"]
  /\ known     = [i \in Invocations |-> FALSE]
  /\ phase     = [i \in Invocations |-> "new"]
  /\ outcome   = [i \in Invocations |-> "none"]

RowsOn(d)  == {i \in Invocations : partition[i] = d /\ status[i] # "absent"}
LiveRows(d) == {i \in RowsOn(d) : status[i] \in Blocking}
Enter(i, ph) == phase' = [phase EXCEPT ![i] = ph]

Invoke(i, d) ==
  /\ phase[i] = "new"
  /\ \A j \in Invocations : j < i => phase[j] # "new"
  /\ partition' = [partition EXCEPT ![i] = d]
  /\ Enter(i, "start")
  /\ UNCHANGED <<status, known, outcome>>

(* Mutant: the blocking row is looked for without taking the lock. *)
LockIgnored(d) == TRUE

(* pg_advisory_xact_lock on job and partition: held from the look-up until *)
(* the transaction that inserts the row ends.                              *)
LockFree(d) == \A j \in Invocations : ~(partition[j] = d /\ phase[j] = "insert")

(* get_blocking_by_job_and_partition: a blocked invocation gets no row. *)
LookUp(i) ==
  /\ phase[i] = "start"
  /\ LockFree(partition[i])
  /\ Enter(i, IF LiveRows(partition[i]) = {} THEN "insert" ELSE "execute")
  /\ UNCHANGED <<partition, status, known, outcome>>

InsertRow(i) ==
  /\ phase[i] = "insert"
  /\ status' = [status EXCEPT ![i] = "running"]
  /\ known' = [known EXCEPT ![i] = TRUE]
  /\ Enter(i, "execute")
  /\ UNCHANGED <<partition, outcome>>

(* Mutant: the id, which Python draws, is returned although nothing was    *)
(* inserted.                                                               *)
StartAssumed(i) ==
  /\ Faults
  /\ phase[i] \in {"start", "insert"}
  /\ known' = [known EXCEPT ![i] = TRUE]
  /\ Enter(i, "execute")
  /\ UNCHANGED <<partition, status, outcome>>

(* The recorder turns every exception into "no row id", including that of  *)
(* a commit whose confirmation was lost: then the row exists.              *)
StartLost(i) ==
  /\ Faults
  /\ \/ phase[i] \in {"start", "insert"} /\ UNCHANGED status
     \/ phase[i] = "insert" /\ status' = [status EXCEPT ![i] = "running"]
  /\ Enter(i, "execute")
  /\ UNCHANGED <<partition, known, outcome>>

(* execute_in_process raises, or returns a failed result, or a successful  *)
(* one with or without materializations.                                   *)
Execute(i, o) ==
  /\ phase[i] = "execute"
  /\ o # "none"
  /\ outcome' = [outcome EXCEPT ![i] = o]
  /\ Enter(i, IF known[i] THEN "mark" ELSE "done")
  /\ UNCHANGED <<partition, status, known>>

(* Mutant: only result.success is looked at. *)
SucceededQuietly(o) == o \in {"ok", "empty"}

(* A successful result without materializations is recorded as a failure. *)
Succeeded(o) == o = "ok"

(* Mutant: nothing is recorded of an execution that raised. *)
FinishIfReturned(i) ==
  /\ phase[i] = "mark"
  /\ status' = [status EXCEPT ![i] = IF outcome[i] = "raised" THEN @
                                     ELSE IF Succeeded(outcome[i]) THEN "succeeded" ELSE "failed"]
  /\ Enter(i, "done")
  /\ UNCHANGED <<partition, known, outcome>>

(* mark_succeeded or mark_failed, by the id of the row. *)
Finish(i) ==
  /\ phase[i] = "mark"
  /\ status' = [status EXCEPT ![i] = IF Succeeded(outcome[i]) THEN "succeeded" ELSE "failed"]
  /\ Enter(i, "done")
  /\ UNCHANGED <<partition, known, outcome>>

(* _safe_record swallows the exception of a recording that failed. *)
FinishLost(i) ==
  /\ Faults
  /\ phase[i] = "mark"
  /\ Enter(i, "lost")
  /\ UNCHANGED <<partition, status, known, outcome>>

(* The process dies; an open transaction, and its lock, go with it. *)
Crash(i) ==
  /\ Faults
  /\ phase[i] \notin {"new", "done", "lost", "dead"}
  /\ Enter(i, "dead")
  /\ UNCHANGED <<partition, status, known, outcome>>

Proceed(i) ==
  \/ LookUp(i) \/ InsertRow(i) \/ StartLost(i)
  \/ \E o \in Outcomes : Execute(i, o)
  \/ Finish(i) \/ FinishLost(i)

LedgerNext == \E i \in Invocations :
          \/ \E d \in Partitions : Invoke(i, d)
          \/ Proceed(i)
          \/ Crash(i)

LedgerSpec == LedgerInit /\ [][LedgerNext]_ledgerVars

(* An invocation that is not killed runs to its end; the lock it waits for *)
(* is held for one insert only.                                            *)
FairLedgerSpec == LedgerSpec /\ \A i \in Invocations : WF_ledgerVars(Proceed(i))

-----------------------------------------------------------------------------
(* Properties *)

(* Every variable keeps its type, and the row whose id run_daily holds is  *)
(* there when it is marked (mark_* raise LookupError otherwise).           *)
LedgerTypeOK ==
  /\ partition \in [Invocations -> Partitions \union {None}]
  /\ status \in [Invocations -> Statuses]
  /\ known \in [Invocations -> BOOLEAN]
  /\ phase \in [Invocations -> InvocationPhases]
  /\ outcome \in [Invocations -> Outcomes]
  /\ \A i \in Invocations : known[i] => status[i] # "absent"

(* However many invocations race for a trade date, at most one of its rows *)
(* is running or succeeded: get_blocking_by_job_and_partition serializes   *)
(* the look-up with the insert that follows it.                            *)
OneLiveRow == \A d \in Partitions : Cardinality(LiveRows(d)) <= 1

(* The rows of a date implement PartitionRecord: a date is begun again     *)
(* only after a failure, and a recorded success is final.                  *)
Recorded == [d \in Partitions |->
  IF \E i \in RowsOn(d) : status[i] = "running" THEN "running"
  ELSE IF \E i \in RowsOn(d) : status[i] = "succeeded" THEN "succeeded"
  ELSE IF RowsOn(d) # {} THEN "failed" ELSE "none"]

DateRecord == INSTANCE PartitionRecord WITH record <- Recorded

ImplementsRecord == DateRecord!Spec

(* A terminal row tells how the job of its own invocation ended: succeeded *)
(* only if the job published something (rows are marked by id, while other *)
(* invocations of the same date execute unrecorded).                       *)
RowTellsOutcome ==
  \A i \in Invocations :
    /\ status[i] = "succeeded" => outcome[i] = "ok"
    /\ status[i] = "failed" => outcome[i] \in {"raised", "failed", "empty"}

(* A row stays running only if the process of its invocation died or one of *)
(* its two recordings failed; any other row is moved to a terminal state,  *)
(* so that a date whose job failed can be recorded again.                  *)
RunningRowEnds ==
  \A i \in Invocations :
    status[i] = "running"
      ~> \/ status[i] # "running"
         \/ phase[i] \in {"dead", "lost"}
         \/ phase[i] = "done" /\ ~known[i]
=============================================================================
