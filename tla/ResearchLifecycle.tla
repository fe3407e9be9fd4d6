-------------------------- MODULE ResearchLifecycle --------------------------
(***************************************************************************)
(* The life of a research case and of the runs queued for it: the API's    *)
(* and the external handoff's queue command, the worker that selects a     *)
(* queued run, and the orchestration service that starts the run in one    *)
(* transaction, calls the runner outside any transaction and records its   *)
(* answer in another.                                                      *)
(*                                                                         *)
(* The tables are variables.  PostgreSQL runs at READ COMMITTED: a read is *)
(* a step of its own, and what a process read may be stale when it writes. *)
(* The writes of one transaction are one step: their UPDATEs repeat the    *)
(* expected status in the WHERE clause, which the database evaluates on    *)
(* the row as it is when the row lock is granted, so a transaction whose   *)
(* compare-and-swap misses rolls back whole and changes nothing.           *)
(***************************************************************************)
EXTENDS Naturals, FiniteSets

CONSTANTS
  Cases,      \* research cases, each created in draft with its evidence admitted
  Keys,       \* what queueing deduplicates by: evidence pack, runner, playbook
  CaseOf,     \* CaseOf[k]: the case the evidence pack of k belongs to
  Clients,    \* API requests and external handoffs, which queue runs
  Workers,    \* processes of the research_run_worker CLI
  Serves,     \* Serves[p]: the keys whose runner and playbook p is configured for
  Sessions,   \* external session identities a runner may report
  None,       \* no session, no result, no run
  MaxRuns,    \* bound: rows of research_runs
  Limit,      \* the page size run_next asks list_recent for
  MaxCrashes  \* bound: how often a process dies in the middle of its work

Procs  == Clients \union Workers
RunIds == 1 .. MaxRuns   \* in the order of created_at

ASSUME ConstantsOK ==
  /\ CaseOf \in [Keys -> Cases]
  /\ Serves \in [Procs -> SUBSET Keys]
  /\ None \notin Sessions
  /\ None \notin Keys
  /\ MaxRuns \in Nat
  /\ Limit \in Nat \ {0}
  /\ MaxCrashes \in Nat

(* "cancelled", of cases and of runs, and a second attempt of a run are    *)
(* allowed by the domain but written by no code, and left out.             *)
CaseStatus == {"draft", "ready", "running", "completed", "failed"}
RunStatus  == {"absent", "queued", "running", "succeeded", "failed"}
Closed     == {"completed", "failed"}
Reusable   == {"queued", "running", "succeeded"}

VARIABLES
  caseStatus, \* research_cases.status
  runStatus,  \* research_runs.status, "absent" before the row exists
  runKey,     \* research_runs: pack, runner and playbook of the row
  session,    \* research_runs.external_session_id
  result,     \* research_results: the session whose draft the row of this run holds
  calls,      \* history: how often the runner was called for this run
  proc,       \* what each process is doing and the values it holds
  crashes     \* history: crashes so far

rows == <<caseStatus, runStatus, runKey, session, result, calls>>
vars == <<caseStatus, runStatus, runKey, session, result, calls, proc, crashes>>

Answers == {"draft", "bad_draft", "uncertain", "failure"}

Idle == [pc |-> "idle", key |-> None, handoff |-> FALSE, seen |-> "draft",
         run |-> 0, answer |-> "draft", sess |-> None]

ProcState ==
  [pc      : {"idle", "list", "add", "load", "start", "submit", "record"},
   key     : Keys \union {None},
   handoff : BOOLEAN,
   seen    : CaseStatus,
   run     : RunIds \union {0},
   answer  : Answers,
   sess    : Sessions \union {None}]

Init ==
  /\ caseStatus = [c \in Cases |-> "draft"]
  /\ runStatus  = [r \in RunIds |-> "absent"]
  /\ runKey     = [r \in RunIds |-> None]
  /\ session    = [r \in RunIds |-> None]
  /\ result     = [r \in RunIds |-> None]
  /\ calls      = [r \in RunIds |-> 0]
  /\ proc       = [p \in Procs |-> Idle]
  /\ crashes    = 0

CaseOfRun(r) == CaseOf[runKey[r]]
Created      == {r \in RunIds : runStatus[r] # "absent"}
RunsOf(c)    == {r \in Created : CaseOfRun(r) = c}

Return(p)  == proc' = [proc EXCEPT ![p] = Idle]
Go(p, st)  == proc' = [proc EXCEPT ![p] = st]

-----------------------------------------------------------------------------
(* Guards of the storage layer.  Each is followed in the code by an error  *)
(* that rolls the transaction back.                                        *)

(* Mutant: the UPDATE of research_cases is not conditional on the status. *)
CaseMatchesAlways(c, expected) == TRUE

(* UPDATE research_cases ... WHERE case_id = c AND status = expected *)
CaseMatches(c, expected) == caseStatus[c] = expected

(* Mutant: the UPDATE of research_runs is not conditional on the status. *)
RunMatchesAlways(r, expected) == TRUE

(* UPDATE research_runs ... WHERE run_id = r AND status = expected *)
RunMatches(r, expected) == runStatus[r] = expected

(* The partial unique index on external_session_id, and the lookup by it. *)
SessionFree(r, s) == s = None \/ \A q \in RunIds \ {r} : session[q] # s

(* research_results has one row per run. *)
ResultFree(r) == result[r] = None

(* Mutant: the identity reported with the answer is dropped. *)
BindLost(r, s) == UNCHANGED session

(* bind_external_identity leaves the column alone when no id was reported. *)
Bind(r, s) == session' = IF s = None THEN session ELSE [session EXCEPT ![r] = s]

-----------------------------------------------------------------------------
(* The queue command: three reads and a write in one READ COMMITTED        *)
(* transaction.  The case is read first, then the runs of the case.        *)

QueueRequest(p, k, handoff) ==
  /\ proc[p].pc = "idle"
  /\ Go(p, [Idle EXCEPT !.pc = "list", !.key = k, !.handoff = handoff,
                        !.seen = caseStatus[CaseOf[k]]])
  /\ UNCHANGED <<rows, crashes>>

(* Mutant: the handoff passes on the key it queued instead of the run. *)
HandedKey(p, r) ==
  IF proc[p].handoff THEN Go(p, [Idle EXCEPT !.pc = "load", !.run = proc[p].key])
                     ELSE Return(p)

(* The handoff goes on to execute the run it was given; the API replies. *)
Handed(p, r) ==
  IF proc[p].handoff THEN Go(p, [Idle EXCEPT !.pc = "load", !.run = r])
                     ELSE Return(p)

Same(k) == {r \in Created : runKey[r] = k /\ runStatus[r] \in Reusable}

(* An existing run of the same key is handed out, whatever the case's status. *)
QueueExisting(p) ==
  /\ proc[p].pc = "list"
  /\ \E r \in Same(proc[p].key) :
       /\ \A q \in Same(proc[p].key) : r <= q
       /\ Handed(p, r)
  /\ UNCHANGED <<rows, crashes>>

(* None is found: the case must have been draft or ready when it was read. *)
QueueMissing(p) ==
  /\ proc[p].pc = "list"
  /\ Same(proc[p].key) = {}
  /\ IF proc[p].seen \in {"draft", "ready"}
       THEN Go(p, [proc[p] EXCEPT !.pc = "add"])
       ELSE Return(p)
  /\ UNCHANGED <<rows, crashes>>

QueueAdd(p) ==
  LET k == proc[p].key
      c == CaseOf[k]
      promotes == proc[p].seen = "draft"
  IN /\ proc[p].pc = "add"
     /\ promotes => CaseMatches(c, "draft")
     /\ \E r \in RunIds \ Created :
          /\ \A q \in RunIds \ Created : r <= q
          /\ runStatus' = [runStatus EXCEPT ![r] = "queued"]
          /\ runKey' = [runKey EXCEPT ![r] = k]
          /\ Handed(p, r)
     /\ caseStatus' = IF promotes THEN [caseStatus EXCEPT ![c] = "ready"] ELSE caseStatus
     /\ UNCHANGED <<session, result, calls, crashes>>

(* Another request promoted the case first: the transaction rolls back.    *)
(* (At the bound MaxRuns the model ends the request here, too.)            *)
QueueConflict(p) ==
  /\ proc[p].pc = "add"
  /\ \/ proc[p].seen = "draft" /\ ~CaseMatches(CaseOf[proc[p].key], "draft")
     \/ Created = RunIds
  /\ Return(p)
  /\ UNCHANGED <<rows, crashes>>

-----------------------------------------------------------------------------
(* The worker.  list_recent orders by created_at descending: the page      *)
(* holds the Limit newest runs, and run_next takes the first queued one.   *)

Page == {r \in Created : Cardinality({q \in Created : q > r}) < Limit}

(* Mutant: only the newest run of all is looked at. *)
QueuedAtHead == {r \in Page : runStatus[r] = "queued" /\ \A q \in Created : q <= r}

QueuedInPage == {r \in Page : runStatus[r] = "queued"}

RunNext(p) ==
  /\ proc[p].pc = "idle"
  /\ \E r \in QueuedInPage :
       /\ \A q \in QueuedInPage : q <= r
       /\ Go(p, [Idle EXCEPT !.pc = "load", !.run = r])
  /\ UNCHANGED <<rows, crashes>>

(* The CLI's --run-id: any run that is queued when it is asked for. *)
RunOnce(p, r) ==
  /\ proc[p].pc = "idle"
  /\ runStatus[r] = "queued"
  /\ Go(p, [Idle EXCEPT !.pc = "load", !.run = r])
  /\ UNCHANGED <<rows, crashes>>

-----------------------------------------------------------------------------
(* ResearchOrchestrationService.execute *)

(* The load transaction and the checks before the start transaction.  A    *)
(* run of another runner or playbook is refused; a succeeded run replays   *)
(* its result and a running one asks for reconciliation, both without a    *)
(* write; a failed one is refused.                                         *)
Startable(p, r) ==
  /\ runKey[r] \in Serves[p]
  /\ runStatus[r] = "queued"
  /\ caseStatus[CaseOfRun(r)] \in {"ready", "running"}

Load(p) ==
  LET r == proc[p].run IN
  /\ proc[p].pc = "load"
  /\ IF Startable(p, r)
       THEN Go(p, [proc[p] EXCEPT !.pc = "start", !.seen = caseStatus[CaseOfRun(r)]])
       ELSE Return(p)
  /\ UNCHANGED <<rows, crashes>>

(* Tx1, on the case and the run as they were loaded: a case loaded running *)
(* is not looked at again.                                                 *)
StartAllowed(p) ==
  LET r == proc[p].run IN
  /\ proc[p].seen = "ready" => CaseMatches(CaseOfRun(r), "ready")
  /\ RunMatches(r, "queued")

Start(p) ==
  LET r == proc[p].run IN
  /\ proc[p].pc = "start"
  /\ StartAllowed(p)
  /\ caseStatus' = IF proc[p].seen = "ready"
                     THEN [caseStatus EXCEPT ![CaseOfRun(r)] = "running"]
                     ELSE caseStatus
  /\ runStatus' = [runStatus EXCEPT ![r] = "running"]
  /\ Go(p, [proc[p] EXCEPT !.pc = "submit"])
  /\ UNCHANGED <<runKey, session, result, calls, crashes>>

StartConflict(p) ==
  /\ proc[p].pc = "start"
  /\ ~StartAllowed(p)
  /\ Return(p)
  /\ UNCHANGED <<rows, crashes>>

(* The runner is called outside any transaction.  It delivers a draft that *)
(* the domain accepts or rejects, reports a timeout whose outcome is       *)
(* unknown, or fails; only a draft always carries a session.               *)
Submit(p) ==
  LET r == proc[p].run IN
  /\ proc[p].pc = "submit"
  /\ calls' = [calls EXCEPT ![r] = @ + 1]
  /\ \E a \in Answers, s \in Sessions \union {None} :
       /\ a \in {"draft", "bad_draft"} => s # None
       /\ Go(p, [proc[p] EXCEPT !.pc = "record", !.answer = a, !.sess = s])
  /\ UNCHANGED <<caseStatus, runStatus, runKey, session, result, crashes>>

(* An exception that is not a JiuwenSwarmError leaves execute: nothing is *)
(* recorded of the call.                                                  *)
SubmitEscapes(p) ==
  /\ proc[p].pc = "submit"
  /\ calls' = [calls EXCEPT ![proc[p].run] = @ + 1]
  /\ Return(p)
  /\ UNCHANGED <<caseStatus, runStatus, runKey, session, result, crashes>>

(* Mutant: the case is not reloaded and compared before it is closed. *)
RunRunning(r) == RunMatches(r, "running")

(* Both outcomes close the run and its case in one transaction. *)
BothRunning(r) == RunMatches(r, "running") /\ CaseMatches(CaseOfRun(r), "running")

Accepted(p) ==
  LET r == proc[p].run IN
  /\ proc[p].answer = "draft"
  /\ BothRunning(r)
  /\ SessionFree(r, proc[p].sess)
  /\ ResultFree(r)

(* Tx2 for an accepted draft. *)
Succeed(p) ==
  LET r == proc[p].run
      s == proc[p].sess
  IN /\ proc[p].pc = "record"
     /\ Accepted(p)
     /\ runStatus' = [runStatus EXCEPT ![r] = "succeeded"]
     /\ caseStatus' = [caseStatus EXCEPT ![CaseOfRun(r)] = "completed"]
     /\ result' = [result EXCEPT ![r] = s]
     /\ Bind(r, s)
     /\ Return(p)
     /\ UNCHANGED <<runKey, calls, crashes>>

FailureRecorded(p) ==
  LET r == proc[p].run IN
  /\ proc[p].answer = "failure"
  /\ BothRunning(r)
  /\ SessionFree(r, proc[p].sess)

(* Tx2 for an adapter failure. *)
Fail(p) ==
  LET r == proc[p].run IN
  /\ proc[p].pc = "record"
  /\ FailureRecorded(p)
  /\ runStatus' = [runStatus EXCEPT ![r] = "failed"]
  /\ caseStatus' = [caseStatus EXCEPT ![CaseOfRun(r)] = "failed"]
  /\ Bind(r, proc[p].sess)
  /\ Return(p)
  /\ UNCHANGED <<runKey, result, calls, crashes>>

TimeoutRecorded(p) ==
  /\ proc[p].answer = "uncertain"
  /\ SessionFree(proc[p].run, proc[p].sess)

(* After an uncertain timeout only the session is recorded. *)
BindUncertain(p) ==
  /\ proc[p].pc = "record"
  /\ TimeoutRecorded(p)
  /\ Bind(proc[p].run, proc[p].sess)
  /\ Return(p)
  /\ UNCHANGED <<caseStatus, runStatus, runKey, result, calls, crashes>>

(* Any refusal rolls back and raises: the run keeps its status. *)
RecordConflict(p) ==
  /\ proc[p].pc = "record"
  /\ ~Accepted(p) /\ ~FailureRecorded(p) /\ ~TimeoutRecorded(p)
  /\ Return(p)
  /\ UNCHANGED <<rows, crashes>>

-----------------------------------------------------------------------------
(* A process dies: its open transaction is rolled back and what it held is *)
(* lost.  No code looks for the runs it leaves behind.                     *)
Crash(p) ==
  /\ proc[p].pc # "idle"
  /\ crashes < MaxCrashes
  /\ crashes' = crashes + 1
  /\ Return(p)
  /\ UNCHANGED rows

Advance(p) ==
  \/ QueueExisting(p) \/ QueueMissing(p) \/ QueueAdd(p) \/ QueueConflict(p)
  \/ Load(p) \/ Start(p) \/ StartConflict(p)
  \/ Submit(p) \/ SubmitEscapes(p)
  \/ Succeed(p) \/ Fail(p) \/ BindUncertain(p) \/ RecordConflict(p)

Next ==
  \/ \E p \in Clients, k \in Keys, h \in BOOLEAN : QueueRequest(p, k, h)
  \/ \E p \in Workers : RunNext(p) \/ \E r \in RunIds : RunOnce(p, r)
  \/ \E p \in Procs : Advance(p) \/ Crash(p)

Spec == Init /\ [][Next]_vars

(* A process that is not killed finishes what it began, and somebody keeps *)
(* invoking the worker CLI, which handles one run per invocation.          *)
FairSpec ==
  /\ Spec
  /\ \A p \in Procs : WF_vars(Advance(p))
  /\ \A p \in Workers : SF_vars(RunNext(p))
-----------------------------------------------------------------------------
(* Properties *)

TypeOK ==
  /\ caseStatus \in [Cases -> CaseStatus]
  /\ runStatus \in [RunIds -> RunStatus]
  /\ runKey \in [RunIds -> Keys \union {None}]
  /\ \A r \in Created : runKey[r] \in Keys
  /\ session \in [RunIds -> Sessions \union {None}]
  /\ result \in [RunIds -> Sessions \union {None}]
  /\ calls \in [RunIds -> Nat]
  /\ proc \in [Procs -> ProcState]
  /\ crashes \in Nat

(* A run is submitted to its runner at most once, whatever the number of   *)
(* workers, handoffs and crashes: only the transaction that moves the run  *)
(* from queued to running leads to a call.                                 *)
SubmittedOnce == \A r \in RunIds : calls[r] <= 1

(* The runs of a case that reached a verdict: none while the case is open, *)
(* exactly one, and of the matching kind, once it is closed.  Several runs *)
(* of one case may be under way at once; only one may decide it.           *)
OneVerdict ==
  \A c \in Cases :
    LET won  == {r \in RunsOf(c) : runStatus[r] = "succeeded"}
        lost == {r \in RunsOf(c) : runStatus[r] = "failed"}
    IN CASE caseStatus[c] = "completed" -> lost = {} /\ \E r \in RunIds : won = {r}
         [] caseStatus[c] = "failed"    -> won = {} /\ \E r \in RunIds : lost = {r}
         [] OTHER                       -> won = {} /\ lost = {}

(* A result row exists exactly for the succeeded runs, and it holds the    *)
(* draft of the session the run is bound to: the branches of execute that  *)
(* meet a succeeded run without a result, or a running run with one, are   *)
(* never taken.                                                            *)
ResultOfSucceededRun ==
  \A r \in RunIds :
    /\ (result[r] # None) <=> (runStatus[r] = "succeeded")
    /\ result[r] # None => result[r] = session[r]

(* A case is running only while one of its runs is, and no run starts      *)
(* before its case was promoted to ready.                                  *)
RunningCaseHasRunningRun ==
  \A c \in Cases :
    /\ caseStatus[c] = "running" => \E r \in RunsOf(c) : runStatus[r] = "running"
    /\ caseStatus[c] = "draft" => RunsOf(c) = {}
    /\ caseStatus[c] = "ready" => \A r \in RunsOf(c) : runStatus[r] = "queued"

(* One external session is bound to one run, hence publishes at most one   *)
(* result, although the runner may report a session it reported before.    *)
SessionBoundOnce ==
  \A q, r \in RunIds : session[q] = session[r] /\ session[q] # None => q = r

(* What is closed stays closed: a closed case, a finished run and a result *)
(* are never written again, although several processes still hold stale    *)
(* copies of them.                                                         *)
ClosedForGood ==
  [][/\ \A c \in Cases : caseStatus[c] \in Closed => caseStatus'[c] = caseStatus[c]
     /\ \A r \in RunIds :
          /\ runStatus[r] \in {"succeeded", "failed"} =>
               <<runStatus[r], session[r]>>' = <<runStatus[r], session[r]>>
          /\ result[r] # None => result'[r] = result[r]]_vars

(* The tables implement ResearchOutcome: verdicts and results appear once, *)
(* together, and for good.                                                 *)
Verdict == [c \in Cases |-> IF caseStatus[c] \in Closed THEN caseStatus[c] ELSE "open"]
Results == {[case |-> CaseOfRun(r), run |-> r] : r \in {q \in RunIds : result[q] # None}}

Outcome == INSTANCE ResearchOutcome
             WITH Runs <- RunIds, verdict <- Verdict, results <- Results

ImplementsOutcome == Outcome!Spec

(* Provided the page run_next reads holds every run, all queued runs are   *)
(* of one case and a worker that serves them keeps being invoked, a queued *)
(* run is started unless its case is closed first.                         *)
QueuedRunsServed ==
  \A r \in RunIds :
    runStatus[r] = "queued"
      ~> (runStatus[r] # "queued" \/ caseStatus[CaseOfRun(r)] \in Closed)
=============================================================================
