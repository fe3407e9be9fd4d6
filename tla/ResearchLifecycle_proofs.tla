----------------------- MODULE ResearchLifecycle_proofs -----------------------
(***************************************************************************)
(* TLAPS proofs about ResearchLifecycle, for every number of cases, keys,  *)
(* processes, sessions, runs and crashes, in three layers of inductive     *)
(* invariants.  LInv says what each process may assume about the run it    *)
(* started: nobody else is working on it (HolderInv), hence it is          *)
(* submitted once.  VInv adds the verdicts of cases, the results and the   *)
(* sessions.  AInv adds what a process may assume about the status of a    *)
(* case it read some steps ago (SeenInv), hence case and runs agree.       *)
(***************************************************************************)
EXTENDS ResearchLifecycle, TLAPS

(* A queue request knows its key. *)
RequestInv == \A p \in Procs : proc[p].pc \in {"list", "add"} => proc[p].key \in Keys

(* The tables are typed; the process part is ProcTyped. *)
RowsTyped ==
  /\ caseStatus \in [Cases -> CaseStatus]
  /\ runStatus \in [RunIds -> RunStatus]
  /\ runKey \in [RunIds -> Keys \union {None}]
  /\ \A r \in Created : runKey[r] \in Keys
  /\ session \in [RunIds -> Sessions \union {None}]
  /\ result \in [RunIds -> Sessions \union {None}]
  /\ calls \in [RunIds -> Nat]
  /\ crashes \in Nat

ProcTyped == proc \in [Procs -> ProcState] /\ RequestInv

TypeInv == RowsTyped /\ ProcTyped

(* The three layers hold initially and every step preserves them: first    *)
(* the types.                                                              *)
LEMMA TypeInit == Init => TypeInv
  BY ConstantsOK DEF Init, TypeInv, RowsTyped, ProcTyped, RequestInv, ProcState, Idle, CaseStatus,
     RunStatus, Answers, Created, RunIds, Procs

(* Every action moves one process to a state of the right shape. *)
LEMMA GoTyped ==
  ASSUME ProcTyped, NEW p \in Procs, NEW st \in ProcState, Go(p, st),
         st.pc \in {"list", "add"} => st.key \in Keys
  PROVE  ProcTyped'
  BY DEF ProcTyped, RequestInv, Go

LEMMA ReturnTyped ==
  ASSUME ProcTyped, NEW p \in Procs, Return(p)
  PROVE  ProcTyped'
<1>1. Idle \in ProcState /\ Idle.pc = "idle"
  BY DEF Idle, ProcState, CaseStatus, Answers
<1> QED
  BY <1>1, GoTyped DEF Return, Go

(* The states an action builds from the idle state or from the current one. *)
LEMMA StateShapes ==
  ASSUME ProcTyped, NEW p \in Procs
  PROVE  /\ \A r \in RunIds : [Idle EXCEPT !.pc = "load", !.run = r] \in ProcState
         /\ \A k \in Keys, h \in BOOLEAN, c \in CaseStatus :
              [Idle EXCEPT !.pc = "list", !.key = k, !.handoff = h, !.seen = c] \in ProcState
         /\ [proc[p] EXCEPT !.pc = "add"] \in ProcState
         /\ [proc[p] EXCEPT !.pc = "submit"] \in ProcState
         /\ \A c \in CaseStatus :
              [proc[p] EXCEPT !.pc = "start", !.seen = c] \in ProcState
         /\ \A a \in Answers, s \in Sessions \union {None} :
              [proc[p] EXCEPT !.pc = "record", !.answer = a, !.sess = s] \in ProcState
<1>1. Idle \in ProcState
  BY DEF Idle, ProcState, CaseStatus, Answers
<1>2. proc[p] \in ProcState
  BY DEF ProcTyped
<1> QED
  BY <1>1, <1>2 DEF ProcState

LEMMA HandedTyped ==
  ASSUME ProcTyped, NEW p \in Procs, NEW r \in RunIds, Handed(p, r)
  PROVE  ProcTyped'
<1>1. [Idle EXCEPT !.pc = "load", !.run = r].pc = "load"
  BY DEF Idle
<1> QED
  BY <1>1, StateShapes, GoTyped, ReturnTyped DEF Handed

LEMMA RowsKept == RowsTyped /\ UNCHANGED <<rows, crashes>> => RowsTyped'
  BY DEF RowsTyped, rows, Created

LEMMA BindTyped ==
  ASSUME session \in [RunIds -> Sessions \union {None}], NEW r,
         NEW s \in Sessions \union {None}, Bind(r, s)
  PROVE  session' \in [RunIds -> Sessions \union {None}]
  BY DEF Bind

LEMMA ProcAdvance ==
  ASSUME RowsTyped, ProcTyped, NEW p \in Procs, Advance(p)
  PROVE  ProcTyped'
<1>1. ASSUME NEW r \in RunIds, Handed(p, r) PROVE ProcTyped'
  BY <1>1, HandedTyped
<1>2. CASE QueueExisting(p)
  BY <1>1, <1>2 DEF QueueExisting, Same, Created
<1>3. CASE QueueMissing(p)
  <2>1. CASE Go(p, [proc[p] EXCEPT !.pc = "add"])
    <3>1. [proc[p] EXCEPT !.pc = "add"].key \in Keys
      BY <1>3 DEF QueueMissing, ProcTyped, RequestInv, ProcState
    <3> QED
      BY <2>1, <3>1, StateShapes, GoTyped
  <2> QED
    BY <1>3, <2>1, ReturnTyped DEF QueueMissing
<1>4. CASE QueueAdd(p)
  BY <1>1, <1>4 DEF QueueAdd
<1>5. CASE Load(p)
  <2> DEFINE st(c) == [proc[p] EXCEPT !.pc = "start", !.seen = c]
  <2>1. \A c : st(c).pc = "start"
    BY DEF ProcTyped, ProcState
  <2>2. proc[p].run \in RunIds /\ Startable(p, proc[p].run)
          => caseStatus[CaseOfRun(proc[p].run)] \in CaseStatus
    BY DEF Startable, CaseStatus
  <2>3. Startable(p, proc[p].run) => caseStatus[CaseOfRun(proc[p].run)] \in CaseStatus
    BY DEF Startable, CaseStatus
  <2> QED
    BY <1>5, <2>1, <2>3, StateShapes, GoTyped, ReturnTyped DEF Load
<1>6. CASE Start(p)
  <2>1. [proc[p] EXCEPT !.pc = "submit"].pc = "submit"
    BY DEF ProcTyped, ProcState
  <2> QED
    BY <1>6, <2>1, StateShapes, GoTyped DEF Start
<1>7. CASE Submit(p)
  <2> DEFINE st(a, s) == [proc[p] EXCEPT !.pc = "record", !.answer = a, !.sess = s]
  <2>1. \A a, s : st(a, s).pc = "record"
    BY DEF ProcTyped, ProcState
  <2> QED
    BY <1>7, <2>1, StateShapes, GoTyped DEF Submit
<1>8. CASE Return(p)
  BY <1>8, ReturnTyped
<1> QED
  BY <1>2, <1>3, <1>4, <1>5, <1>6, <1>7, <1>8
     DEF Advance, QueueConflict, StartConflict, SubmitEscapes, Succeed, Fail, BindUncertain,
         RecordConflict

LEMMA RowsAdvance ==
  ASSUME RowsTyped, ProcTyped, NEW p \in Procs, Advance(p)
  PROVE  RowsTyped'
<1>1. CASE UNCHANGED <<rows, crashes>>
  BY <1>1, RowsKept
<1>2. proc[p].sess \in Sessions \union {None}
  BY DEF ProcTyped, ProcState
<1>3. CASE QueueAdd(p)
  <2>1. proc[p].key \in Keys
    BY <1>3 DEF QueueAdd, ProcTyped, RequestInv
  <2>2. caseStatus' \in [Cases -> CaseStatus]
    BY <1>3 DEF QueueAdd, RowsTyped, CaseStatus
  <2> QED
    BY <1>3, <2>1, <2>2 DEF QueueAdd, RowsTyped, RunStatus, Created
<1>4. CASE Start(p)
  BY <1>4 DEF Start, StartAllowed, RunMatches, RowsTyped, CaseStatus, RunStatus, Created
<1>5. CASE Submit(p) \/ SubmitEscapes(p)
  <2>1. calls' = [calls EXCEPT ![proc[p].run] = @ + 1]
    BY <1>5 DEF Submit, SubmitEscapes
  <2>2. calls' \in [RunIds -> Nat]
    <3>1. calls \in [RunIds -> Nat] /\ \A r \in RunIds : calls[r] + 1 \in Nat
      BY DEF RowsTyped
    <3> QED
      BY <2>1, <3>1
  <2>3. UNCHANGED <<caseStatus, runStatus, runKey, session, result, crashes>>
    BY <1>5 DEF Submit, SubmitEscapes
  <2> QED
    BY <2>2, <2>3 DEF RowsTyped, Created
<1>6. CASE Succeed(p)
  <2>1. session' \in [RunIds -> Sessions \union {None}]
    BY <1>2, <1>6, BindTyped DEF Succeed, RowsTyped
  <2> QED
    BY <1>2, <1>6, <2>1 DEF Succeed, Accepted, BothRunning, RunMatches, RowsTyped, CaseStatus,
       RunStatus, Created
<1>7. CASE Fail(p)
  <2>1. session' \in [RunIds -> Sessions \union {None}]
    BY <1>2, <1>7, BindTyped DEF Fail, RowsTyped
  <2> QED
    BY <1>7, <2>1 DEF Fail, FailureRecorded, BothRunning, RunMatches, RowsTyped, CaseStatus,
       RunStatus, Created
<1>8. CASE BindUncertain(p)
  <2>1. session' \in [RunIds -> Sessions \union {None}]
    BY <1>2, <1>8, BindTyped DEF BindUncertain, RowsTyped
  <2> QED
    BY <1>8, <2>1 DEF BindUncertain, RowsTyped, Created
<1> QED
  BY <1>1, <1>3, <1>4, <1>5, <1>6, <1>7, <1>8
     DEF Advance, QueueExisting, QueueMissing, QueueConflict, Load, StartConflict,
         RecordConflict

LEMMA TypeStep == TypeInv /\ [Next]_vars => TypeInv'
<1> SUFFICES ASSUME TypeInv, [Next]_vars PROVE TypeInv'
  OBVIOUS
<1> USE DEF TypeInv
<1>1. ASSUME NEW p \in Clients, NEW k \in Keys, NEW h \in BOOLEAN, QueueRequest(p, k, h)
      PROVE  TypeInv'
  <2> DEFINE st == [Idle EXCEPT !.pc = "list", !.key = k, !.handoff = h,
                                !.seen = caseStatus[CaseOf[k]]]
  <2>1. p \in Procs /\ caseStatus[CaseOf[k]] \in CaseStatus
    BY ConstantsOK DEF Procs, RowsTyped
  <2>2. st.key = k
    BY DEF Idle
  <2> QED
    BY <1>1, <2>1, <2>2, StateShapes, GoTyped, RowsKept DEF QueueRequest
<1>2. ASSUME NEW p \in Workers, NEW r \in RunIds,
             Go(p, [Idle EXCEPT !.pc = "load", !.run = r]), UNCHANGED <<rows, crashes>>
      PROVE  TypeInv'
  <2>1. [Idle EXCEPT !.pc = "load", !.run = r].pc = "load"
    BY DEF Idle
  <2> QED
    BY <1>2, <2>1, StateShapes, GoTyped, RowsKept DEF Procs
<1>3. ASSUME NEW p \in Workers, RunNext(p)
      PROVE  TypeInv'
  BY <1>2, <1>3 DEF RunNext, QueuedInPage, Page, Created
<1>4. ASSUME NEW p \in Workers, NEW r \in RunIds, RunOnce(p, r)
      PROVE  TypeInv'
  BY <1>2, <1>4 DEF RunOnce
<1>5. ASSUME NEW p \in Procs, Advance(p)
      PROVE  TypeInv'
  BY <1>5, ProcAdvance, RowsAdvance
<1>6. ASSUME NEW p \in Procs, Crash(p)
      PROVE  TypeInv'
  BY <1>6, ReturnTyped DEF Crash, RowsTyped, rows, Created
<1>7. CASE UNCHANGED vars
  BY <1>7 DEF vars, RowsTyped, ProcTyped, RequestInv, Created
<1> QED
  BY <1>1, <1>3, <1>4, <1>5, <1>6, <1>7 DEF Next

(* Every variable keeps its type in every behaviour of the specification. *)
THEOREM TypeCorrect == Spec => []TypeOK
<1>1. TypeInv => TypeOK
  BY DEF TypeInv, RowsTyped, ProcTyped, TypeOK
<1> QED
  BY <1>1, TypeInit, TypeStep, PTL DEF Spec

-----------------------------------------------------------------------------
(* What a process may assume about the run it works on.  The run exists;   *)
(* once the process has started it, it is running, without a session, and  *)
(* no other process has started it; it was not called before.              *)
Working(p) == proc[p].pc \in {"load", "start", "submit", "record"}
Holds(p)   == proc[p].pc \in {"submit", "record"}

RunExists  == \A p \in Procs : Working(p) => proc[p].run \in Created
HeldRun    == \A p \in Procs : Holds(p) => /\ runStatus[proc[p].run] = "running"
                                           /\ session[proc[p].run] = None
OneHolder  == \A p, q \in Procs : Holds(p) /\ Holds(q) /\ proc[p].run = proc[q].run => p = q
NotCalled  == \A p \in Procs : proc[p].pc = "submit" => calls[proc[p].run] = 0
Untouched  == \A r \in RunIds : runStatus[r] \in {"absent", "queued"}
                                  => calls[r] = 0 /\ session[r] = None
DraftSess  == \A p \in Procs : proc[p].pc = "record" /\ proc[p].answer = "draft"
                                  => proc[p].sess # None

HolderInv == RunExists /\ HeldRun /\ OneHolder /\ NotCalled /\ Untouched /\ DraftSess

LInv == TypeInv /\ HolderInv /\ SubmittedOnce

LEMMA HolderInit == Init => HolderInv /\ SubmittedOnce
  BY DEF Init, HolderInv, RunExists, HeldRun, OneHolder, NotCalled, Untouched, DraftSess,
     SubmittedOnce, Working, Holds, Idle

(* A process that changes no row, and goes idle or on to work on an        *)
(* existing run it has not started, disturbs nothing.                      *)
LEMMA HolderQuiet ==
  ASSUME LInv, NEW p \in Procs, NEW st, Go(p, st), UNCHANGED rows,
         st.pc \notin {"submit", "record"},
         st.pc \in {"load", "start"} => st.run \in Created
  PROVE  HolderInv' /\ SubmittedOnce'
<1>1. \A q \in Procs : proc'[q] = IF q = p THEN st ELSE proc[q]
  BY DEF Go, LInv, TypeInv, ProcTyped
<1> QED
  BY <1>1 DEF LInv, HolderInv, RunExists, HeldRun, OneHolder, NotCalled, Untouched, DraftSess,
     SubmittedOnce, Working, Holds, rows, Created

LEMMA HolderReturn ==
  ASSUME LInv, NEW p \in Procs, Return(p), UNCHANGED rows
  PROVE  HolderInv' /\ SubmittedOnce'
<1>1. Idle.pc = "idle" /\ Go(p, Idle)
  BY DEF Idle, Return, Go
<1> QED
  BY <1>1, HolderQuiet

(* Handing a run on: the process goes idle or loads that run. *)
LEMMA HandedProc ==
  ASSUME ProcTyped, NEW p \in Procs, NEW r \in RunIds, Handed(p, r)
  PROVE  /\ \A q \in Procs \ {p} : proc'[q] = proc[q]
         /\ proc'[p].pc \in {"idle", "load"}
         /\ proc'[p].pc = "load" => proc'[p].run = r
<1>1. Idle.pc = "idle"
  BY DEF Idle
<1>2. /\ [Idle EXCEPT !.pc = "load", !.run = r].pc = "load"
      /\ [Idle EXCEPT !.pc = "load", !.run = r].run = r
  BY DEF Idle
<1> QED
  BY <1>1, <1>2 DEF Handed, Go, Return, ProcTyped

(* Leaving the run: the process goes idle, the others stay as they are. *)
LEMMA ReturnProc ==
  ASSUME ProcTyped, NEW p \in Procs, Return(p)
  PROVE  /\ \A q \in Procs \ {p} : proc'[q] = proc[q]
         /\ proc'[p].pc = "idle"
<1>1. Idle.pc = "idle"
  BY DEF Idle
<1> QED
  BY <1>1 DEF Return, ProcTyped

(* Every step of a process preserves what HolderInv says of all of them. *)
LEMMA HolderAdvance ==
  ASSUME LInv, NEW p \in Procs, Advance(p)
  PROVE  HolderInv' /\ SubmittedOnce'
<1> DEFINE r == proc[p].run
<1>t. ProcTyped /\ RowsTyped
  BY DEF LInv, TypeInv
<1>1. CASE QueueExisting(p)
  <2>1. PICK s \in Created : Handed(p, s)
    BY <1>1 DEF QueueExisting, Same
  <2>2. UNCHANGED rows
    BY <1>1 DEF QueueExisting
  <2> QED
    BY <1>t, <2>1, <2>2, HandedProc DEF LInv, HolderInv, RunExists, HeldRun, OneHolder, NotCalled,
       Untouched, DraftSess, SubmittedOnce, Working, Holds, rows, Created
<1>2. CASE QueueMissing(p)
  <2> DEFINE st == [proc[p] EXCEPT !.pc = "add"]
  <2>1. st.pc = "add"
    BY <1>t DEF ProcTyped, ProcState
  <2> QED
    BY <1>2, <2>1, HolderQuiet, HolderReturn DEF QueueMissing, rows
<1>3. CASE QueueAdd(p)
  <2>1. PICK s \in RunIds \ Created : /\ runStatus' = [runStatus EXCEPT ![s] = "queued"]
                                      /\ Handed(p, s)
    BY <1>3 DEF QueueAdd
  <2>2. runStatus[s] = "absent" /\ Created' = Created \union {s}
    BY <1>t, <2>1 DEF RowsTyped, Created
  <2>3. \A q \in Procs : Working(q) => proc[q].run # s
    BY <2>1 DEF LInv, HolderInv, RunExists
  <2>4. UNCHANGED <<session, calls>>
    BY <1>3 DEF QueueAdd
  <2> QED
    BY <1>t, <2>1, <2>2, <2>3, <2>4, HandedProc DEF LInv, HolderInv, RunExists, HeldRun, OneHolder,
       NotCalled, Untouched, DraftSess, SubmittedOnce, Working, Holds, RowsTyped
<1>4. CASE Load(p)
  <2> DEFINE st == [proc[p] EXCEPT !.pc = "start", !.seen = caseStatus[CaseOfRun(r)]]
  <2>1. st.pc = "start" /\ st.run = r
    BY <1>t DEF ProcTyped, ProcState
  <2>2. r \in Created
    BY <1>4 DEF Load, LInv, HolderInv, RunExists, Working
  <2> QED
    BY <1>4, <2>1, <2>2, HolderQuiet, HolderReturn DEF Load, rows
<1>5. CASE Start(p)
  <2>1. r \in Created /\ runStatus[r] = "queued"
    BY <1>5 DEF Start, StartAllowed, RunMatches, LInv, HolderInv, RunExists, Working
  <2>2. /\ runStatus' = [runStatus EXCEPT ![r] = "running"]
        /\ UNCHANGED <<session, calls>>
    BY <1>5 DEF Start
  <2>3. /\ \A q \in Procs \ {p} : proc'[q] = proc[q]
        /\ proc'[p].pc = "submit" /\ proc'[p].run = r
    BY <1>5, <1>t DEF Start, Go, ProcTyped, ProcState
  <2>4. \A q \in Procs : Holds(q) => proc[q].run # r
    BY <2>1 DEF LInv, HolderInv, HeldRun
  <2>5. Created' = Created
    BY <1>t, <2>1, <2>2 DEF Created, RowsTyped
  <2> QED
    BY <1>t, <2>1, <2>2, <2>3, <2>4, <2>5 DEF LInv, HolderInv, RunExists, HeldRun, OneHolder,
       NotCalled, Untouched, DraftSess, SubmittedOnce, Working, Holds, RowsTyped, Created
<1>6. CASE Submit(p) \/ SubmitEscapes(p)
  <2>1. /\ r \in Created /\ runStatus[r] = "running" /\ session[r] = None /\ calls[r] = 0
        /\ \A q \in Procs : Holds(q) /\ proc[q].run = r => q = p
    BY <1>6 DEF Submit, SubmitEscapes, LInv, HolderInv, RunExists, HeldRun, OneHolder, NotCalled,
       Working, Holds
  <2>2. /\ calls' = [calls EXCEPT ![r] = @ + 1]
        /\ UNCHANGED <<runStatus, session>>
    BY <1>6 DEF Submit, SubmitEscapes
  <2>3. /\ \A q \in Procs \ {p} : proc'[q] = proc[q]
        /\ \/ proc'[p].pc = "idle"
           \/ /\ proc'[p].pc = "record" /\ proc'[p].run = r
              /\ proc'[p].answer = "draft" => proc'[p].sess # None
    <3>1. CASE Submit(p)
      BY <3>1, <1>t DEF Submit, Go, ProcTyped, ProcState
    <3>2. CASE SubmitEscapes(p)
      BY <3>2, <1>t, ReturnProc DEF SubmitEscapes
    <3> QED
      BY <1>6, <3>1, <3>2
  <2>4. calls'[r] = 1 /\ \A q \in RunIds \ {r} : calls'[q] = calls[q]
    BY <1>t, <2>1, <2>2 DEF RowsTyped, Created
  <2>5. \A q \in Procs \ {p} : proc[q].pc = "submit" => proc[q].run # r
    BY <2>1 DEF Holds
  <2>6. Created' = Created
    BY <2>2 DEF Created
  <2> QED
    BY <2>1, <2>2, <2>3, <2>4, <2>5, <2>6 DEF LInv, HolderInv, RunExists, HeldRun, OneHolder,
       NotCalled, Untouched, DraftSess, SubmittedOnce, Working, Holds, Created
<1>7. CASE Succeed(p) \/ Fail(p) \/ BindUncertain(p)
  <2>1. /\ r \in Created /\ runStatus[r] = "running"
        /\ \A q \in Procs : Holds(q) /\ proc[q].run = r => q = p
    BY <1>7 DEF Succeed, Fail, BindUncertain, LInv, HolderInv, RunExists, HeldRun, OneHolder,
       Working, Holds
  <2>2. UNCHANGED calls
    BY <1>7 DEF Succeed, Fail, BindUncertain
  <2>3. \A q \in RunIds \ {r} : session'[q] = session[q] /\ runStatus'[q] = runStatus[q]
    BY <1>7, <1>t DEF Succeed, Fail, BindUncertain, Bind, RowsTyped
  <2>4. runStatus'[r] \in {"running", "succeeded", "failed"}
    BY <1>7, <1>t, <2>1 DEF Succeed, Fail, BindUncertain, RowsTyped, Created
  <2>5. /\ \A q \in Procs \ {p} : proc'[q] = proc[q]
        /\ proc'[p].pc = "idle"
    BY <1>7, <1>t, ReturnProc DEF Succeed, Fail, BindUncertain
  <2>6. Created' = Created
    BY <2>1, <2>3, <2>4 DEF Created
  <2> QED
    BY <2>1, <2>2, <2>3, <2>4, <2>5, <2>6 DEF LInv, HolderInv, RunExists, HeldRun, OneHolder,
       NotCalled, Untouched, DraftSess, SubmittedOnce, Working, Holds, Created
<1>8. CASE Return(p) /\ UNCHANGED rows
  BY <1>8, HolderReturn
<1> QED
  BY <1>1, <1>2, <1>3, <1>4, <1>5, <1>6, <1>7, <1>8
     DEF Advance, QueueConflict, StartConflict, RecordConflict

LEMMA LStep == LInv /\ [Next]_vars => LInv'
<1> SUFFICES ASSUME LInv, [Next]_vars PROVE HolderInv' /\ SubmittedOnce'
  BY TypeStep DEF LInv
<1>1. ASSUME NEW p \in Clients, NEW k \in Keys, NEW h \in BOOLEAN, QueueRequest(p, k, h)
      PROVE  HolderInv' /\ SubmittedOnce'
  <2> DEFINE st == [Idle EXCEPT !.pc = "list", !.key = k, !.handoff = h,
                                !.seen = caseStatus[CaseOf[k]]]
  <2>1. st.pc = "list" /\ p \in Procs
    BY DEF Idle, Procs
  <2> QED
    BY <1>1, <2>1, HolderQuiet DEF QueueRequest
<1>2. ASSUME NEW p \in Workers, NEW r \in Created,
             Go(p, [Idle EXCEPT !.pc = "load", !.run = r]), UNCHANGED rows
      PROVE  HolderInv' /\ SubmittedOnce'
  <2> DEFINE st == [Idle EXCEPT !.pc = "load", !.run = r]
  <2>1. st.pc = "load" /\ st.run = r /\ p \in Procs
    BY DEF Idle, Procs
  <2> QED
    BY <1>2, <2>1, HolderQuiet
<1>3. ASSUME NEW p \in Workers, RunNext(p)
      PROVE  HolderInv' /\ SubmittedOnce'
  BY <1>2, <1>3 DEF RunNext, QueuedInPage, Page
<1>4. ASSUME NEW p \in Workers, NEW r \in RunIds, RunOnce(p, r)
      PROVE  HolderInv' /\ SubmittedOnce'
  <2>1. r \in Created
    BY <1>4 DEF RunOnce, Created
  <2> QED
    BY <1>2, <1>4, <2>1 DEF RunOnce
<1>5. ASSUME NEW p \in Procs, Advance(p)
      PROVE  HolderInv' /\ SubmittedOnce'
  BY <1>5, HolderAdvance
<1>6. ASSUME NEW p \in Procs, Crash(p)
      PROVE  HolderInv' /\ SubmittedOnce'
  BY <1>6, HolderReturn DEF Crash
<1>7. CASE UNCHANGED vars
  BY <1>7 DEF vars, LInv, HolderInv, RunExists, HeldRun, OneHolder, NotCalled, Untouched, DraftSess,
     SubmittedOnce, Working, Holds, Created
<1> QED
  BY <1>1, <1>3, <1>4, <1>5, <1>6, <1>7 DEF Next

LEMMA LInvariant == Spec => []LInv
<1>1. Init => LInv
  BY TypeInit, HolderInit DEF LInv
<1> QED
  BY <1>1, LStep, PTL DEF Spec

(* However many workers, handoffs and crashes there are, a run is submitted *)
(* to its runner at most once.                                              *)
THEOREM SubmittedAtMostOnce == Spec => []SubmittedOnce
<1>1. LInv => SubmittedOnce
  BY DEF LInv
<1> QED
  BY <1>1, LInvariant, PTL

-----------------------------------------------------------------------------
(* Verdicts and results.  Won, Lost: the runs that decided a case. *)
Won(c)  == {r \in RunsOf(c) : runStatus[r] = "succeeded"}
Lost(c) == {r \in RunsOf(c) : runStatus[r] = "failed"}

CaseDecided(c) ==
  /\ caseStatus[c] = "completed" => Lost(c) = {} /\ \E r \in RunIds : Won(c) = {r}
  /\ caseStatus[c] = "failed" => Won(c) = {} /\ \E r \in RunIds : Lost(c) = {r}
  /\ caseStatus[c] \notin Closed => Won(c) = {} /\ Lost(c) = {}

Decided == \A c \in Cases : CaseDecided(c)

VInv == LInv /\ Decided /\ ResultOfSucceededRun /\ SessionBoundOnce

LEMMA DecidedInit == Init => Decided /\ ResultOfSucceededRun /\ SessionBoundOnce
  BY DEF Init, Decided, CaseDecided, Won, Lost, RunsOf, Created, ResultOfSucceededRun,
     SessionBoundOnce, Closed

(* Every run that exists belongs to a case. *)
LEMMA RunHasCase ==
  ASSUME RowsTyped, NEW r \in Created
  PROVE  r \in RunIds /\ CaseOfRun(r) \in Cases
  BY ConstantsOK DEF RowsTyped, Created, CaseOfRun

(* A step that writes no session and no result, finishes no run, and opens *)
(* or closes no case, leaves the verdicts as they are.                     *)
LEMMA DecidedQuiet ==
  ASSUME VInv,
         UNCHANGED <<session, result>>,
         \A c \in Cases : caseStatus'[c] = caseStatus[c]
                          \/ (caseStatus[c] \notin Closed /\ caseStatus'[c] \notin Closed),
         \A r \in RunIds : (runStatus'[r] = runStatus[r] /\ runKey'[r] = runKey[r])
                           \/ {runStatus[r], runStatus'[r]} \intersect {"succeeded", "failed"} = {}
  PROVE  Decided' /\ ResultOfSucceededRun' /\ SessionBoundOnce'
<1>1. \A c \in Cases : Won(c)' = Won(c) /\ Lost(c)' = Lost(c)
  BY DEF Won, Lost, RunsOf, Created, CaseOfRun
<1>2. Decided'
  BY <1>1 DEF VInv, Decided, CaseDecided, Closed
<1>3. ResultOfSucceededRun'
  BY DEF VInv, ResultOfSucceededRun
<1> QED
  BY <1>2, <1>3 DEF VInv, SessionBoundOnce

(* The transaction that records an accepted draft. *)
LEMMA DecidedSucceed ==
  ASSUME VInv, NEW p \in Procs, Succeed(p)
  PROVE  Decided' /\ ResultOfSucceededRun' /\ SessionBoundOnce'
<1>r. PICK r : r = proc[p].run
  OBVIOUS
<1>c. PICK c : c = CaseOfRun(r)
  OBVIOUS
<1>s. PICK s : s = proc[p].sess
  OBVIOUS
<1>t. RowsTyped /\ ProcTyped
  BY DEF VInv, LInv, TypeInv
<1>1. r \in Created /\ runStatus[r] = "running" /\ session[r] = None /\ s # None
  BY <1>r, <1>s DEF Succeed, Accepted, VInv, LInv, HolderInv, RunExists, HeldRun, DraftSess, Working, Holds
<1>2. r \in RunIds /\ c \in Cases /\ s \in Sessions
  BY <1>t, <1>1, <1>s, <1>c, RunHasCase DEF ProcTyped, ProcState
<1>3. /\ caseStatus[c] = "running" /\ caseStatus' = [caseStatus EXCEPT ![c] = "completed"]
      /\ runStatus' = [runStatus EXCEPT ![r] = "succeeded"]
      /\ result[r] = None /\ result' = [result EXCEPT ![r] = s]
      /\ session' = [session EXCEPT ![r] = s]
      /\ \A q \in RunIds \ {r} : session[q] # s
      /\ runKey' = runKey
  BY <1>1, <1>r, <1>c, <1>s DEF Succeed, Accepted, BothRunning, CaseMatches, SessionFree, ResultFree, Bind
<1>4. Created' = Created
  BY <1>t, <1>1, <1>3 DEF Created, RowsTyped
<1>5. \A d \in Cases : Lost(d)' = Lost(d)
  BY <1>t, <1>1, <1>3, <1>4, <1>c DEF Lost, RunsOf, CaseOfRun, RowsTyped, Created
<1>6. \A d \in Cases \ {c} : Won(d)' = Won(d)
  BY <1>t, <1>1, <1>3, <1>4, <1>c DEF Won, RunsOf, CaseOfRun, RowsTyped, Created
<1>7. Won(c) = {} /\ Lost(c) = {}
  BY <1>2, <1>3 DEF VInv, Decided, CaseDecided, Closed
<1>8. Won(c)' = {r}
  BY <1>t, <1>1, <1>2, <1>3, <1>4, <1>7, <1>c DEF Won, RunsOf, CaseOfRun, RowsTyped, Created
<1>9. /\ caseStatus'[c] = "completed"
      /\ \A d \in Cases \ {c} : caseStatus'[d] = caseStatus[d]
  BY <1>t, <1>2, <1>3 DEF RowsTyped
<1>10. Decided'
  <2> SUFFICES ASSUME NEW d \in Cases PROVE CaseDecided(d)'
    BY DEF Decided
  <2>1. CASE d = c
    BY <1>2, <1>5, <1>7, <1>8, <1>9, <2>1 DEF CaseDecided, Closed
  <2>2. CASE d # c
    BY <1>5, <1>6, <1>9, <2>2 DEF CaseDecided, VInv, Decided
  <2> QED
    BY <2>1, <2>2
<1>11. ResultOfSucceededRun'
  BY <1>t, <1>2, <1>3, ConstantsOK DEF VInv, ResultOfSucceededRun, RowsTyped
<1>12. SessionBoundOnce'
  BY <1>t, <1>2, <1>3 DEF VInv, SessionBoundOnce, RowsTyped
<1> QED
  BY <1>10, <1>11, <1>12

(* The transaction that records a failure. *)
LEMMA DecidedFail ==
  ASSUME VInv, NEW p \in Procs, Fail(p)
  PROVE  Decided' /\ ResultOfSucceededRun' /\ SessionBoundOnce'
<1>r. PICK r : r = proc[p].run
  OBVIOUS
<1>c. PICK c : c = CaseOfRun(r)
  OBVIOUS
<1>s. PICK s : s = proc[p].sess
  OBVIOUS
<1>t. RowsTyped /\ ProcTyped
  BY DEF VInv, LInv, TypeInv
<1>1. r \in Created /\ runStatus[r] = "running"
  BY <1>r DEF Fail, VInv, LInv, HolderInv, RunExists, HeldRun, Working, Holds
<1>2. r \in RunIds /\ c \in Cases
  BY <1>t, <1>1, <1>s, <1>c, RunHasCase
<1>3. /\ caseStatus[c] = "running" /\ caseStatus' = [caseStatus EXCEPT ![c] = "failed"]
      /\ runStatus' = [runStatus EXCEPT ![r] = "failed"]
      /\ UNCHANGED <<result, runKey>>
  BY <1>r, <1>c DEF Fail, FailureRecorded, BothRunning, CaseMatches
<1>4. Created' = Created
  BY <1>t, <1>1, <1>3 DEF Created, RowsTyped
<1>5. \A d \in Cases : Won(d)' = Won(d)
  BY <1>t, <1>1, <1>3, <1>4, <1>c DEF Won, RunsOf, CaseOfRun, RowsTyped, Created
<1>6. \A d \in Cases \ {c} : Lost(d)' = Lost(d)
  BY <1>t, <1>1, <1>3, <1>4, <1>c DEF Lost, RunsOf, CaseOfRun, RowsTyped, Created
<1>7. Won(c) = {} /\ Lost(c) = {}
  BY <1>2, <1>3 DEF VInv, Decided, CaseDecided, Closed
<1>8. Lost(c)' = {r}
  BY <1>t, <1>1, <1>2, <1>3, <1>4, <1>7, <1>c DEF Lost, RunsOf, CaseOfRun, RowsTyped, Created
<1>9. /\ caseStatus'[c] = "failed"
      /\ \A d \in Cases \ {c} : caseStatus'[d] = caseStatus[d]
  BY <1>t, <1>2, <1>3 DEF RowsTyped
<1>10. Decided'
  <2> SUFFICES ASSUME NEW d \in Cases PROVE CaseDecided(d)'
    BY DEF Decided
  <2>1. CASE d = c
    BY <1>2, <1>5, <1>7, <1>8, <1>9, <2>1 DEF CaseDecided, Closed
  <2>2. CASE d # c
    BY <1>5, <1>6, <1>9, <2>2 DEF CaseDecided, VInv, Decided
  <2> QED
    BY <2>1, <2>2
<1>11. ResultOfSucceededRun' /\ SessionBoundOnce'
  <2>1. /\ SessionFree(r, s) /\ Bind(r, s)
        /\ result[r] = None
    BY <1>1, <1>2, <1>r, <1>s DEF Fail, FailureRecorded, VInv, ResultOfSucceededRun
  <2> QED
    BY <1>t, <1>1, <1>2, <1>3, <2>1 DEF VInv, ResultOfSucceededRun, SessionBoundOnce, SessionFree,
       Bind, RowsTyped
<1> QED
  BY <1>10, <1>11

LEMMA DecidedTimeout ==
  ASSUME VInv, NEW p \in Procs, BindUncertain(p)
  PROVE  Decided' /\ ResultOfSucceededRun' /\ SessionBoundOnce'
<1> DEFINE r == proc[p].run
           s == proc[p].sess
<1>t. RowsTyped
  BY DEF VInv, LInv, TypeInv
<1>1. r \in RunIds /\ runStatus[r] = "running"
  BY DEF BindUncertain, VInv, LInv, HolderInv, RunExists, HeldRun, Working, Holds, Created
<1>2. SessionFree(r, s) /\ Bind(r, s) /\ UNCHANGED <<caseStatus, runStatus, runKey, result>>
  BY DEF BindUncertain, TimeoutRecorded
<1>3. result[r] = None
  BY <1>1 DEF VInv, ResultOfSucceededRun
<1>4. Decided'
  BY <1>2 DEF VInv, Decided, CaseDecided, Won, Lost, RunsOf, CaseOfRun, Created
<1> QED
  BY <1>t, <1>1, <1>2, <1>3, <1>4 DEF VInv, ResultOfSucceededRun, SessionBoundOnce, SessionFree,
     Bind, RowsTyped

LEMMA DecidedAdvance ==
  ASSUME VInv, NEW p \in Procs, Advance(p)
  PROVE  Decided' /\ ResultOfSucceededRun' /\ SessionBoundOnce'
<1>t. RowsTyped /\ ProcTyped
  BY DEF VInv, LInv, TypeInv
<1>1. CASE UNCHANGED rows
  BY <1>1, DecidedQuiet DEF rows
<1>2. CASE QueueAdd(p)
  <2>1. \A c \in Cases : caseStatus'[c] = caseStatus[c]
                         \/ (caseStatus[c] \notin Closed /\ caseStatus'[c] \notin Closed)
    BY <1>2, <1>t DEF QueueAdd, CaseMatches, RowsTyped, Closed
  <2>2. \A r \in RunIds : (runStatus'[r] = runStatus[r] /\ runKey'[r] = runKey[r])
                          \/ {runStatus[r], runStatus'[r]} \intersect {"succeeded", "failed"} = {}
    BY <1>2, <1>t DEF QueueAdd, RowsTyped, Created
  <2> QED
    BY <1>2, <2>1, <2>2, DecidedQuiet DEF QueueAdd
<1>3. CASE Start(p)
  <2>1. \A c \in Cases : caseStatus'[c] = caseStatus[c]
                         \/ (caseStatus[c] \notin Closed /\ caseStatus'[c] \notin Closed)
    BY <1>3, <1>t DEF Start, StartAllowed, CaseMatches, RowsTyped, Closed
  <2>2. \A r \in RunIds : (runStatus'[r] = runStatus[r] /\ runKey'[r] = runKey[r])
                          \/ {runStatus[r], runStatus'[r]} \intersect {"succeeded", "failed"} = {}
    BY <1>3, <1>t DEF Start, StartAllowed, RunMatches, RowsTyped
  <2> QED
    BY <1>3, <2>1, <2>2, DecidedQuiet DEF Start
<1>4. CASE UNCHANGED <<caseStatus, runStatus, runKey, session, result>>
  BY <1>4, DecidedQuiet
<1> QED
  BY <1>1, <1>2, <1>3, <1>4, DecidedSucceed, DecidedFail, DecidedTimeout
     DEF Advance, QueueExisting, QueueMissing, QueueConflict, Load, StartConflict, Submit,
         SubmitEscapes, RecordConflict

LEMMA VStep == VInv /\ [Next]_vars => VInv'
<1> SUFFICES ASSUME VInv, [Next]_vars
             PROVE  Decided' /\ ResultOfSucceededRun' /\ SessionBoundOnce'
  BY LStep DEF VInv
<1>1. CASE UNCHANGED rows
  BY <1>1, DecidedQuiet DEF rows
<1> QED
  BY <1>1, DecidedAdvance DEF Next, QueueRequest, RunNext, RunOnce, Crash, vars, rows

LEMMA VInvariant == Spec => []VInv
<1>1. Init => VInv
  BY TypeInit, HolderInit, DecidedInit DEF VInv, LInv
<1> QED
  BY <1>1, VStep, PTL DEF Spec

(* A case has no verdict while it is open, and exactly one of the right    *)
(* kind once it is closed, however many of its runs are under way at once. *)
THEOREM CaseDecidedOnce == Spec => []OneVerdict
<1>1. VInv => OneVerdict
  BY DEF VInv, Decided, CaseDecided, OneVerdict, Won, Lost, Closed
<1> QED
  BY <1>1, VInvariant, PTL

(* A result row exists exactly for the succeeded runs and holds the draft  *)
(* of the session the run is bound to.                                     *)
THEOREM ResultIffSucceeded == Spec => []ResultOfSucceededRun
<1>1. VInv => ResultOfSucceededRun
  BY DEF VInv
<1> QED
  BY <1>1, VInvariant, PTL

(* No external session is bound to two runs. *)
THEOREM SessionsDistinct == Spec => []SessionBoundOnce
<1>1. VInv => SessionBoundOnce
  BY DEF VInv
<1> QED
  BY <1>1, VInvariant, PTL

-----------------------------------------------------------------------------
(* Only the transactions of Tx2 touch what ClosedForGood speaks of. *)
LEMMA ClosedStep ==
  ASSUME VInv, Next
  PROVE  /\ \A c \in Cases : caseStatus[c] \in Closed => caseStatus'[c] = caseStatus[c]
         /\ \A r \in RunIds :
              /\ runStatus[r] \in {"succeeded", "failed"} =>
                   <<runStatus[r], session[r]>>' = <<runStatus[r], session[r]>>
              /\ result[r] # None => result'[r] = result[r]
<1>t. RowsTyped
  BY DEF VInv, LInv, TypeInv
<1>1. CASE UNCHANGED <<caseStatus, runStatus, session, result>>
  BY <1>1
<1>2. ASSUME NEW p \in Procs, QueueAdd(p) \/ Start(p)
      PROVE  /\ \A c \in Cases : caseStatus[c] \in Closed => caseStatus'[c] = caseStatus[c]
             /\ \A r \in RunIds : runStatus[r] \in {"succeeded", "failed"}
                                    => runStatus'[r] = runStatus[r]
             /\ UNCHANGED <<session, result>>
  BY <1>t, <1>2 DEF QueueAdd, Start, StartAllowed, CaseMatches, RunMatches, RowsTyped, Created,
     Closed
<1>3. ASSUME NEW p \in Procs, Succeed(p) \/ Fail(p) \/ BindUncertain(p)
      PROVE  /\ \A c \in Cases : caseStatus[c] \in Closed => caseStatus'[c] = caseStatus[c]
             /\ \A r \in RunIds :
                  /\ runStatus[r] \in {"succeeded", "failed"} =>
                       runStatus'[r] = runStatus[r] /\ session'[r] = session[r]
                  /\ result[r] # None => result'[r] = result[r]
  <2>1. runStatus[proc[p].run] = "running"
    BY <1>3 DEF Succeed, Fail, BindUncertain, VInv, LInv, HolderInv, HeldRun, Holds
  <2> QED
    BY <1>t, <1>3, <2>1 DEF Succeed, Accepted, Fail, FailureRecorded, BindUncertain, BothRunning,
       CaseMatches, ResultFree, Bind, RowsTyped, Closed
<1> QED
  BY <1>1, <1>2, <1>3
     DEF Next, QueueRequest, RunNext, RunOnce, Crash, rows, Advance, QueueExisting, QueueMissing,
         QueueConflict, Load, StartConflict, Submit, SubmitEscapes, RecordConflict

(* Closed cases, finished runs and results are never written again. *)
THEOREM ClosedStaysClosed == Spec => ClosedForGood
<1>1. VInv /\ [Next]_vars =>
        [/\ \A c \in Cases : caseStatus[c] \in Closed => caseStatus'[c] = caseStatus[c]
         /\ \A r \in RunIds :
              /\ runStatus[r] \in {"succeeded", "failed"} =>
                   <<runStatus[r], session[r]>>' = <<runStatus[r], session[r]>>
              /\ result[r] # None => result'[r] = result[r]]_vars
  BY ClosedStep
<1> QED
  BY <1>1, VInvariant, PTL DEF Spec, ClosedForGood

-----------------------------------------------------------------------------
(* Refinement: the transaction that records a draft publishes, the one     *)
(* that records a failure abandons, and every other step is invisible.     *)
LEMMA OutcomeInit == Init => Outcome!Init
  BY DEF Init, Outcome!Init, Verdict, Results, Closed

(* A step that closes no case and writes no result row. *)
LEMMA OutcomeQuiet ==
  ASSUME RowsTyped, ResultOfSucceededRun,
         UNCHANGED result,
         \A c \in Cases : \/ caseStatus'[c] = caseStatus[c]
                          \/ {caseStatus[c], caseStatus'[c]} \intersect Closed = {},
         \A r \in RunIds : runStatus[r] = "succeeded" => runKey'[r] = runKey[r]
  PROVE  UNCHANGED Outcome!vars
<1>1. Verdict' = Verdict
  BY DEF Verdict, Closed
<1>2. Results' = Results
  BY DEF Results, ResultOfSucceededRun, CaseOfRun
<1> QED
  BY <1>1, <1>2 DEF Outcome!vars

LEMMA OutcomeSucceed ==
  ASSUME VInv, NEW p \in Procs, Succeed(p)
  PROVE  Outcome!Next
<1>r. PICK r : r = proc[p].run
  OBVIOUS
<1>c. PICK c : c = CaseOfRun(r)
  OBVIOUS
<1>s. PICK s : s = proc[p].sess
  OBVIOUS
<1>t. RowsTyped /\ ProcTyped
  BY DEF VInv, LInv, TypeInv
<1>1. r \in Created /\ s # None
  BY <1>r, <1>s DEF Succeed, Accepted, VInv, LInv, HolderInv, RunExists, DraftSess, Working
<1>2. r \in RunIds /\ c \in Cases
  BY <1>t, <1>1, <1>c, RunHasCase
<1>3. /\ caseStatus[c] = "running" /\ caseStatus' = [caseStatus EXCEPT ![c] = "completed"]
      /\ result[r] = None /\ result' = [result EXCEPT ![r] = s]
      /\ runKey' = runKey
  BY <1>r, <1>c, <1>s DEF Succeed, Accepted, BothRunning, CaseMatches, ResultFree
<1>4. Verdict[c] = "open" /\ Verdict' = [Verdict EXCEPT ![c] = "completed"]
  BY <1>t, <1>2, <1>3 DEF Verdict, Closed, RowsTyped
<1>5. \A x \in Results : x.run # r
  BY <1>3 DEF Results
<1>6. Results' = Results \union {[case |-> c, run |-> r]}
  <2>1. {q \in RunIds : result'[q] # None} = {q \in RunIds : result[q] # None} \union {r}
    BY <1>t, <1>1, <1>2, <1>3 DEF RowsTyped
  <2>2. \A q \in RunIds : CaseOfRun(q)' = CaseOfRun(q)
    BY <1>3 DEF CaseOfRun
  <2> QED
    BY <1>c, <2>1, <2>2 DEF Results
<1>7. Outcome!Publish(c, r)
  BY <1>4, <1>5, <1>6 DEF Outcome!Publish
<1> QED
  BY <1>2, <1>7 DEF Outcome!Next

LEMMA OutcomeFail ==
  ASSUME VInv, NEW p \in Procs, Fail(p)
  PROVE  Outcome!Next
<1>r. PICK r : r = proc[p].run
  OBVIOUS
<1>c. PICK c : c = CaseOfRun(r)
  OBVIOUS
<1>t. RowsTyped
  BY DEF VInv, LInv, TypeInv
<1>1. c \in Cases
  BY <1>t, <1>r, <1>c, RunHasCase DEF Fail, VInv, LInv, HolderInv, RunExists, Working
<1>2. /\ caseStatus[c] = "running" /\ caseStatus' = [caseStatus EXCEPT ![c] = "failed"]
      /\ UNCHANGED <<result, runKey>>
  BY <1>r, <1>c DEF Fail, FailureRecorded, BothRunning, CaseMatches
<1>3. Verdict[c] = "open" /\ Verdict' = [Verdict EXCEPT ![c] = "failed"]
  BY <1>t, <1>1, <1>2 DEF Verdict, Closed, RowsTyped
<1>4. Results' = Results
  BY <1>2 DEF Results, CaseOfRun
<1>5. Outcome!Abandon(c)
  BY <1>3, <1>4 DEF Outcome!Abandon
<1> QED
  BY <1>1, <1>5 DEF Outcome!Next

LEMMA OutcomeStep ==
  ASSUME VInv, [Next]_vars
  PROVE  [Outcome!Next]_(Outcome!vars)
<1>t. RowsTyped /\ ResultOfSucceededRun
  BY DEF VInv, LInv, TypeInv
<1>1. CASE UNCHANGED <<caseStatus, runStatus, runKey, result>>
  BY <1>t, <1>1, OutcomeQuiet
<1>2. ASSUME NEW p \in Procs, QueueAdd(p)
      PROVE  UNCHANGED Outcome!vars
  <2>1. \A c \in Cases : \/ caseStatus'[c] = caseStatus[c]
                         \/ {caseStatus[c], caseStatus'[c]} \intersect Closed = {}
    BY <1>2, <1>t DEF QueueAdd, CaseMatches, RowsTyped, Closed
  <2>2. \A r \in RunIds : runStatus[r] = "succeeded" => runKey'[r] = runKey[r]
    BY <1>2, <1>t DEF QueueAdd, RowsTyped, Created
  <2> QED
    BY <1>t, <1>2, <2>1, <2>2, OutcomeQuiet DEF QueueAdd
<1>3. ASSUME NEW p \in Procs, Start(p)
      PROVE  UNCHANGED Outcome!vars
  <2>1. \A c \in Cases : \/ caseStatus'[c] = caseStatus[c]
                         \/ {caseStatus[c], caseStatus'[c]} \intersect Closed = {}
    BY <1>3, <1>t DEF Start, StartAllowed, CaseMatches, RowsTyped, Closed
  <2> QED
    BY <1>t, <1>3, <2>1, OutcomeQuiet DEF Start
<1> QED
  BY <1>1, <1>2, <1>3, OutcomeSucceed, OutcomeFail
     DEF Next, QueueRequest, RunNext, RunOnce, Crash, rows, vars, Advance, QueueExisting,
         QueueMissing, QueueConflict, Load, StartConflict, Submit, SubmitEscapes, BindUncertain,
         RecordConflict

(* The tables implement ResearchOutcome: one verdict per case, a result    *)
(* with every completed case, and nothing ever taken back.                 *)
THEOREM OutcomeImplemented == Spec => ImplementsOutcome
  BY OutcomeInit, OutcomeStep, VInvariant, PTL DEF Spec, ImplementsOutcome, Outcome!Spec

-----------------------------------------------------------------------------
(* The statuses of a case and of its runs agree.  What a process read of   *)
(* the case may be stale, but a case never moves backwards.                *)
SeenInv ==
  /\ \A p \in Procs : proc[p].pc \in {"list", "add"} /\ proc[p].seen # "draft"
                        => caseStatus[CaseOf[proc[p].key]] # "draft"
  /\ \A p \in Procs : proc[p].pc = "start" =>
       \/ proc[p].seen = "ready"
       \/ caseStatus[CaseOfRun(proc[p].run)] \notin {"draft", "ready"}

CaseAgrees(c) ==
  /\ caseStatus[c] = "running" => \E r \in RunsOf(c) : runStatus[r] = "running"
  /\ caseStatus[c] = "draft" => RunsOf(c) = {}
  /\ caseStatus[c] = "ready" => \A r \in RunsOf(c) : runStatus[r] = "queued"

AInv == LInv /\ SeenInv /\ RunningCaseHasRunningRun

(* The rows stay, or only a case moves forward: what was read stays true. *)
LEMMA SeenKept ==
  ASSUME AInv, NEW p \in Procs, \A q \in Procs \ {p} : proc'[q] = proc[q],
         \A r \in Created : runKey'[r] = runKey[r],
         \A c \in Cases : \/ caseStatus'[c] = caseStatus[c]
                          \/ caseStatus[c] = "draft" /\ caseStatus'[c] = "ready"
                          \/ caseStatus'[c] \notin {"draft", "ready"},
         \/ proc'[p].pc \notin {"list", "add", "start"}
         \/ /\ proc'[p].pc \in {"list", "add"}
            /\ proc'[p].key \in Keys
            /\ proc'[p].seen # "draft" => caseStatus'[CaseOf[proc'[p].key]] # "draft"
         \/ /\ proc'[p].pc = "start"
            /\ \/ proc'[p].seen = "ready"
               \/ caseStatus'[CaseOfRun(proc[p].run)] \notin {"draft", "ready"}
            /\ UNCHANGED runKey /\ proc'[p].run = proc[p].run
  PROVE  SeenInv'
<1>t. RowsTyped /\ ProcTyped
  BY DEF AInv, LInv, TypeInv
<1>1. \A q \in Procs : proc[q].pc \in {"list", "add"} => CaseOf[proc[q].key] \in Cases
  BY <1>t, ConstantsOK DEF ProcTyped, RequestInv
<1>2. \A q \in Procs : proc[q].pc = "start" =>
        proc[q].run \in Created /\ CaseOfRun(proc[q].run) \in Cases
  BY <1>t, RunHasCase DEF AInv, LInv, HolderInv, RunExists, Working
<1>3. \A q \in Procs \ {p} : proc[q].pc \in {"list", "add"} /\ proc[q].seen # "draft"
        => caseStatus'[CaseOf[proc[q].key]] # "draft"
  BY <1>1 DEF AInv, SeenInv
<1>4. \A q \in Procs \ {p} : proc[q].pc = "start" =>
        \/ proc[q].seen = "ready"
        \/ caseStatus'[CaseOf[runKey'[proc[q].run]]] \notin {"draft", "ready"}
  BY <1>2 DEF AInv, SeenInv, CaseOfRun
<1> QED
  BY <1>3, <1>4 DEF SeenInv, CaseOfRun

LEMMA AgreesInit == Init => SeenInv /\ RunningCaseHasRunningRun
  BY DEF Init, Idle, SeenInv, RunningCaseHasRunningRun, RunsOf, Created

(* A step of one process that changes neither statuses nor keys. *)
LEMMA AgreesQuiet ==
  ASSUME AInv, UNCHANGED <<caseStatus, runStatus, runKey>>
  PROVE  RunningCaseHasRunningRun'
  BY DEF AInv, RunningCaseHasRunningRun, RunsOf, Created, CaseOfRun

(* Queueing a run, promoting its case when it was read as draft. *)
LEMMA AgreesAdd ==
  ASSUME AInv, NEW p \in Procs, QueueAdd(p)
  PROVE  SeenInv' /\ RunningCaseHasRunningRun'
<1>t. RowsTyped /\ ProcTyped
  BY DEF AInv, LInv, TypeInv
<1>k. PICK k : k = proc[p].key
  OBVIOUS
<1>c. PICK c : c = CaseOf[k]
  OBVIOUS
<1>r. PICK r \in RunIds \ Created :
        /\ runStatus' = [runStatus EXCEPT ![r] = "queued"]
        /\ runKey' = [runKey EXCEPT ![r] = k]
        /\ Handed(p, r)
  BY <1>k DEF QueueAdd
<1>1. k \in Keys /\ c \in Cases
  BY <1>t, <1>k, <1>c, ConstantsOK DEF QueueAdd, ProcTyped, RequestInv
<1>2. \/ caseStatus[c] = "draft" /\ caseStatus' = [caseStatus EXCEPT ![c] = "ready"]
      \/ caseStatus[c] # "draft" /\ caseStatus' = caseStatus
  BY <1>k, <1>c DEF QueueAdd, CaseMatches, AInv, SeenInv
<1>3. Created' = Created \union {r} /\ CaseOfRun(r)' = c
  BY <1>t, <1>r, <1>c DEF Created, CaseOfRun, RowsTyped
<1>4. \A q \in Created : runStatus'[q] = runStatus[q] /\ runKey'[q] = runKey[q]
  BY <1>t, <1>r DEF RowsTyped, Created
<1>5. /\ RunsOf(c)' = RunsOf(c) \union {r}
      /\ \A d \in Cases \ {c} : RunsOf(d)' = RunsOf(d)
  BY <1>3, <1>4 DEF RunsOf, CaseOfRun
<1>6. runStatus'[r] = "queued" /\ r \notin Created
  BY <1>t, <1>r DEF RowsTyped
<1>7. RunningCaseHasRunningRun'
  <2> SUFFICES ASSUME NEW d \in Cases PROVE CaseAgrees(d)'
    BY DEF RunningCaseHasRunningRun, CaseAgrees
  <2>1. CaseAgrees(d)
    BY DEF AInv, RunningCaseHasRunningRun, CaseAgrees
  <2>2. CASE d = c
    <3>1. CASE caseStatus[c] = "draft"
      <4>1. caseStatus'[c] = "ready" /\ RunsOf(c)' = {r}
        BY <1>t, <1>1, <1>2, <1>5, <2>1, <2>2, <3>1 DEF CaseAgrees, RowsTyped
      <4> QED
        BY <1>6, <2>2, <4>1 DEF CaseAgrees
    <3>2. CASE caseStatus[c] # "draft"
      <4>1. caseStatus'[c] = caseStatus[c] /\ RunsOf(c) \subseteq Created
        BY <1>2, <3>2 DEF RunsOf
      <4>2. \A q \in RunsOf(c) : runStatus'[q] = runStatus[q]
        BY <1>4, <4>1
      <4> QED
        BY <1>5, <1>6, <2>1, <2>2, <3>2, <4>1, <4>2 DEF CaseAgrees
    <3> QED
      BY <3>1, <3>2
  <2>3. CASE d # c
    <3>1. caseStatus'[d] = caseStatus[d] /\ RunsOf(d)' = RunsOf(d) /\ RunsOf(d) \subseteq Created
      BY <1>t, <1>2, <1>5, <2>3 DEF RunsOf, RowsTyped
    <3>2. \A q \in RunsOf(d) : runStatus'[q] = runStatus[q]
      BY <1>4, <3>1
    <3> QED
      BY <2>1, <3>1, <3>2 DEF CaseAgrees
  <2> QED
    BY <2>2, <2>3
<1>8. SeenInv'
  <2>1. /\ \A q \in Procs \ {p} : proc'[q] = proc[q]
        /\ proc'[p].pc \in {"idle", "load"}
    BY <1>t, <1>r, HandedProc
  <2>2. \A d \in Cases : \/ caseStatus'[d] = caseStatus[d]
                         \/ caseStatus[d] = "draft" /\ caseStatus'[d] = "ready"
    BY <1>t, <1>2 DEF RowsTyped
  <2> QED
    BY <1>4, <2>1, <2>2, SeenKept
<1> QED
  BY <1>7, <1>8

(* Starting a run, with its case when it was read as ready. *)
LEMMA AgreesStart ==
  ASSUME AInv, NEW p \in Procs, Start(p)
  PROVE  SeenInv' /\ RunningCaseHasRunningRun'
<1>t. RowsTyped /\ ProcTyped
  BY DEF AInv, LInv, TypeInv
<1>r. PICK r : r = proc[p].run
  OBVIOUS
<1>c. PICK c : c = CaseOfRun(r)
  OBVIOUS
<1>1. r \in Created /\ r \in RunIds /\ c \in Cases
  BY <1>t, <1>r, <1>c, RunHasCase DEF Start, AInv, LInv, HolderInv, RunExists, Working
<1>2. /\ runStatus' = [runStatus EXCEPT ![r] = "running"]
      /\ UNCHANGED runKey
      /\ \/ caseStatus' = [caseStatus EXCEPT ![c] = "running"]
         \/ caseStatus' = caseStatus /\ caseStatus[c] \notin {"draft", "ready"}
  BY <1>r, <1>c DEF Start, AInv, SeenInv
<1>3. Created' = Created
  BY <1>t, <1>1, <1>2 DEF Created, RowsTyped
<1>4. \A d \in Cases : RunsOf(d)' = RunsOf(d)
  BY <1>2, <1>3 DEF RunsOf, CaseOfRun
<1>5. r \in RunsOf(c) /\ runStatus'[r] = "running"
      /\ \A d \in Cases \ {c} : r \notin RunsOf(d)
  BY <1>t, <1>1, <1>2, <1>c DEF RunsOf, RowsTyped
<1>6. \A q \in RunIds \ {r} : runStatus'[q] = runStatus[q]
  BY <1>t, <1>2 DEF RowsTyped
<1>7. RunningCaseHasRunningRun'
  <2> SUFFICES ASSUME NEW d \in Cases PROVE CaseAgrees(d)'
    BY DEF RunningCaseHasRunningRun, CaseAgrees
  <2>1. CaseAgrees(d)
    BY DEF AInv, RunningCaseHasRunningRun, CaseAgrees
  <2>2. CASE d = c
    <3>1. caseStatus'[c] \notin {"draft", "ready"}
      BY <1>t, <1>1, <1>2 DEF RowsTyped
    <3> QED
      BY <1>1, <1>4, <1>5, <2>2, <3>1 DEF CaseAgrees
  <2>3. CASE d # c
    <3>1. caseStatus'[d] = caseStatus[d] /\ RunsOf(d) \subseteq RunIds \ {r}
      BY <1>t, <1>2, <1>5, <2>3 DEF RunsOf, RowsTyped, Created
    <3> QED
      BY <1>4, <1>6, <2>1, <3>1 DEF CaseAgrees
  <2> QED
    BY <2>2, <2>3
<1>8. SeenInv'
  <2>1. /\ \A q \in Procs \ {p} : proc'[q] = proc[q]
        /\ proc'[p].pc = "submit"
    BY <1>t DEF Start, Go, ProcTyped, ProcState
  <2>2. \A d \in Cases : \/ caseStatus'[d] = caseStatus[d]
                         \/ caseStatus'[d] \notin {"draft", "ready"}
    BY <1>t, <1>2 DEF RowsTyped
  <2> QED
    BY <1>2, <2>1, <2>2, SeenKept
<1> QED
  BY <1>7, <1>8

(* Closing a run and its case. *)
LEMMA AgreesClose ==
  ASSUME AInv, NEW p \in Procs, Succeed(p) \/ Fail(p)
  PROVE  SeenInv' /\ RunningCaseHasRunningRun'
<1>t. RowsTyped /\ ProcTyped
  BY DEF AInv, LInv, TypeInv
<1>r. PICK r : r = proc[p].run
  OBVIOUS
<1>c. PICK c : c = CaseOfRun(r)
  OBVIOUS
<1>1. r \in Created /\ r \in RunIds /\ c \in Cases
  BY <1>t, <1>r, <1>c, RunHasCase DEF Succeed, Fail, AInv, LInv, HolderInv, RunExists, Working
<1>2. /\ UNCHANGED runKey
      /\ \/ /\ runStatus' = [runStatus EXCEPT ![r] = "succeeded"]
            /\ caseStatus' = [caseStatus EXCEPT ![c] = "completed"]
         \/ /\ runStatus' = [runStatus EXCEPT ![r] = "failed"]
            /\ caseStatus' = [caseStatus EXCEPT ![c] = "failed"]
  BY <1>r, <1>c DEF Succeed, Fail
<1>3. Created' = Created
  BY <1>t, <1>1, <1>2 DEF Created, RowsTyped
<1>4. \A d \in Cases : RunsOf(d)' = RunsOf(d)
  BY <1>2, <1>3 DEF RunsOf, CaseOfRun
<1>5. \A d \in Cases \ {c} : r \notin RunsOf(d) /\ caseStatus'[d] = caseStatus[d]
  BY <1>t, <1>2, <1>c DEF RunsOf, RowsTyped
<1>6. \A q \in RunIds \ {r} : runStatus'[q] = runStatus[q]
  BY <1>t, <1>2 DEF RowsTyped
<1>7. caseStatus'[c] \notin {"draft", "ready", "running"}
  BY <1>t, <1>1, <1>2 DEF RowsTyped
<1>8. RunningCaseHasRunningRun'
  <2> SUFFICES ASSUME NEW d \in Cases PROVE CaseAgrees(d)'
    BY DEF RunningCaseHasRunningRun, CaseAgrees
  <2>1. CaseAgrees(d)
    BY DEF AInv, RunningCaseHasRunningRun, CaseAgrees
  <2>2. CASE d = c
    BY <1>7, <2>2 DEF CaseAgrees
  <2>3. CASE d # c
    <3>1. RunsOf(d) \subseteq RunIds \ {r}
      BY <1>5, <2>3 DEF RunsOf, Created
    <3> QED
      BY <1>4, <1>5, <1>6, <2>1, <2>3, <3>1 DEF CaseAgrees
  <2> QED
    BY <2>2, <2>3
<1>9. SeenInv'
  <2>1. /\ \A q \in Procs \ {p} : proc'[q] = proc[q]
        /\ proc'[p].pc = "idle"
    BY <1>t, ReturnProc DEF Succeed, Fail
  <2> QED
    BY <1>2, <1>5, <1>7, <2>1, SeenKept
<1> QED
  BY <1>8, <1>9

(* The steps that read, and those that only move a process on. *)
LEMMA AgreesOther ==
  ASSUME AInv, NEW p \in Procs, UNCHANGED <<caseStatus, runStatus, runKey>>,
         \A q \in Procs \ {p} : proc'[q] = proc[q],
         \/ proc'[p].pc \notin {"list", "add", "start"}
         \/ /\ proc'[p].pc \in {"list", "add"}
            /\ proc'[p].key \in Keys
            /\ proc'[p].seen # "draft" => caseStatus[CaseOf[proc'[p].key]] # "draft"
         \/ /\ proc'[p].pc = "start"
            /\ proc'[p].run = proc[p].run
            /\ \/ proc'[p].seen = "ready"
               \/ caseStatus[CaseOfRun(proc[p].run)] \notin {"draft", "ready"}
  PROVE  SeenInv' /\ RunningCaseHasRunningRun'
  BY SeenKept, AgreesQuiet

LEMMA AStep == AInv /\ [Next]_vars => AInv'
<1> SUFFICES ASSUME AInv, [Next]_vars PROVE SeenInv' /\ RunningCaseHasRunningRun'
  BY LStep DEF AInv
<1>t. RowsTyped /\ ProcTyped
  BY DEF AInv, LInv, TypeInv
<1>1. ASSUME NEW p \in Clients, NEW k \in Keys, NEW h \in BOOLEAN, QueueRequest(p, k, h)
      PROVE  SeenInv' /\ RunningCaseHasRunningRun'
  <2>1. /\ p \in Procs /\ \A q \in Procs \ {p} : proc'[q] = proc[q]
        /\ proc'[p].pc = "list" /\ proc'[p].key = k /\ proc'[p].seen = caseStatus[CaseOf[k]]
    BY <1>1, <1>t DEF QueueRequest, Go, Idle, Procs, ProcTyped
  <2> QED
    BY <1>1, <2>1, AgreesOther DEF QueueRequest, rows
<1>2. ASSUME NEW p \in Workers, NEW r, Go(p, [Idle EXCEPT !.pc = "load", !.run = r]),
             UNCHANGED rows
      PROVE  SeenInv' /\ RunningCaseHasRunningRun'
  <2>1. p \in Procs /\ proc'[p].pc = "load" /\ \A q \in Procs \ {p} : proc'[q] = proc[q]
    BY <1>2, <1>t DEF Go, Idle, Procs, ProcTyped
  <2> QED
    BY <1>2, <2>1, AgreesOther DEF rows
<1>3. ASSUME NEW p \in Procs, Return(p), UNCHANGED <<caseStatus, runStatus, runKey>>
      PROVE  SeenInv' /\ RunningCaseHasRunningRun'
  BY <1>3, <1>t, ReturnProc, AgreesOther
<1>4. ASSUME NEW p \in Procs, QueueExisting(p)
      PROVE  SeenInv' /\ RunningCaseHasRunningRun'
  <2>1. PICK r \in RunIds : Handed(p, r)
    BY <1>4 DEF QueueExisting, Same, Created
  <2> QED
    BY <1>4, <1>t, <2>1, HandedProc, AgreesOther DEF QueueExisting, rows
<1>5. ASSUME NEW p \in Procs, QueueMissing(p)
      PROVE  SeenInv' /\ RunningCaseHasRunningRun'
  <2>1. CASE Go(p, [proc[p] EXCEPT !.pc = "add"])
    <3>1. /\ \A q \in Procs \ {p} : proc'[q] = proc[q]
          /\ proc'[p].pc = "add" /\ proc'[p].key = proc[p].key /\ proc'[p].seen = proc[p].seen
      BY <1>t, <2>1 DEF Go, ProcTyped, ProcState
    <3>2. proc[p].key \in Keys
          /\ (proc[p].seen # "draft" => caseStatus[CaseOf[proc[p].key]] # "draft")
      BY <1>5, <1>t DEF QueueMissing, ProcTyped, RequestInv, AInv, SeenInv
    <3> QED
      BY <1>5, <3>1, <3>2, AgreesOther DEF QueueMissing, rows
  <2> QED
    BY <1>3, <1>5, <2>1 DEF QueueMissing, rows
<1>6. ASSUME NEW p \in Procs, Load(p)
      PROVE  SeenInv' /\ RunningCaseHasRunningRun'
  <2>1. CASE Startable(p, proc[p].run)
    <3>1. /\ \A q \in Procs \ {p} : proc'[q] = proc[q]
          /\ proc'[p].pc = "start" /\ proc'[p].run = proc[p].run
          /\ proc'[p].seen = caseStatus[CaseOfRun(proc[p].run)]
      BY <1>6, <1>t, <2>1 DEF Load, Go, ProcTyped, ProcState
    <3>2. caseStatus[CaseOfRun(proc[p].run)] \in {"ready", "running"}
      BY <2>1 DEF Startable
    <3> QED
      BY <1>6, <3>1, <3>2, AgreesOther DEF Load, rows
  <2> QED
    BY <1>3, <1>6, <2>1 DEF Load, rows
<1>7. ASSUME NEW p \in Procs, Submit(p)
      PROVE  SeenInv' /\ RunningCaseHasRunningRun'
  <2>1. proc'[p].pc = "record" /\ \A q \in Procs \ {p} : proc'[q] = proc[q]
    BY <1>7, <1>t DEF Submit, Go, ProcTyped, ProcState
  <2> QED
    BY <1>7, <2>1, AgreesOther DEF Submit
<1>8. CASE UNCHANGED vars
  BY <1>8 DEF vars, AInv, SeenInv, RunningCaseHasRunningRun, RunsOf, Created, CaseOfRun
<1>9. ASSUME NEW p \in Procs, Advance(p)
      PROVE  SeenInv' /\ RunningCaseHasRunningRun'
  BY <1>3, <1>4, <1>5, <1>6, <1>7, <1>9, AgreesAdd, AgreesStart, AgreesClose
     DEF Advance, QueueConflict, StartConflict, SubmitEscapes, BindUncertain, RecordConflict, rows
<1>10. ASSUME NEW p \in Workers, RunNext(p) \/ \E r \in RunIds : RunOnce(p, r)
       PROVE  SeenInv' /\ RunningCaseHasRunningRun'
  BY <1>2, <1>10 DEF RunNext, RunOnce
<1>11. ASSUME NEW p \in Procs, Crash(p)
       PROVE  SeenInv' /\ RunningCaseHasRunningRun'
  BY <1>3, <1>11 DEF Crash, rows
<1> QED
  BY <1>1, <1>8, <1>9, <1>10, <1>11 DEF Next

(* No run belongs to a draft case or starts under a ready one, and a case  *)
(* is running only while one of its runs is.                               *)
THEOREM StatusesAgree == Spec => []RunningCaseHasRunningRun
<1>1. Init => AInv
  BY TypeInit, HolderInit, AgreesInit DEF AInv, LInv
<1>2. AInv => RunningCaseHasRunningRun
  BY DEF AInv
<1> QED
  BY <1>1, <1>2, AStep, PTL DEF Spec
=============================================================================
