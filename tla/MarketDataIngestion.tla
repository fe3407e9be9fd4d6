------------------------- MODULE MarketDataIngestion --------------------------
(***************************************************************************)
(* The collection of the daily bars of one trade date.  A job first writes *)
(* the evidence of what a provider answered (raw.provider_requests,        *)
(* provider_attempts, provider_batches), trying the fallback provider once *)
(* after a transient failure of the primary one.  A second asset then      *)
(* chooses whose evidence to use and upserts the bars of its freshest      *)
(* succeeded attempt into core.daily_bars under the revision rules.        *)
(*                                                                         *)
(* Jobs of one trade date may overlap: pipeline_runs does not keep the     *)
(* daily job from executing twice (PipelineRunLedger).  Transactions are   *)
(* READ COMMITTED, so each statement of an upsert sees what is committed   *)
(* when it runs.  All jobs ask for the same symbols on the same date, so a *)
(* provider has one logical request here; its pending status is never      *)
(* committed, because the row gets its outcome in the same transaction.    *)
(* No adapter returns a successful attempt without a batch, so the partial *)
(* status has no place here.                                               *)
(***************************************************************************)
EXTENDS Integers, FiniteSets

CONSTANTS
  Jobs,             \* executions of the daily job
  Instruments,      \* active instruments of the personal universe, by symbol
  Contents,         \* business contents of a bar, what row_hash tells apart
  Missing,          \* a batch has no bar of the instrument
  Batches,          \* what a provider may deliver
  Primary, Fallback,
  FallbackEnabled,  \* akshare is the primary provider and baostock is enabled
  Page,             \* bound: how many attempts list_by_request returns (1000)
  MaxActive,        \* bound: jobs that run at the same time
  CanDie            \* whether processes die

ASSUME IngestionOK ==
  /\ Missing \notin Contents
  /\ Instruments \subseteq Nat
  /\ Batches \subseteq [Instruments -> Contents \union {Missing}]
  /\ Primary # Fallback
  /\ {FallbackEnabled, CanDie} \subseteq BOOLEAN
  /\ Page \in Nat \ {0}
  /\ MaxActive \in Nat

VARIABLES
  request,   \* raw.provider_requests.status per provider
  attempts,  \* raw.provider_attempts, each with its batch
  bars,      \* committed rows of core.daily_bars
  now,       \* the clock that stamps finished_at
  job        \* the state of each job

vars == <<request, attempts, bars, now, job>>

Providers == {Primary, Fallback}
NoBatch   == [i \in Instruments |-> Missing]

Answers == [ok : {TRUE}, transient : {FALSE}, batch : Batches]
             \union [ok : {FALSE}, transient : BOOLEAN, batch : {NoBatch}]

NoAnswer == [ok |-> FALSE, transient |-> FALSE, batch |-> NoBatch]

(* answer and finished are what the job itself was given, source and batch *)
(* the attempt (named by its finished_at) that it upserts.                 *)
Idle == [phase |-> "new", provider |-> Primary, no |-> 0, finished |-> 0,
         answer |-> NoAnswer, source |-> 0, batch |-> NoBatch,
         todo |-> {}, written |-> {}]

Over == {"done", "skipped", "failed", "dead"}

Init ==
  /\ request = [p \in Providers |-> "absent"]
  /\ attempts = {}
  /\ bars = {}
  /\ now = 0
  /\ job = [j \in Jobs |-> Idle]

Active     == {j \in Jobs : job[j].phase \notin Over \union {"new"}}
Become(j, r) == job' = [job EXCEPT ![j] = r]
Goto(j, p)   == Become(j, [job[j] EXCEPT !.phase = p])
Numbers(p) == {a.no : a \in {b \in attempts : b.provider = p}}

(* A failed statement aborts the transaction and with it the job. *)
Fail(j) == Become(j, [job[j] EXCEPT !.phase = "failed", !.written = {}])

-----------------------------------------------------------------------------
(* The evidence: write_etf_daily_bars_raw_with_fallback *)

Begin(j) ==
  /\ job[j].phase = "new"
  /\ Cardinality(Active) < MaxActive
  /\ Goto(j, "fetch")
  /\ UNCHANGED <<request, attempts, bars, now>>

(* The provider is asked outside any transaction; finished_at is the time  *)
(* of its answer.  Two answers never come in the same microsecond.         *)
Fetch(j, answer) ==
  /\ job[j].phase = "fetch"
  /\ now' = now + 1
  /\ Become(j, [job[j] EXCEPT !.phase = "open", !.answer = answer,
                                 !.finished = now + 1])
  /\ UNCHANGED <<request, attempts, bars>>

(* list_by_request returns the attempts with the lowest numbers. *)
Listed(p) == {a \in attempts : a.provider = p /\ Cardinality({n \in Numbers(p) : n < a.no}) < Page}

(* One more than the highest listed number. *)
IsNextNumber(p, n) ==
  IF Listed(p) = {} THEN n = 1
  ELSE \E a \in Listed(p) : n = a.no + 1 /\ \A b \in Listed(p) : b.no <= a.no

(* get_or_create: the insert of a new request waits for a job that has     *)
(* inserted it without committing, and finds it when that job is through.  *)
Open(j, n) ==
  LET p == job[j].provider IN
  /\ job[j].phase = "open"
  /\ IsNextNumber(p, n)
  /\ request[p] = "absent" =>
       \A k \in Jobs : ~(job[k].phase = "record" /\ job[k].provider = p)
  /\ Become(j, [job[j] EXCEPT !.phase = "record", !.no = n])
  /\ UNCHANGED <<request, attempts, bars, now>>

(* Mutant: attempt numbers are not unique. *)
NumberAlwaysFree(p, n) == TRUE

(* uq_provider_attempts on request and attempt_no *)
NumberFree(p, n) == n \notin Numbers(p)

Outcome(answer) == IF answer.ok THEN "succeeded" ELSE "failed"

(* The next provider, or the next asset. *)
AfterEvidence(j) ==
  IF /\ FallbackEnabled /\ job[j].provider = Primary
     /\ ~job[j].answer.ok /\ job[j].answer.transient
  THEN Become(j, [job[j] EXCEPT !.phase = "fetch", !.provider = Fallback])
  ELSE Goto(j, "select")

(* Attempt, batch and the status of the request are committed together; an *)
(* attempt with the same number makes the transaction fail.                *)
Record(j) ==
  LET p == job[j].provider IN
  /\ job[j].phase = "record"
  /\ IF NumberFree(p, job[j].no)
     THEN /\ attempts' = attempts \union
               {[provider |-> p, no |-> job[j].no, finished |-> job[j].finished,
                 answer |-> job[j].answer]}
          /\ request' = [request EXCEPT ![p] = Outcome(job[j].answer)]
          /\ AfterEvidence(j)
     ELSE /\ Fail(j)
          /\ UNCHANGED <<request, attempts>>
  /\ UNCHANGED <<bars, now>>

-----------------------------------------------------------------------------
(* The choice of the evidence: the asset etf_daily_bars *)

(* The status of the primary request. *)
Select(j) ==
  /\ job[j].phase = "select"
  /\ \/ request[Primary] = "succeeded"
        /\ Become(j, [job[j] EXCEPT !.phase = "pick", !.provider = Primary])
     \/ request[Primary] = "failed" /\ FallbackEnabled /\ Goto(j, "check")
     \/ request[Primary] = "failed" /\ ~FallbackEnabled /\ Goto(j, "skipped")
     \/ request[Primary] = "absent" /\ Goto(j, "skipped")
  /\ UNCHANGED <<request, attempts, bars, now>>

(* The latest listed attempt of the primary request. *)
Check(j) ==
  /\ job[j].phase = "check"
  /\ Goto(j, IF \E a \in Listed(Primary) :
                  /\ \A b \in Listed(Primary) : b.no <= a.no
                  /\ ~a.answer.ok /\ a.answer.transient
             THEN "probe" ELSE "skipped")
  /\ UNCHANGED <<request, attempts, bars, now>>

(* The status of the fallback request. *)
Probe(j) ==
  /\ job[j].phase = "probe"
  /\ IF request[Fallback] = "succeeded"
     THEN Become(j, [job[j] EXCEPT !.phase = "pick", !.provider = Fallback])
     ELSE Goto(j, "skipped")
  /\ UNCHANGED <<request, attempts, bars, now>>

-----------------------------------------------------------------------------
(* The upsert: upsert_etf_daily_bars, one transaction from Pick to Commit *)

(* Mutant: the first succeeded attempt is taken, as etf_instruments does. *)
OldestFirst(a, b) == a.no <= b.no

(* max by (finished_at, attempt_no) *)
Fresher(a, b) ==
  \/ a.finished > b.finished
  \/ a.finished = b.finished /\ a.no >= b.no

Picked(p) ==
  {a \in Listed(p) : a.answer.ok /\ \A b \in Listed(p) : b.answer.ok => Fresher(a, b)}

WithBar(batch) == {i \in Instruments : batch[i] # Missing}

Pick(j) ==
  /\ job[j].phase = "pick"
  /\ IF Picked(job[j].provider) = {}
     THEN Fail(j)
     ELSE \E a \in Picked(job[j].provider) :
            Become(j, [job[j] EXCEPT !.phase = "compare", !.source = a.finished,
                                    !.batch = a.answer.batch,
                                    !.todo = WithBar(a.answer.batch)])
  /\ UNCHANGED <<request, attempts, bars, now>>

RowsOf(i) == {r \in bars : r.inst = i}
Latest(i) == {r \in RowsOf(i) : \A s \in RowsOf(i) : s.rev <= r.rev}

(* Mutant: the batch of a rerun is walked backwards. *)
BackwardsIfRerun(j, i) ==
  /\ i \in job[j].todo
  /\ \A k \in job[j].todo : IF job[j].source > 1 THEN k <= i ELSE i <= k

(* The universe is sorted and both adapters deliver in its order. *)
NextUp(j, i) == i \in job[j].todo /\ \A k \in job[j].todo : i <= k

(* get_latest: the bar of the highest revision has this content. *)
SameContent(i, content) == \E r \in Latest(i) : r.content = content

(* Mutant: the bar is written without comparing. *)
NumberAlways(j, i) ==
  /\ job[j].phase = "compare"
  /\ NextUp(j, i)
  /\ Goto(j, "number")
  /\ UNCHANGED <<request, attempts, bars, now>>

Compare(j, i) ==
  /\ job[j].phase = "compare"
  /\ NextUp(j, i)
  /\ IF SameContent(i, job[j].batch[i])
     THEN Become(j, [job[j] EXCEPT !.todo = @ \ {i}])
     ELSE Goto(j, "number")
  /\ UNCHANGED <<request, attempts, bars, now>>

(* _next_revision is a statement of its own. *)
Number(j, i) ==
  /\ job[j].phase = "number"
  /\ NextUp(j, i)
  /\ \/ RowsOf(i) = {} /\ Become(j, [job[j] EXCEPT !.phase = "insert", !.no = 1])
     \/ \E r \in Latest(i) : Become(j, [job[j] EXCEPT !.phase = "insert", !.no = r.rev + 1])
  /\ UNCHANGED <<request, attempts, bars, now>>

(* Mutant: daily_bars has the unique key of stock_price_limits. *)
SameKeyAndHash(r, s) == r.inst = s.inst /\ r.rev = s.rev /\ r.content = s.content

(* The primary key of daily_bars: instrument, trade date, adjustment and    *)
(* revision. *)
SameKey(r, s) == r.inst = s.inst /\ r.rev = s.rev

(* The insert waits for an uncommitted row with the same key, fails if a   *)
(* committed one has it, and stays uncommitted itself.                     *)
Insert(j, i) ==
  LET row == [inst |-> i, rev |-> job[j].no, content |-> job[j].batch[i],
              source |-> job[j].source]
  IN
  /\ job[j].phase = "insert"
  /\ NextUp(j, i)
  /\ \A k \in Jobs \ {j} : \A r \in job[k].written : ~SameKey(r, row)
  /\ IF \E r \in bars : SameKey(r, row)
     THEN Fail(j)
     ELSE Become(j, [job[j] EXCEPT !.phase = "compare", !.todo = @ \ {i},
                                      !.written = @ \union {row}])
  /\ UNCHANGED <<request, attempts, bars, now>>

Commit(j) ==
  /\ job[j].phase = "compare"
  /\ job[j].todo = {}
  /\ bars' = bars \union job[j].written
  /\ Become(j, [job[j] EXCEPT !.phase = "done", !.written = {}])
  /\ UNCHANGED <<request, attempts, now>>

(* The process dies; an open transaction is rolled back. *)
Die(j) ==
  /\ CanDie
  /\ j \in Active
  /\ Become(j, [job[j] EXCEPT !.phase = "dead", !.written = {}])
  /\ UNCHANGED <<request, attempts, bars, now>>

Advance(j) ==
  \/ \E answer \in Answers : Fetch(j, answer)
  \/ \E n \in 1 .. Cardinality(attempts) + 1 : Open(j, n)
  \/ Record(j)
  \/ Select(j) \/ Check(j) \/ Probe(j)
  \/ Pick(j) \/ Commit(j)
  \/ \E i \in Instruments : Compare(j, i) \/ Number(j, i) \/ Insert(j, i)

Next == \E j \in Jobs : Begin(j) \/ Advance(j) \/ Die(j)

Spec == Init /\ [][Next]_vars

(* A job that is not killed runs on. *)
FairSpec == Spec /\ \A j \in Jobs : WF_vars(Advance(j))
-----------------------------------------------------------------------------
(* Properties *)

(* Every variable keeps its type.  The fields of a job are read only in    *)
(* the phases that have set them.                                          *)
Attempt == [provider : Providers, no : Nat, finished : Nat, answer : Answers]
Row     == [inst : Instruments, rev : Nat, content : Contents, source : Nat]
Phases  == {"new", "fetch", "open", "record", "select", "check", "probe", "pick",
            "compare", "number", "insert"} \union Over

Job == [phase : Phases, provider : Providers, no : Nat, finished : Nat,
        answer : Answers, source : Nat,
        batch : Batches \union {NoBatch}, todo : SUBSET Instruments, written : SUBSET Row]

TypeOK ==
  /\ request \in [Providers -> {"absent", "failed", "succeeded"}]
  /\ attempts \subseteq Attempt
  /\ bars \subseteq Row
  /\ now \in Nat
  /\ job \in [Jobs -> Job]

(* However the transactions of two jobs interleave, the status of a        *)
(* request is the outcome of its latest attempt: the asset that chooses    *)
(* the provider reads both, in statements of their own.                    *)
RequestTellsLastAttempt ==
  \A p \in Providers :
    /\ request[p] = "absent" <=> Numbers(p) = {}
    /\ \A a \in attempts :
         a.provider = p /\ (\A n \in Numbers(p) : n <= a.no) => request[p] = Outcome(a.answer)

(* The table implements BarHistory: an instrument has the revisions 1 to n *)
(* once each, rows are never changed, and a job adds at most one revision  *)
(* per instrument, all of them together.                                   *)
Revisions(i) == {r.rev : r \in RowsOf(i)}

HistoryOf(i) == [n \in Revisions(i) |-> {r.content : r \in {s \in RowsOf(i) : s.rev = n}}]

History == INSTANCE BarHistory WITH
  Contents <- {{c} : c \in Contents},
  history  <- [i \in Instruments |-> HistoryOf(i)]

ImplementsHistory == History!Spec

(* A revision tells something new: its content differs from that of the    *)
(* revision before it.  (Only when jobs do not overlap.)                   *)
RevisionsDiffer ==
  \A r, s \in bars : r.inst = s.inst /\ s.rev = r.rev + 1 => r.content # s.content

(* A job that is done and was the last one to ask a provider has left its  *)
(* own answer as the latest revisions, whatever its predecessors fetched,  *)
(* recorded or failed to upsert.  (Only when jobs do not overlap.)         *)
OwnAnswerIsLatest ==
  \A j \in Jobs :
    /\ job[j].phase = "done"
    /\ \A k \in Jobs : job[k].finished <= job[j].finished
    => /\ job[j].answer.ok
       /\ \A i \in Instruments : job[j].answer.batch[i] # Missing
                                   => SameContent(i, job[j].answer.batch[i])

(* Every job ends: upserts that wait for each other's rows do so in the    *)
(* order of the universe and never form a circle.                          *)
EveryJobEnds == \A j \in Jobs : j \in Active ~> job[j].phase \in Over
=============================================================================
