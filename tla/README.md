# Verification of invest-infra

TLA+ modules of the parts of invest-infra whose correctness depends on the order
in which processes, transactions and answers interleave; TLC configurations that
check them on small instances; and TLAPS proofs of what they promise for every
value of the constants. Paths are relative to the root of the repository.

Contents: [the system](#the-system) · [modules](#modules-and-what-they-stand-for) ·
[runs](#runs) · [fairness](#fairness) · [proofs](#proofs) ·
[where code and documents disagree](#where-code-and-documents-disagree) ·
[not modelled](#not-modelled) · [plan](#plan) · [how to run](#how-to-run)

## The system

invest-infra collects market data of Chinese ETFs and stocks, calculates candidate
pools from it and lets external agents research the candidates. There is one
PostgreSQL database with five schemas: `raw` (what a provider answered), `core`
(instruments, bars, profiles), `analytics` (snapshots, pools, research, strategies),
`integration` (external runs and observations) and `ops` (job runs). Everything is short-lived processes around that database:

- Dagster assets and the **daily job** CLI (`apps/pipeline`), which may be started by a
  schedule, by hand, or both at once;
- worker CLIs (`research_run_worker_cli`, the WorkBuddy stage worker), each handling one
  item per invocation;
- the **API** (`apps/api`), which reads, queues research, and admits observations.

They share nothing but the database and, for WorkBuddy, directories. A transaction is a
unit of work (`packages/storage/.../unit_of_work.py`): it commits when its block ends
normally and rolls back on an exception. The isolation is READ COMMITTED, PostgreSQL's
default, which the repository never changes: each statement sees what is committed when
it runs. What keeps processes apart is therefore a compare-and-swap `UPDATE ... WHERE
status = expected`, a unique index or an advisory lock, at each place a different one,
and sometimes nothing. That is where this project looks.

### Inventory

| component | state it keeps | operations | interacts through | hard behaviour | correct when |
|---|---|---|---|---|---|
| Research lifecycle | `analytics.research_cases`, `research_runs`, `research_results` | queue, hand off, select, start, submit, record | API, handoff and worker write the same rows | stale reads between three transactions, crash between them, unknown outcome of a call | a run is submitted once; a case gets one verdict; tables agree |
| Daily job ledger | `ops.pipeline_runs` | look up, insert, mark | concurrent invocations of one trade date | lost recordings, death, blocking rows | one live row per date; rows tell the truth |
| Provider evidence, ETF daily bars | `raw.provider_requests/attempts/batches`, `core.daily_bars` | fetch, fallback, record, choose, upsert | assets hand over through tables only | overlapping upserts, answers recorded out of order, partial batches | evidence coherent; revisions dense, new and in order |
| Candidate pool | `analytics.input_snapshots`, `candidate_pool_runs`, `..._items` | store, choose, read bars, look up, publish | reads bars while collections commit | non-repeatable reads, twins of one key | pools complete, one per basis, later ones newer |
| Candidate pool read side | none | latest, compare, freshness | reads the pools | page limits, ties of `created_at` | compares the right pair |
| Alternative pool algorithms | none | score, shadow comparison | pure | ties, rounding | equal their definition |
| Strategy governance | artifact directories, `analytics.strategy_drafts`, `strategy_audits`, `strategy_versions` | register, audit, publish, activate | CLI processes, files before rows | lookup and insert are separate; death between files and row | versions rest on matching evidence; one active version of a key |
| Observation admission, external evidence | `integration.external_observations` and its metadata, `analytics.research_external_evidence` | import, resolve, admit, link, open a case | importer and API write one row | read, decide, write without a condition | contradictions are not both admitted; an admission keeps its audit; one case per decision |
| WorkBuddy packages | stage directories, archives, `integration.external_candidate_runs` | claim, archive, import, file, recover | rename and `flock` | claim races, redelivery, death in a handler, commit after the move | a package is handled by one process and ends in the folder that tells what was done |
| WorkBuddy report governance | archived triplets, manifests, the latest pointer | validate, archive, point | imports share directories; the producer rewrites its files | three reads of one source, stops between rename and pointer | archives never change; the pointer only moves forward to sound accepted reports |
| Provider adapters | none | call with retries | third-party services | timeouts | bounded, classified errors |
| Provider routing, quality, health | none (declarations, reports) | select, probe, derive | pure over declarations | boundaries of windows | equals its definition |
| Other market data writers | `raw`, `core` | as for the ETF bars | as for the ETF bars | the same | the same |
| Market observations | `analytics.market_observation_snapshots`, `market_observations` | aggregate, store | read bars | missing data | equals its definition |
| Profiles and exposure | `raw` attempts, `core.etf_profile_fields`, `etf_profiles`, context packs; index constituents, holdings | collect, map, resolve, pack | tables | instruments that appear late, changing answers, overlapping upserts | a profile is the resolution of all evidence; the served pack agrees with it |
| Content-addressed evidence | `analytics.research_evidence_packs`, `research_evidence_bundles` | encode, hash | identity of packs | canonical form | equal content, equal hash |
| Storage plumbing | sessions | commit, roll back | everything | partial commits | all or nothing |
| API read side; scheduling and configuration; migrations; web frontend and scripts | none of their own | queries, wiring | - | - | - |

## Modules and what they stand for

A component has, where its tables promise something to a reader that is worth stating, an
abstract specification; a detailed one translated from the code; an MC module with the
instance for TLC; and a proof module. The proofs of the ledger stand with those of the jobs it
records, and those of the candidate packages with those of the observations that come in
them; therefore the general names of these two modules carry their own (`LedgerSpec`,
`IntakeSpec`, ...), and one proof module extends both.

| component | promise | detail | instances | proofs |
|---|---|---|---|---|
| Research lifecycle | `ResearchOutcome` | `ResearchLifecycle` | `MCResearchLifecycle` | `ResearchLifecycle_proofs` |
| Daily job ledger | `PartitionRecord` | `PipelineRunLedger` | `MCPipelineRunLedger` | `MarketDataIngestion_proofs` |
| Evidence and bars | `BarHistory` | `MarketDataIngestion` | `MCMarketDataIngestion` | `MarketDataIngestion_proofs` |
| Candidate pool | `PoolPublications` | `CandidatePool` over `CandidateRules` | `MCCandidatePool` | `CandidatePool_proofs` |
| Strategy governance | `StrategyRegistry` | `StrategyGovernance` | `MCStrategyGovernance` | `StrategyGovernance_proofs` |
| Candidate packages | - | `CandidateIntake` | `MCCandidateIntake` | `ObservationAdmission_proofs` |
| Observation admission, evidence | - | `ObservationAdmission` | `MCObservationAdmission` | `ObservationAdmission_proofs` |
| ETF profiles | - | `EtfProfiles` | `MCEtfProfiles` | `EtfProfiles_proofs` |
| Research packages | - | `StagePackages` | `MCStagePackages` | `StagePackages_proofs` |
| Report governance | `LatestAccepted` | `GovernedReports` over `ReportVerdict` | `MCGovernedReports` | `GovernedReports_proofs` |

They compose along the tables: `CandidatePool` takes `BarHistory` as its environment,
that is exactly what `MarketDataIngestion` is proved to implement; and that jobs of one
trade date overlap at all, which both of them allow, is what `PipelineRunLedger` shows: a
blocked invocation executes all the same. What `CandidateIntake` commits is what
`ObservationAdmission` imports in one step, and an observation that it admits becomes
evidence of a case whose runs `ResearchLifecycle` takes over.

Common conventions. One action is one statement, or one transaction where nothing can
come between its statements: the writes of a transaction that repeat the expected
status in the `WHERE` clause are one step, since the clause is evaluated on the row as
it is when its lock is granted, and a miss rolls everything back. Every process may die
at any step; an open transaction goes with it. A definition whose comment begins with
"Mutant:" is not part of a specification; it is a plausible mistake in the code that
the property named for it in PROJECT.json refutes.

### ResearchLifecycle

Sources: `research_run_command.py` of the API, `external_research_handoff.py`,
`research_run_worker.py`, `research_run_worker_cli.py`,
`research_orchestration_service.py`, and the research repositories.

- `caseStatus`, `runStatus`, `runKey`, `session`, `result` are the columns. Run ids are
  numbered by `created_at`. A *key* is what queueing deduplicates by: evidence pack,
  runner and playbook. Sessions identify the drafts that arrive with them.
- `proc[p]` is what a client or worker holds between two statements: the key it was
  asked for, the status it read, the run it works on, the runner's answer.
- Queueing: `QueueRequest` reads the case, `QueueExisting`/`QueueMissing` the runs,
  `QueueAdd` promotes the case and inserts the run, `QueueConflict` is the lost
  compare-and-swap. `Handed` is the difference between the API, which replies, and the
  handoff, which goes on to execute the run.
- Selecting: `RunNext` is `list_recent(limit)` and the first queued run of that page,
  `RunOnce` is `--run-id`.
- Executing: `Load` (the load transaction and its checks), `Start`/`StartConflict`
  (Tx1), `Submit` (the runner, outside any transaction) or `SubmitEscapes` (an exception
  that is not the gateway's), then Tx2: `Succeed`, `Fail`, `BindUncertain` or
  `RecordConflict`.
- `Load` merges the check in `run_once`/`run_next` and the load of `execute`, and Tx2
  merges its reads with its writes. Both are sound because no status ever returns to
  `queued` or `running`, and the writes re-check the status they rely on.
- Tx1 locks the case only while it is `ready`, Tx2 only once it is `running`, so the two
  never wait for each other in a circle.
- Not here: `cancelled` and a second attempt of a run, which the domain allows and no
  code writes; a runner that returns no draft at all, which no runner does.

### PipelineRunLedger

Sources: `personal_daily_cli.py` (`run_daily`, `_safe_record`, the recorder) and the
pipeline run repository.

- An invocation opens at most one row, so an invocation and its row share their number,
  and the numbers are in the order of `started_at`.
- `LookUp` takes the advisory lock of job and date and looks for a running or succeeded
  row; the lock is held until `InsertRow` commits. A blocked invocation executes
  without a row. `StartLost` is the recorder's swallowed exception, including the commit
  whose confirmation was lost: then there is a row that nobody knows.
- `Execute` ends in one of four ways; a successful result without materializations is
  recorded as a failure. `Finish` and `FinishLost` are `mark_*` by id.
- `queued`, `partial` and `cancelled` are statuses no code writes.
- Preflight and the retries inside `execute_in_process` are part of `Execute`.

### MarketDataIngestion

Sources: `etf_daily_bars.py`, `assets.py` (the assets `etf_daily_bars_raw` and
`etf_daily_bars`), and the request, attempt and daily bar repositories.

- `request`, `attempts` and `bars` are committed rows; `job[j]` holds what the job has
  read or written and not committed. All jobs ask for the same symbols and date, so
  there is one logical request per provider.
- Evidence: `Fetch` (outside any transaction), `Open` (`get_or_create` and the next
  attempt number), `Record` (attempt, batch and status, committed together; a taken
  number fails the job). After a transient failure of the primary, `AfterEvidence`
  asks the fallback, once. `Record` is one step because the unique key on request and
  number lets one of two colliding writers through.
- Choice: `Select`, `Check`, `Probe`, one statement each.
- Upsert: `Pick` the freshest succeeded attempt, then for each bar, in the order of the
  universe, `Compare` (latest content), `Number` (next revision), `Insert` (waits for an
  uncommitted row of the same key, fails on a committed one), then `Commit`.
- The clock that stamps `finished_at` is strict: two answers never come in the same
  microsecond.
- A request is never seen `pending` (the status is set in the transaction that inserts
  it), and no adapter delivers a partial success, so there is no partial status.
  Symbols outside the universe are dropped before anything modelled here.
- The raw payloads, the asset `etf_akshare_daily_bars` (which uses the same writer and upsert, without
  fallback) and the other writers are not here. `stock_daily_bars.py`,
  `stock_price_limits.py` and `historical_daily_bars_cli.py` repeat this control,
  `etf_profiles.py` does so with a resolution of its own (`EtfProfiles`);
  `etf_instruments.py` differs in taking the oldest succeeded attempt.

### CandidatePool and CandidateRules

Sources: `candidate_pool_service.py`, `input_snapshot.py`, `assets.py` (the snapshot and
pool assets), `calculator.py`, and the snapshot, bar and pool repositories.

- `bars[i]` is the history of instrument `i`; `Collect` extends it as `BarHistory` says.
  `snapshots` and `runs` are the committed rows.
- `Configure` fixes the universe of a job; `Store` inserts the snapshot unless the same
  one exists for the date; `Choose` takes the newest `created_at`, which need not be the
  one just stored; `Begin` opens the transaction whose start becomes the run's
  `created_at`; `Read` reads one bar per statement; `FindExisting`/`FindNone` look the
  natural key up; `Insert` claims it; `Publish` commits run, items and the two status
  transitions together.
- The statuses `calculated` and `validated` are therefore never visible, and `rejected`
  is written by no code. The input fingerprint in the key is a hash of the revisions
  read, which the model uses instead.
- `CandidateRules` is `minimum_v1`: eligibility, turnover, ranks. `PoolPublications`
  states the ranks without sorting, by counting who is not behind. A rank of 0 stands for
  an excluded instrument; the reasons are left out.
- A suspended bar carries no numbers and a normal one has a positive close; the rules
  treat suspended bars, the TLC instance has none.

### StrategyGovernance

Sources: `strategy_draft_cli.py`, `strategy_audit_cli.py`, `strategy_version_cli.py`,
`strategy_governance.py`, and the three strategy repositories.

- An *artifact* is the content of `strategy.json`, which stands for its hash and for the
  draft of that hash. `files` is the artifact root. `source.txt` and the capability
  assessment are fixed by the hashes in the artifact, so only `validation.json` may differ
  between two archives of it.
- Registering: `WriteStrategy`, `LookForValidation`, `ReplaceValidation`, then `FindDraft`
  and `InsertDraft` in a transaction. `IngestAudit`/`InsertAudit`, `Publish`/
  `InsertVersion` and `Activate`/`Update` are the reads of a transaction and its one write,
  which commits or fails on a constraint (`SamePair`, `KeyActive`: the partial unique index
  of activated versions per key).
- `activate_version` takes its `at` before it opens its transaction; the CHECK of the
  table compares it with `approved_at`.
- `StrategyRegistry` is what the tables promise: versions are never changed but for their
  one activation, and at most one version of a key is active.

### CandidateIntake

Sources: `workbuddy_bridge_cli.py` (`run_import`), `workbuddy_dagster.py`,
`workbuddy_shared_directory.py`, `workbuddy_candidates/archive.py`.

- A package is a name with a content, at one place of `results/`, `processing/`,
  `archive/`, `failed/` and `conflict/` (`at`). `kept` is the immutable archive by run, in
  which the first content wins; `rows` are the committed rows, keyed by archive.
- A pass claims directories first, then files; `Claim` is the rename into `processing/`
  (a file replaces a leftover of its name, a directory cannot and the error ends the
  pass), then the package is read, archived (`Place`), imported in the session of the pass,
  and brought to its final folder: `Finish` looks whether a package of its name is there,
  `Compare` compares the two, `Discard` deletes the claimed one, `MoveAway` renames it. These
  are calls of their own and nothing locks the names, so another pass may claim the next file
  of that name between any two of them; an error in one of them (`Fails`) sends the package
  to `failed/` or ends the pass. All packages of a pass share one transaction, which commits
  at its end (`Commit`): what an aborted or killed pass had imported is in `lost`.
- `recover_once` of the shared directory is not here: nothing calls it.

### ObservationAdmission

Sources: `integrations/bridge_ingestor.py`, `admission.py` and
`research_external_evidence.py` of the API, and their repositories.

- `row[o]` is an observation's row; its identity is in its immutable columns, its metadata
  is reduced to what the decision reads and writes. `evidence` and `cases` are the rows of
  external evidence and the cases opened for it.
- Importing: `Import` inserts what a run reports, `ListRun` lists the unresolved rows of
  the run, `SaveResolution` writes back each with the instrument it resolved, over whatever
  was decided since. The write is one step with its commit, since it holds the row lock.
- Deciding: `Load` (the observation, its replay and its status), then the peers of the
  same instrument and day (`Peers`, `Verdict`), then the write. The peers are taken from one
  page of `list_recent`, the `Page` newest observations of whatever instrument and day
  (`Newer`, `Recent`; 100 in the code). Linking
  and opening a case look for evidence, then insert it (`Taken` is the unique index).
- `ListInstrument` and `NextDay` are the environment: an instrument becomes resolvable, a
  day passes and observations are no longer fresh.
- `list_by_run` stops at 10,000 observations of one run (`bridge_ingestor.py:110`); the model
  lists all of them.

### EtfProfiles

Sources: `etf_profiles.py`, `etf_profile_context.py`, `etf_profile/resolver.py`, the
mapping of the akshare adapter, and the repositories of evidence, profiles and packs.

- Collecting is that of `MarketDataIngestion` without its fallback: `Fetch`, `Number`,
  `Record`. An upsert (`Begin`) takes the freshest succeeded attempt (`Choose`), maps it to
  a row of evidence for each instrument and field (`Mapped`, `Add`; an equal row is found
  again), and for each instrument in turn reads all its evidence, resolves it and writes
  profile and context pack (`Turn`, `Write`), in one transaction that ends in `Commit`.
- `Resolved` is `_resolve_field`: distinct values of the evidence conflict, one value is
  resolved, none is missing. `Item`, `Pack` and `SamePack` are the context pack that goes
  with it, found again by its hash.
- Instruments are registered at any time. The tiers of providers are left out, since only
  the akshare mapping writes evidence, and the six canonical fields without a column,
  which are always missing. `created_at` is the start of the transaction. The lookups of
  instruments of one upsert are one step.

### StagePackages

Sources: `integrations/workbuddy_stage_worker.py`, `workbuddy_research_artifacts.py`,
`workbuddy_research_ingest_cli.py`.

- A delivery is a directory named for its task. The lock file lies *inside* the directory,
  while claim and final move rename whatever has the name: the model keeps directories and
  names apart for that.
- `Start` lists `results/` for a pass, `processing/` for a recovery, which does the same
  without the claim. For each name: `Open`, `Lock` (`flock`, without waiting; given up when
  the package is done with, and by death), `Claim`, the handler (`Read`, `Look`, `Make`,
  `Place`: the artifact archive, first a directory for the identity, then the artifact in
  it) and `Finish` into `archive/` or `failed/`. Passes and recoveries are started by hand,
  at any time.
- Read errors are not here: one while an artifact that is already kept is looked at again
  (`workbuddy_research_artifacts.py:108`) would file its package as failed.

### GovernedReports and ReportVerdict

Sources: `workbuddy_reports/archive.py`, `validator.py`, `__main__.py`.

- The source is read three times: for the verdict (`Validate`), for the time of its files
  (`Stamp`), for the copy (`Copy`). The producer replaces a triplet in one step, at any
  time. `Look`, `Found`, `Conflict` and `Rename` place the copy under the identity in the
  verdict; a *record* is what the manifest tells, `[validated, copied, at]`. Then
  `ReadKey`, `Lock`, `Compare`, `Replace` move the pointer. `Stop` is an I/O error or a kill at any
  step; `reported` are the keys of the imports that ended with exit code 0.
- `ReportVerdict` is `validate_triplet` on abstract reports: sources and rules as numbers,
  stages as sequences of symbols. A check of the validator is an operator of the
  same name in the positive (`StagesHold`, `RulesHold`, `ScoresHold`, ...).
- Scores are what Python's `json.loads` and doubles make of them: NaN, the infinities, or a
  whole number of `1/Unit`, which every finite double is for a `Unit` large enough. `Tolerance`
  is the 0.01 of a declared score, `Tie` the 1e-9 of two places of the ranking. `Exceeds`,
  `Close` and `Agrees` are the three comparisons of the code, false or passed where NaN makes
  them so; `odd` is what the recomputation comes to when a number in it is not finite. Rounding of
  sums and quotients is left out.
- The three files of a triplet are read and copied in one step each, and `Look` reads the
  manifest and the directory in one: an equal import that comes in between may end in a
  conflict in the code, which `Stop` covers.
- `LatestAccepted` is the promise to the reader of the pointer: an archived record never
  changes, and the pointer names an accepted one and only moves to a greater key.
- A corrupt pointer and empty target directories that nobody made are not here.

## Runs

Each `.cfg` gives values to constants only. TLC finishes every run without an error.

| run | question | instance | distinct states (depth) |
|---|---|---|---|
| `race` | what can two clients and a worker do to the runs of one case? | 1 case, 2 keys, 2 clients, 1 worker that serves one of them, 2 sessions, 2 runs, page of 2, 1 crash | 520,629 (26) |
| `served` | is a queued run served? | 1 case, 2 keys, 1 client, 1 worker that serves both, 2 runs, page of 2, 1 crash; fair | 16,136 (25) |
| `ledger` | do racing, dying, losing invocations keep the ledger truthful? | 2 dates, 3 invocations, faults; fair | 122,073 (16) |
| `bars` | what do overlapping jobs do to evidence and bars? | 3 jobs, 2 at a time, 2 instruments, 2 contents, no fallback, no deaths; fair | 269,875 (40) |
| `bars_alone` | what does one job after another leave? | 3 jobs, 1 at a time, 4 batches (one with a bar missing), fallback, deaths | 807,104 (55) |
| `pool` | are pools complete, unique, right and in order? | 2 overlapping jobs, 2 instruments, 2 policies, 1 universe, 2 revisions | 1,140,001 |
| `governance` | what can racing commands do to drafts and versions? | 2 agents; two versions of a key and a rival of the first, two validations of one archive, a passing and a rejecting report of one task, decisions of two approvers, of an unauthorized one and with mixed evidence; times 0 and 1; an agent may die | 243,396 (41) |
| `intake` | what becomes of delivered candidate packages? | 2 processes, 1 directory, 3 files (malformed, resubmitted, contradicting), two of them late, 1 death; fair | 321,779 (55) |
| `admission` | which observations are admitted and become evidence? | 3 runs, two against one, page of 2, 1 importer, 2 API workers, 2 keys, 2 days, 1 case and one to be opened | 4,821,351 (37) |
| `profiles` | are profiles and packs what the evidence says? | 2 workers, 2 instruments, 1 field, 2 values, 3 listings, page of 3, 5 ticks, deaths, 1 upsert at a time | 2,129,142 (32) |
| `packages` | does each research package end where it should? | 2 processes, 3 tasks, one delivered three times with two contents, one malformed, 1 death | 1,292,917 (67) |
| `reports` | what do overlapping imports leave in the archive and the pointer? | 2 imports, 2 sources, 3 writes of three reports or of one of 320 variations of a correct one, 1 stop; unit 300, tolerance 3, tie 1 | 3,622,629 (35) |

What the runs show:

- **`race`** `SubmittedOnce`: a run reaches its runner at most once. `OneVerdict`: an
  open case has no verdict, a closed one exactly one, although two runs of it may be
  with the runner at the same time. `ResultOfSucceededRun`: results and succeeded runs
  correspond, by session. `RunningCaseHasRunningRun`: the statuses
  of a case and its runs agree. `ClosedForGood`: nothing closed is written again.
  `ImplementsOutcome`: the tables implement `ResearchOutcome`.
- **`served`** `QueuedRunsServed`, under the three conditions the code needs: the page
  holds every run, the worker serves their runner, and they belong to one case.
- **`ledger`** `OneLiveRow`, `RowTellsOutcome`, `ImplementsRecord`, and `RunningRowEnds`:
  only a death or a lost recording leaves a row running.
- **`bars`** `RequestTellsLastAttempt`: the status of a request is that of its latest
  attempt. `ImplementsHistory`: revisions are 1 to n, immutable, appended at most one
  per job and all at once. `EveryJobEnds`: upserts do not deadlock.
- **`bars_alone`** `RevisionsDiffer` and `OwnAnswerIsLatest`, which hold only when jobs
  do not overlap: the job that asked last leaves its answer as the latest bars.
- **`pool`** `ImplementsPublications`, `ReturnedRunMatches` (the run a job finds is what
  it would have calculated), `LaterRunIsNewer` (a run begun after another of its policy
  and universe was committed rests on bars at least as new, one of them newer).
- **`governance`** `DraftHasItsFiles`: a registered draft has its files, whoever wrote
  them, and died where. `VersionRestsOnItsAudit`: a version rests on a passing audit of its
  own artifact and an authorized approver. `ReturnedVersionIsOwn`: a publication that
  succeeds returns the stored row of its own decision, also when it found that row there.
  `ImplementsRegistry`: the tables implement `StrategyRegistry`.
- **`intake`** `StoresAgree`: what the rows say of a run is what its archive holds, and a
  package in `archive/` that no other was claimed over (a directory, or a name delivered once)
  is that content too, and without rows only when its pass did not commit. `ContentKept`: no
  content of a directory, or of a file delivered at most once after the first, disappears
  unless an equal one stays. With a third delivery it is false (below). `InboxDrains`: every delivered package is
  claimed in the end, but a directory whose name is still in `processing/`.
- **`admission`** `NoContradiction`: two observations that contradict each other and are both
  on the page that decisions compare with are never both admitted nor both evidence,
  although each decision reads its peers before it writes. With three observations and a page of
  two, one does leave the page; four observations, two against two, with a page of three and
  one day gave the same. Without the condition it is false (below).
  `AdmissionKeepsAudit`: an admitted observation keeps the verification it was admitted by,
  whatever a re-import had listed, when imports of one run follow each other. `EvidenceOnce`:
  one decision is evidence of one case, and an opened case has its evidence.
- **`profiles`** `ProfileIsResolution`: a stored profile is the resolution of all evidence
  stored for its instrument, not of the last attempt. `NewestPackAgrees`: the pack that is
  served, the newest by `created_at`, says what the profile says, although an equal pack is
  found again with its old `created_at`.
- **`packages`** `OneHandler`: a package of a task delivered once is in the hands of one
  process. `FiledByOutcome`: the final folder tells whether the archive holds the package.
  `OneArtifact`: a task keeps one artifact.
- **`reports`** `ReportedIsServed`: after an import that ended with exit code 0 the pointer
  is at its accepted report or a later one, also when an earlier import of that run stopped
  before its pointer. `ImplementsLatest`: `LatestAccepted`.
  `AcceptedIsSound`: an archive whose copy is what was validated and whose verdict is accepted
  holds as a whole, although the validator compares neighbours only: nothing passes a stage
  that did not come into all earlier ones, and no sector without data is used. Of the ranking
  it says what the comparisons do give. A place exceeds an earlier one by at most one `Tie` for
  each step between them (`Descends`), since ties within the tolerance add up, and only if no
  score between them is NaN, which hides a greater score behind it (below). Where scores that
  differ are more than a `Tie` apart, places are in the order of scores and sectors (`Apart`,
  `InOrder`). The reports hold every combination of three scores that are equal, a tie or two
  ties apart, infinite or NaN.

Every module has a type invariant, `TypeOK`; `race`, `ledger` and `pool` check it, and it is
proved for every module (of the profiles: for upserts that follow each other).

Why the bounds suffice. What these properties can lose is lost between two processes:
a stale value is used after a second one wrote. Two actors on one object, with a third
where a bystander matters (two clients and a worker; a third job after two that
collided), contain each such pattern, and two objects show that the pattern is confined
to one. Two revisions and two contents allow a bar to change and to change back (three
jobs); two instruments make a read non-atomic and let ranks swap. One crash is enough
because what a dead process leaves is never repaired. `MaxRuns`, `MaxCrashes`,
`MaxInvocations`, `MaxRevisions`, `MaxActive`, `MaxTime`, `MaxDay`, `MaxCases`,
`MaxDeaths`, `MaxWrites`, `MaxStops` and `MaxUpserts` bound counters; `Limit` and `Page`
are constants of the code. `Page` (1000) is not reached in `bars` and `pool`; `profiles` lowers
it to 3, so that the listing that stops at a page happens, and `admission` lowers its own page
(100) to 2. `Unit`, `Tolerance` and `Tie` (1, 0.01 and 1e-9 in the code) are 300, 3 and 1
in the runs of reports: TLC's integers have 32 bits, and with these a tie is smaller than the
tolerance and two scores within it may be apart. Three agents or two deaths in
`packages` were tried too and change nothing. `MaxUpserts` is 1 because nothing in the
repository starts two upserts of profiles at once; what happens then is told below. The proofs
do not depend on any of these values, but for the theorems about jobs and upserts that
follow each other. `CHECK_DEADLOCK FALSE` is used where the system
really rests: when all invocations, jobs, imports or deliveries of the instance are over, or
when all observations are decided.

Symmetry is used for sessions (`race`), jobs (`bars_alone`, `pool`), agents (`governance`,
`packages`), workers (`profiles`, `admission`), importers (`reports`), in runs without a
liveness property; nothing distinguishes their members.

## Fairness

- `ResearchLifecycle`: weak fairness of each process's `Advance`: a process that is not
  killed finishes what it began. Strong fairness of `RunNext`: somebody keeps invoking
  the worker CLI, at moments when it can find something too. The invocation is outside
  the code (cron or an operator), which is why it is a stated assumption; `QueueRequest`,
  `RunOnce` and `Crash` are not fair.
- `PipelineRunLedger`: weak fairness of each invocation's `Proceed`; the advisory lock is
  held for one insert and released by death, so nobody waits for ever.
- `MarketDataIngestion`: weak fairness of each job's `Advance`; a fetch ends because the
  adapters bound it by timeouts and retries.
- `CandidateIntake`: weak fairness of each process's steps and of starting a pass while a
  package is visible, which is the import schedule (every five minutes on weekdays,
  `workbuddy_dagster.py:77`). Deaths and deliveries are not fair.

The other modules state safety only: research workers, recoveries, admission and governance
commands and report imports are started by hand.

## Proofs

All theorems are proved by TLAPS from the named assumptions on the constants, which TLC
evaluates in every run: `ConstantsOK`, `LedgerOK`, `IngestionOK`, `PoolOK`, `GovernanceOK`,
`IntakeOK`, `AdmissionOK`, `ProfilesOK`, `PackagesOK`, `ReportsOK`, `NumbersOK`. They say what belongs to
which set, that `None` is no value, that bounds are numbers, and what a mapping guarantees of
its output: bars that are not suspended have a close (`PoolOK`), a delivery names one content
per package (`IntakeOK`), reports are parsed before they are judged (`ReportsOK`), NaN and
the infinities are no integers (`NumbersOK`). Sets are
finite only where something is counted or sorted: the instruments of a universe, the
deliveries of research packages, the observations of which a page is taken.

**ResearchLifecycle_proofs.** `OneVerdict` is not inductive: that an accepted draft
finds its case undecided depends on who may still write, and that on what each process
believes. The invariant is built in layers, each proved on top of the previous one:

1. `TypeInv`;
2. `LInv` adds `HolderInv`: from `Start` to the end of Tx2 the run a process started is
   running and unbound, and no other process has started it; a run that nobody started
   was never called. This gives `SubmittedAtMostOnce`;
3. `VInv` adds `Decided` (the runs that decided a case, per status of the case) and the
   two properties of results and sessions. This gives `CaseDecidedOnce`,
   `ResultIffSucceeded` and `SessionsDistinct`;
4. `AInv`, again on top of `LInv`, adds `SeenInv`: what a process read of a case may be
   stale, but the case has not moved backwards since. This gives `StatusesAgree`.

`ClosedStaysClosed` and `OutcomeImplemented` follow step by step from `VInv`: Tx2 is a
step of `ResearchOutcome` and everything else a stutter.

**MarketDataIngestion_proofs** on `MarketDataIngestion`. `IngestionInv` is the type invariant, `EvidenceInv`
(attempt numbers are 1 to n, once each, and a job about to record holds one of them or
the next) and `RowsInv` (revisions are 1 to n; an uncommitted row has the next one, is
the only one of its transaction for its instrument, and no other row, committed or not,
has its key). The latter two are inductive only because they speak of the uncommitted
rows and of the number held between `Number` and `Insert`, both possibly stale. They
yield `IngestionRequestTellsLastAttempt` and `IngestionImplementsHistory` for any number
of jobs, instruments and contents and any page size.

Two further invariants are about jobs that follow each other (`MaxActive = 1`, the hypothesis
of both theorems; overlapping jobs do violate the properties, see below). `DifferInv`: what a
job is about to append differs from the latest revision, which nobody else can change
(`IngestionRevisionsDiffer`). `AnswerInv` follows the answer of the job that asked last: its
attempt is the freshest, its bars are in its batch, and what it upserted is the latest
(`IngestionOwnAnswerIsLatest`). The second theorem also assumes `[]Paged`: past `Page`
attempts (1000) the listing that numbers and chooses attempts stops, and the property with it.

The same module on `PipelineRunLedger`. `LedgerInv` is `LedgerTypeOK`, `PhaseInv` (what the
phase of an invocation says of its row), `OneHolder` (at most one invocation of a date has the
lock past the look-up or a live row: the lock and the row are handed over in one step) and
`RowTellsOutcome`. `LedgerImplementsRecord` maps each step to a step of `PartitionRecord`
or a stutter; it rests on `OneHolder`, for with two live rows of one date the
end of one would not end the date.

**CandidatePool_proofs.** `PoolInv` is `TypeOK`, `ReadInv` (what a job has read is
there), `ClockInv` (stamps are in the past, commits after their transaction's start),
`RanksInv` (the ranks of a run are those of the bars it rests on, as they are now),
`KeyInv` (the key about to be published is free and claimed by one job), `NewerInv`
and `LaterRunIsNewer` itself. `NewerInv` carries the argument: every read of a job
comes after the start of its transaction, so after each commit that came before, and the
revisions it read are at least as new; were they all equal, it would have found the
earlier run by its key. It yields `PoolReturnedRunMatches` and `PoolLaterRunIsNewer`.

`PoolImplementsPublications` is the refinement. `PoolPublications` states a rank by counting
who is not behind, the code by sorting. `KeyOrders` and `CountsOrder` show that the sort key
is a strict total order and that the counts are distinct and cover 1 to n; so the arrangement
by count is sorted (`SortedExists`), and what the code calculates is that arrangement
(`RankIsCount`). No induction over sequences is needed.

**StrategyGovernance_proofs.** A command reads, perhaps in several statements, and then
writes. `GovernanceInv` says for each phase what its agent relies on (`AgentOK`) and of the
rows what the constraints keep (`RowsOK`); it is inductive because files, drafts, audits and
versions only grow (`Grown`), so whatever a command read is still true when it writes.

**ObservationAdmission_proofs** on `ObservationAdmission`. `AdmissionInv` extends "admitted" to
what is about to be (`Claims`) and what has been (`HasEvidence`), because a later decision may
replace the status.
`NoRivals`: two observations on the page that contradict each other are never both `Approved`. It rests on
an instrument being set once and before the load of a decision that admits, and on
`RecentStays`: what is on the page has been on it ever since it was imported, because imports
only add observations. So the later decision has the other observation among its peers. `AdmissionAuditKept` is proved of behaviours in which
imports of one run follow each other (`[]RunsInTurn`, as in the run with one importer); two
that overlap do erase an audit.

The same module on `CandidateIntake`. `IntakeInv`: an archive of a run is never replaced and
what was imported stays known (stored or lost); each pass relies on the content it has read
(`PassOK`); a package nothing can be claimed over has one handler, and one delivered once is in
one place. `IntakeContentKept` is not a property of single steps: what `Discard` deletes was compared two
steps before. `KeepInv` says what a pass between `Compare` and `Discard`, or between `Finish` and
`MoveAway`, may rely on, for a directory and for a file that is delivered at most once after the
first: what is in `processing/` is the package that was compared, or nothing; and the final
folder is as it was seen, or there is nothing left to move.

**EtfProfiles_proofs**, for upserts that follow each other (`MaxUpserts = 1`; overlapping ones
violate both properties). `ProfileInv` says that a profile is the resolution of all stored rows
of its instrument (`ProfilesInv`) and that a pack tells what the rows of its transaction and
before resolve to (`PacksInv`). A pack that is found again and kept with its old `created_at`
could be older than another one. `ItemBetween` excludes that: evidence only grows, and of three
growing sets of rows the middle one makes the item that both others make, so a pack between
the two equal ones would be equal to them.

**StagePackages_proofs.** `PackagesInv`: until the first package of a task is filed, the
directory under its name is the one that was opened and locked, which gives `OneHandler`. With
a redelivery several processes may handle one package, but then `archive/` or `failed/` holds
the first one, and what was read of the later stays true (`JobsOK`, `SameGot`); so `FiledByOutcome`
and `OneArtifact` hold without any bound on processes, deliveries or deaths.

**GovernedReports_proofs.** An archived run never changes (`Kept`), so a key once read is the
key of its run, and only the holder of the lock compares and replaces: what it compared with is
there when it replaces it. `ReportsInv` yields `ReportsImplementLatest` and
`ReportsReportedIsServed`. `ReportsAcceptedIsSound` is about the validator, and about every report
there can be: what neighbours in order give for the whole is shown on the smallest counterexample,
with the well-founded minimum of the library in the place of an induction. For stages, and for
scores that are equal or apart, the relation of neighbours is transitive
(`NeighboursSuffice`, `ApartIsOrdered`); the comparison with a tolerance is not, and
`RankingDrifts` carries the tolerances along (`TiesAddUp`, also over infinities).

Only model-checked: liveness (`QueuedRunsServed`, `RunningRowEnds`, `EveryJobEnds`,
`InboxDrains`), since fairness and ENABLED are out of the prover's reach. Of the safety and
action properties of the runs each is stated by a theorem; five of them under the hypotheses
named above (`RevisionsDiffer`, `OwnAnswerIsLatest`, `AdmissionKeepsAudit`,
`ProfileIsResolution`, `NewestPackAgrees`).

## Where code and documents disagree

Found while modelling. None of these has a run of its own: the runs check what the code
keeps. The first list are behaviours of the models, reachable by their actions (with other
constants than the runs' where that is said); the second are outside them.

Behaviours of the models:

- `_finish` compares the claimed package with the one in the final folder and unlinks it, in
  two calls (`workbuddy_shared_directory.py:257-258`). A third file of a name, claimed in between
  by another pass, is deleted without having been compared; by
  `docs/validation/stage4d-gate1-20260824.md:25` a different content goes to `failed/`. TLC shows it
  in 40 steps of two overlapping imports, if `Later` of `CI_Race.cfg` holds two contents of file 2
  and `ContentKept` loses its condition. A final file that came after the look is
  replaced in the same race.
- `list_recent()` is called with its default limit (`admission.py:153`, `repositories.py:5423`), so
  behind 100 newer observations of any instrument a contradicting one is not seen and both are
  admitted, against `docs/adr/0015-external-observation-admission.md:39` (four observations, two
  against two, and a page of 2, if `NoContradiction` is stated of all observations; 20 steps).
- A NaN, which `json.loads` reads, compares false with everything (`validator.py:746`, `:806`,
  `:811`), so a ranking 0.1667, NaN, 0.8333 is accepted, against
  `docs/implementation/WORKBUDDY-GOVERNANCE-M0-CONTRACT.md:98` (report 198 of
  `MCGovernedReports`).
- The newest queued run of a closed case is selected and refused on every invocation, and
  the runs behind it starve (two cases instead of one). `run_next` takes the newest run of its page
  (`research_run_worker.py:58`), its docstring (`:45`) says the oldest.
- A run loaded while its case is running is started after another run closed that case
  (`research_orchestration_service.py:494`, docstring `:15`): only its answer is refused.
- Two requests of one key queue two runs (`research_run_command.py:88`;
  `docs/adr/0012-research-lifecycle-boundary.md:28`).
- A recording that fails after the job (`personal_daily_cli.py:203`, docstring `:196`) leaves a running row, which
  blocks the rows of every later run of the date.
- Overlapping upserts append a revision that repeats the one before it
  (`repositories.py:1249`; `docs/adr/0006-daily-bar-revision-latest-policy.md:25`), and one that chose its attempt earlier may commit last,
  against "freshest persisted attempt wins" (`etf_daily_bars.py:422`).
- After the universe went from A to B and back to A the pool is published on B
  (`assets.py:852`, `:598`): the snapshot of A keeps its `created_at`.
- Activation is one-shot and nothing deactivates, so a successor of an active version can never
  become active (`repositories.py:5929`, `models.py:2605`;
  `docs/plan/invest-infra-candidate-strategies-mvp-plan-v1.0.md:174` expects it).
- Two admission commands with different keys that loaded one pending observation both
  decide it, the later over the earlier (`admission.py:162`, `repositories.py:5446`), against
  `docs/adr/0015-external-observation-admission.md:53`. Two overlapping re-imports of one run can
  erase the audit of an admission (two importers).
- A package moved to `archive/` before the pass commits loses its rows when the pass dies or
  a later package aborts it (`workbuddy_shared_directory.py:194-201`), and nothing imports it
  again; a directory redelivered behind a leftover in `processing/` ends every pass.
- Overlapping upserts of profiles show a value although the stored evidence conflicts
  (`etf_profiles.py:590`; `MaxUpserts = 2`).
- With a redelivery two processes may handle one package: the lock is on the directory that
  was opened, the claim on the name (`workbuddy_stage_worker.py:176`, docstring `:212-216`). A death
  between making a task's artifact directory and placing the artifact makes the recovery file a
  good package as failed (`workbuddy_research_artifacts.py:102`). An identical redelivery of
  an archived task stays in `processing/` for every later recovery.
- A source rewritten between validation and copy archives files that nobody validated
  (`workbuddy_reports/archive.py:247`, `:285`, against §7 of
  `docs/implementation/WORKBUDDY-GOVERNANCE-M0-CONTRACT.md`). A rejected run keeps its
  identity, so a corrected delivery conflicts for ever.

Seen while reading:

- Research and pool. The worker CLI's default page is one run, so `run_next` sees only the
  newest. A blocked invocation executes unrecorded, so the latest row may say `failed` after
  an exit code 0 (`docs/runbooks/reprocess-trade-date.md:88`). Past 1000 attempts the next
  number is always taken (`etf_daily_bars.py:207`). ADR-0007 asks for REPEATABLE READ and the
  pool is read statement by statement; the publication pointer of ADR-0008 does not exist, so
  after a policy goes from A to B and back to A the latest run remains that of B;
  `selection.max_candidates` is never applied.
- Governance. A newer rejecting audit does not stop a publication; the row's
  `validation_result` and `validation.json` may come from different archives, and after a
  death between file and row a corrected validation is refused.
- Intake. `--recover` is parsed and not passed on (`workbuddy_bridge_cli.py:141`, against
  `docs/validation/stage4d-gate1-20260824.md:26`), and `recover_once` of the shared directory
  has no caller. A third, different redelivery of a name ends the pass and rolls all of it
  back; a leftover file in `processing/` is overwritten; one failed flush breaks the session
  for the later packages.
- Admission. The first import never sets `instrument_id`, so an observation decided before a
  re-import is always rejected or in conflict; unresolved observations of different symbols
  on one day count as peers; a retry with the same key may be decided twice; one observation
  cannot be evidence of two cases.
- Profiles. A field whose value changes between two collections of one provider is blank for
  ever, while docstrings in `repositories.py` (3519-3550) say the freshest is picked; the
  anchor of a conflict is the first stored row, not the first in the resolver's order
  (`etf_profile_context.py:181`). Collection and upsert are called by tests only.
- Reports. A producer status `failed_validation`, `failed_execution` or
  `needs_rule_confirmation` may be accepted (`validator.py:357`, `:209`; contract line 86). A
  missing score is rejected before it can be partial (`validator.py:738-745`; contract line
  110). Touching the files makes an identical re-import a conflict; candidates' sectors are
  not compared with the ranking's; the ranking may omit or repeat sectors; `finished_at` is
  compared as a string across offsets.

## Not modelled

PROJECT.json lists every component with its status. Out of scope: web frontend, scripts,
migrations, third-party services (answers of any kind in the models), and the queries of the
API, which change nothing. Taken as given: PostgreSQL's READ COMMITTED, unique
indexes, row and advisory locks; hashes as identities of their content; a clock that does
not run backwards. Multi-host clock skew is therefore not covered. Of the rest:

- Most lines of the repository are data: row mappings of `repositories.py` and
  `models.py`, mappers and clients of providers, response schemas, parsers, reports. The models
  abstract them to identities of content; translating them would give modules without control.
- The alternative pool algorithms (`baseline_channel.py`, `institutional_channel.py`,
  `custom_strategy.py`, `v1_adapter.py`, the shadow comparison) are pure and called by tests and
  by a loader that nothing starts; provider routing and health are pure derivations for reports.
- Stock bars, price limits and the historical backfill repeat the control of
  `MarketDataIngestion`. Market breadth, temperature and sentiment read bars and publish one
  snapshot by a natural key, as the pool does.
- The data bundle intake and the strategy archive are file moves of the kind of
  `CandidateIntake` and `StagePackages`; they were left for the ones whose results other
  components build on.
- The pool's read side compares two published runs of different dates; `CandidatePool` is
  one date.

## Plan

Done: the modules above, in this order: research lifecycle, ledger, ingestion, pool,
governance, intake, admission, profiles, research packages, reports.

Their safety properties are proved, as told above.

Next:

1. To prove: the hypotheses of the theorems under `MaxActive = 1` and `MaxUpserts = 1` could be
   weakened to behaviours in which no two jobs (upserts) are active at once, whatever the bound.
2. To prove: the composition of `MarketDataIngestion` and `CandidatePool`, by the refinement of
   `BarHistory`, which both name.
3. To model, should a component take a share in the control: the pool's read side over several
   dates, market breadth, the data bundle intake.

## How to run

    tlc -workers 2 -config RL_Race.cfg MCResearchLifecycle
    tlapm ResearchLifecycle_proofs.tla

PROJECT.json names the module and the configuration of every run. The largest is `admission`
with 4.8 million distinct states, about two minutes with two workers.
