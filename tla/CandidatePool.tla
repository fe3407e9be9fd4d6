---------------------------- MODULE CandidatePool -----------------------------
(***************************************************************************)
(* The candidate pool of one trade date.  A job persists the configured    *)
(* universe as an input snapshot, then, as an asset of its own, takes the  *)
(* newest snapshot of the date and publishes, in one transaction, a run of *)
(* the configured policy on the latest bars of the snapshot's instruments, *)
(* or finds the run that was published on the same basis before.           *)
(*                                                                         *)
(* Transactions are READ COMMITTED: the latest bar of each instrument is   *)
(* read by a statement of its own, while ingestion jobs commit revisions   *)
(* (BarHistory, which MarketDataIngestion implements).  Jobs may overlap   *)
(* (PipelineRunLedger).  The configuration files may change between jobs.  *)
(***************************************************************************)
EXTENDS CandidateRules, Sequences

CONSTANTS
  Jobs,          \* executions of the snapshot asset and of the pool asset
  Instruments,   \* numbered in the order of their UUIDs
  Contents,      \* business contents of a bar
  Deliveries,    \* what a collection may deliver, a content per instrument
  Universes,     \* configured universes, resolved to instruments
  Policies,      \* configured policies, as parameter_hash tells them apart
  MaxRevisions,  \* bound: revisions of a bar
  MaxActive      \* bound: jobs that run at the same time

ASSUME PoolOK ==
  /\ Instruments \subseteq Nat
  /\ None \notin Contents
  /\ None \notin [rev : Nat, content : Contents]
  /\ \A c \in Contents :
       ~c.suspended => c.close \in Nat /\ (c.volume = None \/ c.volume \in Nat)
  /\ Deliveries \subseteq [Instruments -> Contents]
  /\ Universes \subseteq (SUBSET Instruments) \ {{}}
  /\ \A u \in Universes : IsFiniteSet(u)
  /\ MaxRevisions \in Nat
  /\ MaxActive \in Nat

VARIABLES
  bars,       \* core.daily_bars: the revisions of each instrument
  snapshots,  \* analytics.input_snapshots of the date
  runs,       \* analytics.candidate_pool_runs, all published, with their items
  now,        \* the clock
  job         \* the state of each job

vars == <<bars, snapshots, runs, now, job>>

(* universe is what the job was configured with, snapshot what it chose,   *)
(* revs the revisions it read (0: no bar), run what it returned.           *)
Idle == [phase |-> "new", universe |-> {}, stamp |-> 0, snapshot |-> {},
         policy |-> None, revs |-> <<>>, run |-> None]

Over == {"done", "failed", "dead"}

Init ==
  /\ bars = [i \in Instruments |-> <<>>]
  /\ snapshots = {}
  /\ runs = {}
  /\ now = 0
  /\ job = [j \in Jobs |-> Idle]

Active       == {j \in Jobs : job[j].phase \notin Over \union {"new"}}
Become(j, r) == job' = [job EXCEPT ![j] = r]
Goto(j, p)   == Become(j, [job[j] EXCEPT !.phase = p])

-----------------------------------------------------------------------------
(* Ingestion, as far as the pool sees it *)

Bars == INSTANCE BarHistory WITH history <- bars

Collect(delivery) ==
  /\ Bars!Collect(delivery)
  /\ \A i \in Instruments : Len(bars'[i]) <= MaxRevisions
  /\ UNCHANGED <<snapshots, runs, now, job>>

-----------------------------------------------------------------------------
(* The asset etf_input_snapshot *)

(* InputSnapshot.create stamps the snapshot before it is written. *)
Configure(j, u) ==
  /\ job[j].phase = "new"
  /\ Cardinality(Active) < MaxActive
  /\ now' = now + 1
  /\ Become(j, [Idle EXCEPT !.phase = "store", !.universe = u, !.stamp = now + 1])
  /\ UNCHANGED <<bars, snapshots, runs>>

(* uq_input_snapshots_date_hash: a universe that was stored before keeps   *)
(* its row.                                                                *)
Store(j) ==
  /\ job[j].phase = "store"
  /\ snapshots' = IF \E s \in snapshots : s.universe = job[j].universe THEN snapshots
                  ELSE snapshots \union {[universe |-> job[j].universe,
                                          created |-> job[j].stamp]}
  /\ Goto(j, "choose")
  /\ UNCHANGED <<bars, runs, now>>

-----------------------------------------------------------------------------
(* The asset personal_candidate_pool *)

(* list_by_date orders by created_at; the last one is taken. *)
Choose(j, p) ==
  /\ job[j].phase = "choose"
  /\ \E s \in snapshots :
       /\ \A t \in snapshots : t.created <= s.created
       /\ Become(j, [job[j] EXCEPT !.phase = "begin", !.policy = p, !.snapshot = s.universe])
  /\ UNCHANGED <<bars, snapshots, runs, now>>

(* calculate_and_publish_candidate_pool opens its transaction by loading   *)
(* the snapshot, whose row never changes; created_at of a run is the time  *)
(* its transaction began.                                                  *)
Begin(j) ==
  /\ job[j].phase = "begin"
  /\ now' = now + 1
  /\ Become(j, [job[j] EXCEPT !.phase = "read", !.stamp = now + 1, !.revs = <<>>])
  /\ UNCHANGED <<bars, snapshots, runs>>

Unread(j) == job[j].snapshot \ DOMAIN job[j].revs

(* Mutant: get_latest without its ORDER BY. *)
AnyRevision(i, rev) == rev <= Len(bars[i]) /\ (rev = 0 <=> bars[i] = <<>>)

(* get_latest: the highest revision, if there is one. *)
LatestRevision(i, rev) == rev = Len(bars[i])

Read(j, i) ==
  /\ job[j].phase = "read"
  /\ i \in Unread(j)
  /\ \A k \in Unread(j) : i <= k
  /\ \E rev \in 0 .. MaxRevisions :
       /\ LatestRevision(i, rev)
       /\ Become(j, [job[j] EXCEPT !.revs =
            [k \in DOMAIN @ \union {i} |-> IF k = i THEN rev ELSE job[j].revs[k]]])
  /\ UNCHANGED <<bars, snapshots, runs, now>>

(* The bars the revisions stand for; a row of daily_bars never changes. *)
Chosen(revs) ==
  [i \in DOMAIN revs |-> IF revs[i] = 0 THEN None ELSE bars[i][revs[i]]]

(* Mutant: the key of ADR-0008, without market_data_fingerprint. *)
KeyWithoutBars(r, s) == r.policy = s.policy /\ r.snapshot = s.snapshot

(* The natural key; market_data_fingerprint stands for the revisions. *)
SameKey(r, s) == r.policy = s.policy /\ r.snapshot = s.snapshot /\ r.revs = s.revs

(* Mutant: the freshly built run is returned, not the stored one. *)
FindExistingAndForget(j) ==
  /\ job[j].phase = "read"
  /\ Unread(j) = {}
  /\ \E r \in runs :
       /\ SameKey(r, job[j])
       /\ Become(j, [job[j] EXCEPT !.phase = "done", !.run = [r EXCEPT !.created = job[j].stamp]])
  /\ UNCHANGED <<bars, snapshots, runs, now>>

(* A job that read all its bars looks for a run with its key and returns   *)
(* it as it is.                                                            *)
FindExisting(j) ==
  /\ job[j].phase = "read"
  /\ Unread(j) = {}
  /\ \E r \in runs : SameKey(r, job[j]) /\ Become(j, [job[j] EXCEPT !.phase = "done", !.run = r])
  /\ UNCHANGED <<bars, snapshots, runs, now>>

FindNone(j) ==
  /\ job[j].phase = "read"
  /\ Unread(j) = {}
  /\ \A r \in runs : ~SameKey(r, job[j])
  /\ Goto(j, "insert")
  /\ UNCHANGED <<bars, snapshots, runs, now>>

(* Mutant: no unique constraint on the natural key. *)
KeyAlwaysFree(j) == TRUE

(* uq_candidate_pool_runs_natural_key *)
KeyFree(j) == \A r \in runs : ~SameKey(r, job[j])

(* The insert waits for an uncommitted run with the same key and fails if  *)
(* a committed one has it.                                                 *)
Insert(j) ==
  /\ job[j].phase = "insert"
  /\ \A k \in Jobs \ {j} : ~(job[k].phase = "publish" /\ SameKey(job[k], job[j]))
  /\ Goto(j, IF KeyFree(j) THEN "publish" ELSE "failed")
  /\ UNCHANGED <<bars, snapshots, runs, now>>

(* Items, validated and published are committed with the run. *)
Publish(j) ==
  LET run == [policy |-> job[j].policy, snapshot |-> job[j].snapshot, revs |-> job[j].revs,
              ranks |-> Ranks(job[j].policy, Chosen(job[j].revs)),
              created |-> job[j].stamp, committed |-> now + 1]
  IN
  /\ job[j].phase = "publish"
  /\ now' = now + 1
  /\ runs' = runs \union {run}
  /\ Become(j, [job[j] EXCEPT !.phase = "done", !.run = run])
  /\ UNCHANGED <<bars, snapshots>>

(* The process dies; an open transaction is rolled back. *)
Die(j) ==
  /\ j \in Active
  /\ Goto(j, "dead")
  /\ UNCHANGED <<bars, snapshots, runs, now>>

Advance(j) ==
  \/ Store(j)
  \/ \E p \in Policies : Choose(j, p)
  \/ Begin(j)
  \/ \E i \in Instruments : Read(j, i)
  \/ FindExisting(j) \/ FindNone(j) \/ Insert(j) \/ Publish(j)

Next ==
  \/ \E delivery \in Deliveries : Collect(delivery)
  \/ \E j \in Jobs :
       \/ \E u \in Universes : Configure(j, u)
       \/ Advance(j)
       \/ Die(j)

Spec == Init /\ [][Next]_vars
-----------------------------------------------------------------------------
(* Properties *)

Revs == UNION {[S -> 0 .. MaxRevisions] : S \in SUBSET Instruments}

RunOK(r) ==
  /\ r.policy \in Policies
  /\ r.snapshot \in Universes
  /\ r.revs \in [r.snapshot -> 0 .. MaxRevisions]
  /\ DOMAIN r.ranks = r.snapshot
  /\ {r.created, r.committed} \subseteq Nat

Phases == {"new", "store", "choose", "begin", "read", "insert", "publish"} \union Over

Job == [phase : Phases, universe : Universes \union {{}}, stamp : Nat,
        snapshot : Universes \union {{}}, policy : Policies \union {None},
        revs : Revs, run : runs \union {None}]

(* Every variable keeps its type; a job returns nothing but a committed    *)
(* run.                                                                    *)
TypeOK ==
  /\ bars \in [Instruments -> Seq(Contents)]
  /\ snapshots \subseteq [universe : Universes, created : Nat]
  /\ \A r \in runs : RunOK(r)
  /\ now \in Nat
  /\ job \in [Jobs -> Job]

(* The runs implement PoolPublications: published pools are complete,      *)
(* ranked without gaps or ties, never change, and there is one for each    *)
(* basis, however jobs and collections interleave.  created_at tells them  *)
(* apart.                                                                  *)
PoolOf(r) ==
  [id |-> r.created, policy |-> r.policy, universe |-> r.snapshot, ranks |-> r.ranks,
   bars |-> [i \in DOMAIN r.revs |->
               IF r.revs[i] = 0 THEN None
               ELSE [rev |-> r.revs[i], content |-> bars[i][r.revs[i]]]]]

Publications == INSTANCE PoolPublications WITH
  Admits <- Eligible, Worth <- Turnover, pools <- {PoolOf(r) : r \in runs}

ImplementsPublications == Publications!Spec

(* The run a job returns, found or published, is what its own calculation  *)
(* gives: calculate_and_publish pairs it with the freshly calculated       *)
(* result.                                                                 *)
ReturnedRunMatches ==
  \A j \in Jobs :
    job[j].phase = "done" =>
      /\ job[j].run.policy = job[j].policy
      /\ job[j].run.snapshot = job[j].snapshot
      /\ job[j].run.revs = job[j].revs
      /\ DOMAIN job[j].revs = job[j].snapshot
      /\ job[j].run.ranks = Ranks(job[j].policy, Chosen(job[j].revs))

(* list_by_status shows the newest created_at first.  A run created after  *)
(* another one of its policy and universe was committed rests on           *)
(* revisions at least as new, one of them newer, although every bar was    *)
(* read by a statement of its own.                                         *)
LaterRunIsNewer ==
  \A r, s \in runs :
    r.policy = s.policy /\ r.snapshot = s.snapshot /\ r.committed < s.created
      => /\ \A i \in r.snapshot : r.revs[i] <= s.revs[i]
         /\ \E i \in r.snapshot : r.revs[i] < s.revs[i]
=============================================================================
