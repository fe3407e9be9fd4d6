------------------------- MODULE CandidatePool_proofs -------------------------
(***************************************************************************)
(* Proofs about CandidatePool, for any number of jobs, instruments,        *)
(* universes, policies and revisions.                                      *)
(*                                                                         *)
(* The argument: histories of bars only grow, so a revision once read      *)
(* keeps its content and never exceeds the history (ReadInv); a key that   *)
(* is about to be published is free and claimed by one job (KeyInv); and   *)
(* every job in its transaction has read revisions at least as new as      *)
(* those of each run committed before the transaction began (NewerInv).    *)
(***************************************************************************)
EXTENDS CandidatePool, FiniteSetTheorems, TLAPS

Transaction == {"read", "insert", "publish"}

(* What a job has read is there, and it has read everything in time. *)
ReadOK(w) ==
  /\ \A i \in DOMAIN w.revs : w.revs[i] <= Len(bars[i])
  /\ w.phase = "store" => w.universe \in Universes
  /\ w.phase \in Transaction \union {"begin", "done"} =>
       w.policy \in Policies /\ w.snapshot \in Universes
  /\ w.phase = "read" => DOMAIN w.revs \subseteq w.snapshot
  /\ w.phase \in {"insert", "publish", "done"} => DOMAIN w.revs = w.snapshot

ReadInv ==
  /\ \A j \in Jobs : ReadOK(job[j])
  /\ \A r \in runs : \A i \in r.snapshot : r.revs[i] <= Len(bars[i])

(* Stamps are in the past, and a run is committed after its transaction    *)
(* began.                                                                  *)
ClockInv ==
  /\ \A j \in Jobs : job[j].stamp <= now
  /\ \A r \in runs : r.created <= r.committed /\ r.committed <= now

(* The ranks of a run are those of the bars it rests on, as they are now. *)
RanksInv ==
  /\ \A r \in runs : r.ranks = Ranks(r.policy, Chosen(r.revs))
  /\ \A j \in Jobs : job[j].phase = "done" => job[j].run \in runs /\ SameKey(job[j].run, job[j])

KeyInv ==
  /\ \A j \in Jobs : job[j].phase = "publish" => KeyFree(j)
  /\ \A j, k \in Jobs :
       job[j].phase = "publish" /\ job[k].phase = "publish" /\ SameKey(job[j], job[k]) => j = k

NewerInv ==
  \A j \in Jobs, r \in runs :
    job[j].phase \in Transaction /\ r.committed < job[j].stamp =>
      \A i \in DOMAIN job[j].revs \intersect r.snapshot : r.revs[i] <= job[j].revs[i]

PoolInv == TypeOK /\ ReadInv /\ ClockInv /\ RanksInv /\ KeyInv /\ NewerInv /\ LaterRunIsNewer

-----------------------------------------------------------------------------
(* Revisions *)

(* A choice of revisions is a function on some instruments. *)
LEMMA RevsType ==
  ASSUME NEW f, f \in Revs
  PROVE  DOMAIN f \subseteq Instruments /\ f \in [DOMAIN f -> 0 .. MaxRevisions]
BY DEF Revs

LEMMA RevsIntro ==
  ASSUME NEW S, S \subseteq Instruments, NEW f \in [S -> 0 .. MaxRevisions]
  PROVE  f \in Revs
BY DEF Revs

(* Collect only appends: what was there stays. *)
LEMMA CollectGrows ==
  ASSUME PoolOK, bars \in [Instruments -> Seq(Contents)],
         NEW delivery \in Deliveries, Collect(delivery)
  PROVE  /\ bars' \in [Instruments -> Seq(Contents)]
         /\ \A i \in Instruments :
              /\ Len(bars[i]) <= Len(bars'[i])
              /\ \A n \in 1 .. Len(bars[i]) : bars'[i][n] = bars[i][n]
<1>1. PICK S \in SUBSET Instruments :
        bars' = [i \in Instruments |-> IF i \in S THEN Append(bars[i], delivery[i]) ELSE bars[i]]
  BY DEF Collect, Bars!Collect
<1>2. \A i \in Instruments : bars[i] \in Seq(Contents) /\ delivery[i] \in Contents
  BY DEF PoolOK
<1> QED
  BY <1>1, <1>2

LEMMA StillThere ==
  ASSUME PoolOK, bars \in [Instruments -> Seq(Contents)],
         NEW delivery \in Deliveries, Collect(delivery),
         NEW i \in Instruments, NEW n \in Nat, n <= Len(bars[i])
  PROVE  n <= Len(bars'[i])
<1>1. Len(bars[i]) \in Nat /\ Len(bars'[i]) \in Nat /\ Len(bars[i]) <= Len(bars'[i])
  BY CollectGrows
<1> QED
  BY <1>1

(* Revisions that are there stand for the same bars after any step. *)
LEMMA ChosenStable ==
  ASSUME PoolOK, bars \in [Instruments -> Seq(Contents)],
         NEW delivery \in Deliveries, Collect(delivery),
         NEW revs, DOMAIN revs \subseteq Instruments,
         revs \in [DOMAIN revs -> 0 .. MaxRevisions],
         \A i \in DOMAIN revs : revs[i] <= Len(bars[i])
  PROVE  Chosen(revs)' = Chosen(revs)
<1>1. \A i \in DOMAIN revs : revs[i] # 0 => revs[i] \in 1 .. Len(bars[i])
  BY DEF PoolOK
<1>2. \A i \in DOMAIN revs : revs[i] # 0 => bars'[i][revs[i]] = bars[i][revs[i]]
  BY <1>1, CollectGrows
<1> QED
  BY <1>2 DEF Chosen

-----------------------------------------------------------------------------
(* The type invariant *)

LEMMA RanksDomain ==
  ASSUME NEW p, NEW chosen
  PROVE  DOMAIN Ranks(p, chosen) = DOMAIN chosen
BY DEF Ranks

LEMMA ChosenDomain ==
  ASSUME NEW revs
  PROVE  DOMAIN Chosen(revs) = DOMAIN revs
BY DEF Chosen

LEMMA NothingRead == <<>> \in Revs
BY RevsIntro, {} \subseteq Instruments, <<>> \in [{} -> 0 .. MaxRevisions]

LEMMA IdleType == Idle \in Job
BY NothingRead DEF Idle, Job, Phases, Over

(* A step that changes neither bars nor runs keeps the other types. *)
LEMMA TypeKept ==
  ASSUME TypeOK, UNCHANGED <<bars, runs>>, job' \in [Jobs -> Job], now' \in Nat,
         snapshots' \subseteq [universe : Universes, created : Nat]
  PROVE  TypeOK'
BY DEF TypeOK, Job, RunOK, Revs

LEMMA TypeInit == ASSUME PoolOK, Init PROVE TypeOK
<1>1. <<>> \in Seq(Contents)
  OBVIOUS
<1> QED
  BY <1>1, IdleType DEF Init, TypeOK

LEMMA TypeStep ==
  ASSUME PoolOK, TypeOK, ReadInv, Next
  PROVE  TypeOK'
<1>1. CASE \E delivery \in Deliveries : Collect(delivery)
  BY <1>1, CollectGrows DEF TypeOK, Collect, RunOK, Job, Revs
<1>2. ASSUME NEW j \in Jobs, NEW u \in Universes, Configure(j, u)
      PROVE  TypeOK'
  <2>1. [Idle EXCEPT !.phase = "store", !.universe = u, !.stamp = now + 1] \in Job
    <3>1. now + 1 \in Nat
      BY DEF TypeOK
    <3> QED
      BY <3>1, IdleType DEF Job, Phases
  <2>2. job' \in [Jobs -> Job]
    BY <1>2, <2>1 DEF Configure, Become, TypeOK
  <2>3. now' \in Nat
    BY <1>2 DEF Configure, TypeOK
  <2>4. UNCHANGED <<bars, runs>> /\ snapshots' \subseteq [universe : Universes, created : Nat]
    BY <1>2 DEF Configure, TypeOK
  <2> QED
    BY <2>2, <2>3, <2>4, TypeKept
<1>3. ASSUME NEW j \in Jobs, Advance(j) \/ Die(j)
      PROVE  TypeOK'
  <2> DEFINE me == job[j]
  <2>0. me \in Job
    BY DEF TypeOK
  <2>1. ASSUME NEW r \in Job, Become(j, r), UNCHANGED <<bars, snapshots, runs>>, now' \in Nat
        PROVE  TypeOK'
    <3>1. job' \in [Jobs -> Job]
      BY <2>1 DEF Become, TypeOK
    <3> QED
      BY <2>1, <3>1, TypeKept DEF TypeOK
  <2>2. CASE Store(j)
    <3>1. [me EXCEPT !.phase = "choose"] \in Job
      BY <2>0 DEF Job, Phases
    <3>2. job' \in [Jobs -> Job]
      BY <2>2, <3>1 DEF Store, Goto, Become, TypeOK
    <3>3. me.universe \in Universes /\ me.stamp \in Nat
      BY <2>0, <2>2 DEF Store, ReadInv, ReadOK, Job
    <3>4. snapshots' \subseteq [universe : Universes, created : Nat]
      BY <2>2, <3>3 DEF Store, TypeOK
    <3> QED
      BY <2>2, <3>2, <3>4, TypeKept DEF Store, TypeOK
  <2>3. ASSUME NEW p \in Policies, Choose(j, p)
        PROVE  TypeOK'
    <3>1. PICK s \in snapshots :
            Become(j, [me EXCEPT !.phase = "begin", !.policy = p, !.snapshot = s.universe])
      BY <2>3 DEF Choose
    <3>2. [me EXCEPT !.phase = "begin", !.policy = p, !.snapshot = s.universe] \in Job
      BY <2>0 DEF Job, Phases, TypeOK
    <3> QED
      BY <2>1, <2>3, <3>1, <3>2 DEF Choose, TypeOK
  <2>4. CASE Begin(j)
    <3>1. [me EXCEPT !.phase = "read", !.stamp = now + 1, !.revs = <<>>] \in Job
      <4>1. now + 1 \in Nat
        BY DEF TypeOK
      <4> QED
        BY <2>0, <4>1, NothingRead DEF Job, Phases
    <3>2. now' \in Nat /\ UNCHANGED <<bars, snapshots, runs>>
      BY <2>4 DEF Begin, TypeOK
    <3>3. Become(j, [me EXCEPT !.phase = "read", !.stamp = now + 1, !.revs = <<>>])
      BY <2>4 DEF Begin
    <3> QED
      BY <2>1, <3>1, <3>2, <3>3
  <2>5. ASSUME NEW i \in Instruments, Read(j, i)
        PROVE  TypeOK'
    <3>1. PICK rev \in 0 .. MaxRevisions :
            Become(j, [me EXCEPT !.revs =
              [k \in DOMAIN me.revs \union {i} |-> IF k = i THEN rev ELSE me.revs[k]]])
      BY <2>5 DEF Read
    <3> DEFINE f == [k \in DOMAIN me.revs \union {i} |-> IF k = i THEN rev ELSE me.revs[k]]
    <3>2. me.revs \in Revs
      BY <2>0 DEF Job
    <3>3. f \in [DOMAIN me.revs \union {i} -> 0 .. MaxRevisions]
      BY <3>2, RevsType
    <3>4. f \in Revs
      BY <3>2, <3>3, RevsType, RevsIntro
    <3>5. [me EXCEPT !.revs = f] \in Job
      BY <2>0, <3>4 DEF Job
    <3> QED
      BY <2>1, <2>5, <3>1, <3>5 DEF Read, TypeOK
  <2>6. CASE FindExisting(j)
    <3>1. PICK r \in runs : Become(j, [me EXCEPT !.phase = "done", !.run = r])
      BY <2>6 DEF FindExisting
    <3>2. [me EXCEPT !.phase = "done", !.run = r] \in Job
      BY <2>0 DEF Job, Phases, Over
    <3> QED
      BY <2>1, <2>6, <3>1, <3>2 DEF FindExisting, TypeOK
  <2>7. CASE FindNone(j)
    <3>1. [me EXCEPT !.phase = "insert"] \in Job
      BY <2>0 DEF Job, Phases
    <3> QED
      BY <2>1, <2>7, <3>1 DEF FindNone, Goto, TypeOK
  <2>8. CASE Insert(j)
    <3>1. \A p \in {"publish", "failed"} : [me EXCEPT !.phase = p] \in Job
      BY <2>0 DEF Job, Phases, Over
    <3>2. PICK p \in {"publish", "failed"} : Become(j, [me EXCEPT !.phase = p])
      BY <2>8 DEF Insert, Goto
    <3> QED
      BY <2>1, <2>8, <3>1, <3>2 DEF Insert, TypeOK
  <2>9. CASE Publish(j)
    <3> DEFINE run == [policy |-> me.policy, snapshot |-> me.snapshot, revs |-> me.revs,
                       ranks |-> Ranks(me.policy, Chosen(me.revs)),
                       created |-> me.stamp, committed |-> now + 1]
    <3>1. runs' = runs \union {run} /\ Become(j, [me EXCEPT !.phase = "done", !.run = run])
      BY <2>9 DEF Publish
    <3>2. me.policy \in Policies /\ me.snapshot \in Universes /\ DOMAIN me.revs = me.snapshot
      BY <2>9 DEF Publish, ReadInv, ReadOK, Transaction
    <3>3. me.revs \in [me.snapshot -> 0 .. MaxRevisions] /\ me.stamp \in Nat
      BY <2>0, <3>2, RevsType DEF Job
    <3>4. DOMAIN run.ranks = run.snapshot
      BY <3>2, RanksDomain, ChosenDomain
    <3>5. RunOK(run)
      BY <3>2, <3>3, <3>4 DEF RunOK, TypeOK
    <3>6. job' \in [Jobs -> Job']
      <4>1. [me EXCEPT !.phase = "done", !.run = run] \in Job'
        BY <2>0, <3>1 DEF Job, Phases, Over, Revs
      <4>2. Job \subseteq Job'
        BY <3>1 DEF Job, Revs
      <4> QED
        BY <3>1, <4>1, <4>2 DEF Become, TypeOK
    <3>7. \A r \in runs' : RunOK(r)
      BY <3>1, <3>5 DEF TypeOK
    <3> HIDE DEF run
    <3> QED
      BY <2>9, <3>6, <3>7 DEF Publish, TypeOK, RunOK
  <2>10. CASE Die(j)
    <3>1. [me EXCEPT !.phase = "dead"] \in Job
      BY <2>0 DEF Job, Phases, Over
    <3> QED
      BY <2>1, <2>10, <3>1 DEF Die, Goto, TypeOK
  <2> QED
    BY <1>3, <2>2, <2>3, <2>4, <2>5, <2>6, <2>7, <2>8, <2>9, <2>10 DEF Advance
<1> QED
  BY <1>1, <1>2, <1>3 DEF Next

-----------------------------------------------------------------------------
(* The strengthening *)

(* The six actions that only move a job on: they change neither the bars   *)
(* nor the runs.                                                           *)
Quiet(j) ==
  \/ \E u \in Universes : Configure(j, u)
  \/ Store(j) \/ \E p \in Policies : Choose(j, p)
  \/ Begin(j) \/ FindNone(j) \/ Insert(j) \/ Die(j)

LEMMA NextCases ==
  ASSUME Next
  PROVE  \/ \E delivery \in Deliveries : Collect(delivery)
         \/ \E j \in Jobs : \/ Quiet(j) \/ \E i \in Instruments : Read(j, i)
                            \/ FindExisting(j) \/ Publish(j)
BY DEF Next, Advance, Quiet

(* A job leaves the others as they are. *)
LEMMA Others ==
  ASSUME job \in [Jobs -> Job], NEW j \in Jobs, NEW r, Become(j, r)
  PROVE  job'[j] = r /\ \A k \in Jobs : k # j => job'[k] = job[k]
BY DEF Become

LEMMA ReadStep ==
  ASSUME PoolOK, TypeOK, ReadInv, Next
  PROVE  ReadInv'
<1>1. ASSUME NEW delivery \in Deliveries, Collect(delivery)
      PROVE  ReadInv'
  <2>1. \A i \in Instruments, n \in Nat : n <= Len(bars[i]) => n <= Len(bars'[i])
    BY <1>1, StillThere DEF TypeOK
  <2>2. \A j \in Jobs : job[j].revs \in Revs
    BY DEF TypeOK, Job
  <2>3. ASSUME NEW j \in Jobs
        PROVE  ReadOK(job[j])'
    <3>1. \A i \in DOMAIN job[j].revs : i \in Instruments /\ job[j].revs[i] \in Nat
      BY <2>2, RevsType DEF PoolOK
    <3>2. ReadOK(job[j])
      BY DEF ReadInv
    <3>3. \A i \in DOMAIN job[j].revs : job[j].revs[i] <= Len(bars[i])
      BY <3>2 DEF ReadOK
    <3>4. \A i \in DOMAIN job[j].revs : job[j].revs[i] <= Len(bars'[i])
      BY <2>1, <3>1, <3>3
    <3>5. job' = job
      BY <1>1 DEF Collect
    <3> QED
      BY <3>2, <3>4, <3>5 DEF ReadOK
  <2>4. ASSUME NEW r \in runs
        PROVE  \A i \in r.snapshot : r.revs[i] <= Len(bars'[i])
    <3>1. \A i \in r.snapshot : i \in Instruments /\ r.revs[i] \in Nat
      <4>1. r.snapshot \in Universes /\ r.revs \in [r.snapshot -> 0 .. MaxRevisions]
        BY DEF TypeOK, RunOK
      <4>2. r.snapshot \subseteq Instruments
        BY <4>1 DEF PoolOK
      <4> QED
        BY <4>1, <4>2 DEF PoolOK
    <3>2. \A i \in r.snapshot : r.revs[i] <= Len(bars[i])
      BY DEF ReadInv
    <3> QED
      BY <2>1, <3>1, <3>2
  <2> QED
    BY <1>1, <2>3, <2>4 DEF ReadInv, Collect
<1>2. ASSUME NEW j \in Jobs, NEW w, Become(j, w), ReadOK(w), UNCHANGED <<bars, runs>>
      PROVE  ReadInv'
  <2>1. \A k \in Jobs : ReadOK(job'[k])
    BY <1>2, Others DEF ReadInv, TypeOK
  <2> QED
    BY <1>2, <2>1 DEF ReadInv, ReadOK
<1>3. ASSUME NEW j \in Jobs, Quiet(j)
      PROVE  ReadInv'
  <2> DEFINE me == job[j]
  <2>0. ReadOK(me) /\ me \in Job
    BY DEF ReadInv, TypeOK
  <2>1. ASSUME NEW u \in Universes, Configure(j, u)
        PROVE  ReadInv'
    <3>1. ReadOK([Idle EXCEPT !.phase = "store", !.universe = u, !.stamp = now + 1])
      BY DEF ReadOK, Idle, Transaction
    <3> QED
      BY <1>2, <2>1, <3>1 DEF Configure
  <2>2. CASE Store(j)
    <3>1. ReadOK([me EXCEPT !.phase = "choose"])
      BY <2>0 DEF ReadOK, Job, Transaction
    <3> QED
      BY <1>2, <2>2, <3>1 DEF Store, Goto
  <2>3. ASSUME NEW p \in Policies, Choose(j, p)
        PROVE  ReadInv'
    <3>1. PICK s \in snapshots :
            Become(j, [me EXCEPT !.phase = "begin", !.policy = p, !.snapshot = s.universe])
      BY <2>3 DEF Choose
    <3>2. ReadOK([me EXCEPT !.phase = "begin", !.policy = p, !.snapshot = s.universe])
      BY <2>0 DEF ReadOK, Job, Transaction, TypeOK
    <3> QED
      BY <1>2, <2>3, <3>1, <3>2 DEF Choose
  <2>4. CASE Begin(j)
    <3>1. ReadOK([me EXCEPT !.phase = "read", !.stamp = now + 1, !.revs = <<>>])
      BY <2>0, <2>4 DEF Begin, ReadOK, Job, Transaction
    <3> QED
      BY <1>2, <2>4, <3>1 DEF Begin
  <2>5. CASE FindNone(j)
    <3>1. ReadOK([me EXCEPT !.phase = "insert"])
      BY <2>0, <2>5 DEF FindNone, Unread, ReadOK, Job, Transaction
    <3> QED
      BY <1>2, <2>5, <3>1 DEF FindNone, Goto
  <2>6. CASE Insert(j)
    <3>1. \A p \in {"publish", "failed"} : ReadOK([me EXCEPT !.phase = p])
      BY <2>0, <2>6 DEF Insert, ReadOK, Job, Transaction
    <3>2. PICK p \in {"publish", "failed"} : Become(j, [me EXCEPT !.phase = p])
      BY <2>6 DEF Insert, Goto
    <3> QED
      BY <1>2, <2>6, <3>1, <3>2 DEF Insert
  <2>7. CASE Die(j)
    <3>1. ReadOK([me EXCEPT !.phase = "dead"])
      BY <2>0 DEF ReadOK, Job, Transaction
    <3> QED
      BY <1>2, <2>7, <3>1 DEF Die, Goto
  <2> QED
    BY <1>3, <2>1, <2>2, <2>3, <2>4, <2>5, <2>6, <2>7 DEF Quiet
<1>4. ASSUME NEW j \in Jobs, NEW i \in Instruments, Read(j, i)
      PROVE  ReadInv'
  <2> DEFINE me == job[j]
             f  == [k \in DOMAIN me.revs \union {i} |-> IF k = i THEN Len(bars[i]) ELSE me.revs[k]]
  <2>1. Become(j, [me EXCEPT !.revs = f]) /\ me.phase = "read" /\ i \in me.snapshot
    BY <1>4 DEF Read, LatestRevision, Unread
  <2>2. me \in Job /\ ReadOK(me)
    BY DEF ReadInv, TypeOK
  <2>3. \A k \in DOMAIN f : f[k] <= Len(bars[k])
    <3>1. Len(bars[i]) \in Nat
      BY DEF TypeOK
    <3> QED
      BY <2>2, <3>1 DEF ReadOK
  <2>4. ReadOK([me EXCEPT !.revs = f])
    BY <2>1, <2>2, <2>3 DEF ReadOK, Job, Transaction
  <2> QED
    BY <1>2, <1>4, <2>1, <2>4 DEF Read
<1>5. ASSUME NEW j \in Jobs, FindExisting(j)
      PROVE  ReadInv'
  <2> DEFINE me == job[j]
  <2>1. PICK r \in runs : Become(j, [me EXCEPT !.phase = "done", !.run = r])
    BY <1>5 DEF FindExisting
  <2>2. me \in Job /\ ReadOK(me) /\ me.phase = "read" /\ me.snapshot \ DOMAIN me.revs = {}
    BY <1>5 DEF FindExisting, Unread, ReadInv, TypeOK
  <2>3. DOMAIN me.revs = me.snapshot
    BY <2>2 DEF ReadOK
  <2>4. ReadOK([me EXCEPT !.phase = "done", !.run = r])
    BY <2>2, <2>3 DEF ReadOK, Job, Transaction
  <2> QED
    BY <1>2, <1>5, <2>1, <2>4 DEF FindExisting
<1>6. ASSUME NEW j \in Jobs, Publish(j)
      PROVE  ReadInv'
  <2> DEFINE me  == job[j]
             run == [policy |-> me.policy, snapshot |-> me.snapshot, revs |-> me.revs,
                     ranks |-> Ranks(me.policy, Chosen(me.revs)),
                     created |-> me.stamp, committed |-> now + 1]
  <2>1. /\ runs' = runs \union {run}
        /\ Become(j, [me EXCEPT !.phase = "done", !.run = run])
        /\ bars' = bars /\ me.phase = "publish"
    BY <1>6 DEF Publish
  <2>2. run.snapshot = me.snapshot /\ run.revs = me.revs
    OBVIOUS
  <2> HIDE DEF run
  <2>3. ReadOK(me) /\ me \in Job
    BY DEF ReadInv, TypeOK
  <2>4. ReadOK([me EXCEPT !.phase = "done", !.run = run])
    BY <2>1, <2>3 DEF ReadOK, Job, Transaction
  <2>5. \A k \in Jobs : ReadOK(job'[k])
    BY <2>1, <2>4, Others DEF ReadInv, TypeOK
  <2>6. \A i \in run.snapshot : run.revs[i] <= Len(bars[i])
    BY <2>1, <2>2, <2>3 DEF ReadOK
  <2> QED
    BY <2>1, <2>5, <2>6 DEF ReadInv, ReadOK
<1> QED
  BY <1>1, <1>3, <1>4, <1>5, <1>6, NextCases

(* What the quiet steps have in common: none completes a job, only Begin   *)
(* opens a transaction, with nothing read, and Insert claims a free key.   *)
QuietMove(j, w) ==
  /\ Become(j, w) /\ UNCHANGED <<bars, runs>>
  /\ now' \in {now, now + 1} /\ w.stamp \in {job[j].stamp, now'}
  /\ w.phase # "done"
  /\ w.phase \in Transaction =>
       \/ w.revs = <<>>
       \/ /\ job[j].phase \in Transaction
          /\ w.stamp = job[j].stamp /\ w.revs = job[j].revs
  /\ w.phase = "publish" =>
       /\ SameKey(w, job[j])
       /\ KeyFree(j)
       /\ \A k \in Jobs \ {j} : ~(job[k].phase = "publish" /\ SameKey(job[k], job[j]))

LEMMA QuietMoves ==
  ASSUME TypeOK, NEW j \in Jobs, Quiet(j)
  PROVE  \E w : QuietMove(j, w)
<1> DEFINE me == job[j]
<1>0. me \in Job
  BY DEF TypeOK
<1>1. ASSUME NEW u \in Universes, Configure(j, u)
      PROVE  \E w : QuietMove(j, w)
  <2> DEFINE w == [Idle EXCEPT !.phase = "store", !.universe = u, !.stamp = now + 1]
  <2>1. w.phase = "store" /\ w.stamp = now + 1
    BY DEF Idle
  <2>2. Become(j, w) /\ UNCHANGED <<bars, runs>> /\ now' = now + 1
    BY <1>1 DEF Configure
  <2> HIDE DEF w
  <2> QED
    BY <2>1, <2>2 DEF QuietMove, Transaction
<1>3. CASE Store(j)
  <2> DEFINE w == [me EXCEPT !.phase = "choose"]
  <2>1. w.phase = "choose" /\ w.stamp = me.stamp
    BY <1>0 DEF Job
  <2>2. Become(j, w) /\ UNCHANGED <<bars, runs, now>>
    BY <1>3 DEF Store, Goto
  <2> HIDE DEF w
  <2> QED
    BY <2>1, <2>2 DEF QuietMove, Transaction
<1>4. ASSUME NEW p \in Policies, Choose(j, p)
      PROVE  \E w : QuietMove(j, w)
  <2>1. PICK s \in snapshots :
          Become(j, [me EXCEPT !.phase = "begin", !.policy = p, !.snapshot = s.universe])
    BY <1>4 DEF Choose
  <2> DEFINE w == [me EXCEPT !.phase = "begin", !.policy = p, !.snapshot = s.universe]
  <2>2. w.phase = "begin" /\ w.stamp = me.stamp
    BY <1>0 DEF Job
  <2>3. Become(j, w) /\ UNCHANGED <<bars, runs, now>>
    BY <1>4, <2>1 DEF Choose
  <2> HIDE DEF w
  <2> QED
    BY <2>2, <2>3 DEF QuietMove, Transaction
<1>5. CASE Begin(j)
  <2> DEFINE w == [me EXCEPT !.phase = "read", !.stamp = now + 1, !.revs = <<>>]
  <2>1. w.phase = "read" /\ w.stamp = now + 1 /\ w.revs = <<>>
    BY <1>0 DEF Job
  <2>2. Become(j, w) /\ UNCHANGED <<bars, runs>> /\ now' = now + 1
    BY <1>5 DEF Begin
  <2> HIDE DEF w
  <2> QED
    BY <2>1, <2>2 DEF QuietMove
<1>6. CASE FindNone(j)
  <2> DEFINE w == [me EXCEPT !.phase = "insert"]
  <2>1. w.phase = "insert" /\ w.stamp = me.stamp /\ w.revs = me.revs
    BY <1>0 DEF Job
  <2>2. Become(j, w) /\ UNCHANGED <<bars, runs, now>> /\ me.phase = "read"
    BY <1>6 DEF FindNone, Goto
  <2> HIDE DEF w
  <2> QED
    BY <2>1, <2>2 DEF QuietMove, Transaction
<1>7. CASE Insert(j)
  <2> DEFINE w == [me EXCEPT !.phase = IF KeyFree(j) THEN "publish" ELSE "failed"]
  <2>1. w.phase = (IF KeyFree(j) THEN "publish" ELSE "failed")
        /\ w.stamp = me.stamp /\ SameKey(w, me)
    BY <1>0 DEF Job, SameKey
  <2>2. /\ Become(j, w) /\ UNCHANGED <<bars, runs, now>> /\ me.phase = "insert"
        /\ \A k \in Jobs \ {j} : ~(job[k].phase = "publish" /\ SameKey(job[k], me))
    BY <1>7 DEF Insert, Goto
  <2> HIDE DEF w
  <2>3. w.revs = me.revs
    BY <2>1 DEF SameKey
  <2> QED
    BY <2>1, <2>2, <2>3 DEF QuietMove, Transaction
<1>8. CASE Die(j)
  <2> DEFINE w == [me EXCEPT !.phase = "dead"]
  <2>1. w.phase = "dead" /\ w.stamp = me.stamp
    BY <1>0 DEF Job
  <2>2. Become(j, w) /\ UNCHANGED <<bars, runs, now>>
    BY <1>8 DEF Die, Goto
  <2> HIDE DEF w
  <2> QED
    BY <2>1, <2>2 DEF QuietMove, Transaction
<1> QED
  BY <1>1, <1>3, <1>4, <1>5, <1>6, <1>7, <1>8 DEF Quiet

(* The run a job publishes. *)
NewRun(me) ==
  [policy |-> me.policy, snapshot |-> me.snapshot, revs |-> me.revs,
   ranks |-> Ranks(me.policy, Chosen(me.revs)), created |-> me.stamp, committed |-> now + 1]

LEMMA PublishMoves ==
  ASSUME TypeOK, NEW j \in Jobs, Publish(j)
  PROVE  /\ job[j].phase = "publish"
         /\ bars' = bars /\ now' = now + 1 /\ runs' = runs \union {NewRun(job[j])}
         /\ Become(j, [job[j] EXCEPT !.phase = "done", !.run = NewRun(job[j])])
BY DEF Publish, NewRun

LEMMA ReadMoves ==
  ASSUME TypeOK, NEW j \in Jobs, NEW i \in Instruments, Read(j, i)
  PROVE  /\ job[j].phase = "read" /\ UNCHANGED <<bars, runs, now>>
         /\ Become(j, [job[j] EXCEPT !.revs =
              [k \in DOMAIN job[j].revs \union {i} |->
                 IF k = i THEN Len(bars[i]) ELSE job[j].revs[k]]])
BY DEF Read, LatestRevision

LEMMA FindMoves ==
  ASSUME TypeOK, NEW j \in Jobs, FindExisting(j)
  PROVE  /\ UNCHANGED <<bars, runs, now>>
         /\ \E r \in runs : SameKey(r, job[j])
                            /\ Become(j, [job[j] EXCEPT !.phase = "done", !.run = r])
BY DEF FindExisting

LEMMA ClockStep ==
  ASSUME TypeOK, ClockInv, Next
  PROVE  ClockInv'
<1> now \in Nat /\ (\A k \in Jobs : job[k] \in Job) /\ \A r \in runs : RunOK(r)
  BY DEF TypeOK
<1>0. \A k \in Jobs : job[k].stamp \in Nat
  BY DEF Job
<1>1. ASSUME NEW delivery \in Deliveries, Collect(delivery)
      PROVE  ClockInv'
  BY <1>1 DEF Collect, ClockInv
<1>2. ASSUME NEW j \in Jobs, NEW w, Become(j, w), w.stamp \in {job[j].stamp, now'},
             now' \in {now, now + 1}, runs' = runs
      PROVE  ClockInv'
  <2>1. \A k \in Jobs : job'[k].stamp <= now'
    BY <1>0, <1>2, Others DEF TypeOK, ClockInv
  <2>2. \A r \in runs : r.created <= r.committed /\ r.committed <= now'
    BY <1>2 DEF ClockInv, RunOK
  <2> QED
    BY <1>2, <2>1, <2>2 DEF ClockInv
<1>3. ASSUME NEW j \in Jobs, Quiet(j)
      PROVE  ClockInv'
  BY <1>2, <1>3, QuietMoves DEF QuietMove
<1>4. ASSUME NEW j \in Jobs, NEW i \in Instruments, Read(j, i)
      PROVE  ClockInv'
  BY <1>2, <1>4, ReadMoves DEF Job
<1>5. ASSUME NEW j \in Jobs, FindExisting(j)
      PROVE  ClockInv'
  <2>1. PICK r \in runs : Become(j, [job[j] EXCEPT !.phase = "done", !.run = r])
    BY <1>5, FindMoves
  <2> QED
    BY <1>2, <1>5, <2>1, FindMoves DEF Job
<1>6. ASSUME NEW j \in Jobs, Publish(j)
      PROVE  ClockInv'
  <2> DEFINE new == NewRun(job[j])
             w   == [job[j] EXCEPT !.phase = "done", !.run = new]
  <2>1. Become(j, w) /\ now' = now + 1 /\ runs' = runs \union {new}
    BY <1>6, PublishMoves
  <2>2. new.created = job[j].stamp /\ new.committed = now + 1
    BY DEF NewRun
  <2> HIDE DEF new
  <2>3. w.stamp = job[j].stamp
    BY DEF Job
  <2> HIDE DEF w
  <2>4. \A k \in Jobs : job'[k].stamp <= now'
    BY <1>0, <2>1, <2>3, Others DEF TypeOK, ClockInv
  <2>5. new.created <= new.committed /\ new.committed <= now'
    BY <1>0, <2>1, <2>2 DEF ClockInv
  <2>6. \A r \in runs : r.created <= r.committed /\ r.committed <= now'
    BY <2>1 DEF ClockInv, RunOK
  <2> QED
    BY <2>1, <2>4, <2>5, <2>6 DEF ClockInv
<1> QED
  BY <1>1, <1>3, <1>4, <1>5, <1>6, NextCases

LEMMA RanksStep ==
  ASSUME PoolOK, TypeOK, ReadInv, RanksInv, Next
  PROVE  RanksInv'
<1>1. ASSUME NEW delivery \in Deliveries, Collect(delivery)
      PROVE  RanksInv'
  <2>1. ASSUME NEW r \in runs
        PROVE  Chosen(r.revs)' = Chosen(r.revs)
    <3>1. PICK f : f = r.revs
      OBVIOUS
    <3>2. r.snapshot \in Universes /\ f \in [r.snapshot -> 0 .. MaxRevisions]
      BY <3>1 DEF TypeOK, RunOK
    <3>3. DOMAIN f = r.snapshot /\ DOMAIN f \subseteq Instruments
      BY <3>2 DEF PoolOK
    <3>4. \A i \in DOMAIN f : f[i] <= Len(bars[i])
      BY <3>1, <3>3 DEF ReadInv
    <3>5. Chosen(f)' = Chosen(f)
      BY <1>1, <3>2, <3>3, <3>4, ChosenStable DEF TypeOK
    <3> QED
      BY <3>1, <3>5
  <2> QED
    BY <1>1, <2>1 DEF Collect, RanksInv, SameKey
<1>2. ASSUME bars' = bars
      PROVE  \A revs : Chosen(revs)' = Chosen(revs)
  BY <1>2 DEF Chosen
<1>3. ASSUME NEW j \in Jobs, NEW w, Become(j, w), UNCHANGED <<bars, runs>>,
             w.phase = "done" => w.run \in runs /\ SameKey(w.run, w)
      PROVE  RanksInv'
  <2>1. \A r \in runs : r.ranks = Ranks(r.policy, Chosen(r.revs)')
    BY <1>2, <1>3 DEF RanksInv
  <2>2. \A k \in Jobs : job'[k].phase = "done" => job'[k].run \in runs /\ SameKey(job'[k].run, job'[k])
    BY <1>3, Others DEF TypeOK, RanksInv
  <2> QED
    BY <1>3, <2>1, <2>2 DEF RanksInv, SameKey
<1>4. ASSUME NEW j \in Jobs, Quiet(j)
      PROVE  RanksInv'
  BY <1>3, <1>4, QuietMoves DEF QuietMove
<1>5. ASSUME NEW j \in Jobs, NEW i \in Instruments, Read(j, i)
      PROVE  RanksInv'
  <2> DEFINE f == [k \in DOMAIN job[j].revs \union {i} |->
                     IF k = i THEN Len(bars[i]) ELSE job[j].revs[k]]
             w == [job[j] EXCEPT !.revs = f]
  <2>1. Become(j, w) /\ UNCHANGED <<bars, runs>> /\ job[j].phase = "read"
    BY <1>5, ReadMoves
  <2>2. w.phase = "read"
    BY <2>1 DEF TypeOK, Job
  <2> HIDE DEF w
  <2> QED
    BY <1>3, <2>1, <2>2
<1>6. ASSUME NEW j \in Jobs, FindExisting(j)
      PROVE  RanksInv'
  <2>1. PICK r \in runs : SameKey(r, job[j])
                          /\ Become(j, [job[j] EXCEPT !.phase = "done", !.run = r])
    BY <1>6, FindMoves
  <2> DEFINE w == [job[j] EXCEPT !.phase = "done", !.run = r]
  <2>2. job[j] \in Job
    BY DEF TypeOK
  <2>3. w.run = r /\ SameKey(r, w)
    BY <2>1, <2>2 DEF Job, SameKey
  <2>4. Become(j, w) /\ UNCHANGED <<bars, runs>>
    BY <1>6, <2>1, FindMoves
  <2> HIDE DEF w
  <2> QED
    BY <1>3, <2>3, <2>4
<1>7. ASSUME NEW j \in Jobs, Publish(j)
      PROVE  RanksInv'
  <2> DEFINE new == NewRun(job[j])
             w   == [job[j] EXCEPT !.phase = "done", !.run = new]
  <2>1. Become(j, w) /\ bars' = bars /\ runs' = runs \union {new}
    BY <1>7, PublishMoves
  <2>2. new.ranks = Ranks(new.policy, Chosen(new.revs)) /\ SameKey(new, job[j])
    BY DEF NewRun, SameKey
  <2> HIDE DEF new
  <2>3. job[j] \in Job
    BY DEF TypeOK
  <2>4. w.run = new /\ SameKey(w.run, w)
    BY <2>2, <2>3 DEF SameKey, Job
  <2> HIDE DEF w
  <2>5. \A r \in runs' : r.ranks = Ranks(r.policy, Chosen(r.revs)')
    BY <1>2, <2>1, <2>2 DEF RanksInv
  <2>6. \A k \in Jobs : job'[k].phase = "done" =>
          job'[k].run \in runs' /\ SameKey(job'[k].run, job'[k])
    BY <2>1, <2>4, Others DEF TypeOK, RanksInv
  <2> QED
    BY <2>5, <2>6 DEF RanksInv, SameKey
<1> QED
  BY <1>1, <1>4, <1>5, <1>6, <1>7, NextCases

LEMMA KeyStep ==
  ASSUME TypeOK, KeyInv, Next
  PROVE  KeyInv'
<1> USE DEF KeyFree
<1>1. ASSUME NEW delivery \in Deliveries, Collect(delivery)
      PROVE  KeyInv'
  BY <1>1 DEF Collect, KeyInv, SameKey
<1>2. ASSUME NEW j \in Jobs, NEW w, Become(j, w), w.phase # "publish", runs' = runs
      PROVE  KeyInv'
  <2>1. \A k \in Jobs : job'[k].phase = "publish" => k # j /\ job'[k] = job[k]
    BY <1>2, Others DEF TypeOK
  <2> QED
    BY <1>2, <2>1 DEF KeyInv, SameKey
<1>3. ASSUME NEW j \in Jobs, Quiet(j)
      PROVE  KeyInv'
  <2>1. PICK w : QuietMove(j, w)
    BY <1>3, QuietMoves
  <2>2. CASE w.phase # "publish"
    BY <1>2, <2>1, <2>2 DEF QuietMove
  <2>3. CASE w.phase = "publish"
    <3>1. /\ Become(j, w) /\ runs' = runs /\ SameKey(w, job[j])
          /\ \A r \in runs : ~SameKey(r, job[j])
          /\ \A k \in Jobs \ {j} : ~(job[k].phase = "publish" /\ SameKey(job[k], job[j]))
      BY <2>1, <2>3 DEF QuietMove
    <3>2. job'[j] = w /\ \A k \in Jobs : k # j => job'[k] = job[k]
      BY <3>1, Others DEF TypeOK
    <3>3. \A r \in runs : ~SameKey(r, w)
      BY <3>1 DEF SameKey
    <3>4. \A k \in Jobs : job'[k].phase = "publish" => \A r \in runs' : ~SameKey(r, job'[k])
      BY <3>1, <3>2, <3>3 DEF KeyInv
    <3>5. \A k, l \in Jobs :
            job'[k].phase = "publish" /\ job'[l].phase = "publish" /\ SameKey(job'[k], job'[l])
              => k = l
      BY <3>1, <3>2 DEF KeyInv, SameKey
    <3> QED
      BY <3>4, <3>5 DEF KeyInv, SameKey
  <2> QED
    BY <2>2, <2>3
<1>4. ASSUME NEW j \in Jobs, NEW i \in Instruments, Read(j, i)
      PROVE  KeyInv'
  <2> DEFINE f == [k \in DOMAIN job[j].revs \union {i} |->
                     IF k = i THEN Len(bars[i]) ELSE job[j].revs[k]]
             w == [job[j] EXCEPT !.revs = f]
  <2>1. Become(j, w) /\ runs' = runs /\ job[j].phase = "read"
    BY <1>4, ReadMoves
  <2>2. w.phase = "read"
    BY <2>1 DEF TypeOK, Job
  <2> HIDE DEF w
  <2> QED
    BY <1>2, <2>1, <2>2
<1>5. ASSUME NEW j \in Jobs, FindExisting(j)
      PROVE  KeyInv'
  <2>1. PICK r \in runs : Become(j, [job[j] EXCEPT !.phase = "done", !.run = r])
    BY <1>5, FindMoves
  <2> DEFINE w == [job[j] EXCEPT !.phase = "done", !.run = r]
  <2>2. Become(j, w) /\ runs' = runs /\ w.phase = "done"
    BY <1>5, <2>1, FindMoves DEF TypeOK, Job
  <2> HIDE DEF w
  <2> QED
    BY <1>2, <2>2
<1>6. ASSUME NEW j \in Jobs, Publish(j)
      PROVE  KeyInv'
  <2> DEFINE new == NewRun(job[j])
             w   == [job[j] EXCEPT !.phase = "done", !.run = new]
  <2>1. Become(j, w) /\ runs' = runs \union {new} /\ job[j].phase = "publish"
    BY <1>6, PublishMoves
  <2>2. SameKey(new, job[j])
    BY DEF NewRun, SameKey
  <2>3. w.phase = "done"
    BY DEF TypeOK, Job
  <2> HIDE DEF new, w
  <2>4. \A k \in Jobs : job'[k].phase = "publish" => k # j /\ job'[k] = job[k]
    BY <2>1, <2>3, Others DEF TypeOK
  <2>5. \A k \in Jobs : job'[k].phase = "publish" => ~SameKey(new, job[k])
    BY <2>1, <2>2, <2>4 DEF KeyInv, SameKey
  <2> QED
    BY <2>1, <2>4, <2>5 DEF KeyInv, SameKey
<1> QED
  BY <1>1, <1>3, <1>4, <1>5, <1>6, NextCases

(* What NewerInv says of one job. *)
Newer(w) ==
  \A r \in runs :
    w.phase \in Transaction /\ r.committed < w.stamp =>
      \A i \in DOMAIN w.revs \intersect r.snapshot : r.revs[i] <= w.revs[i]

LEMMA NewerStep ==
  ASSUME TypeOK, ReadInv, ClockInv, NewerInv, Next
  PROVE  NewerInv'
<1>0. \A k \in Jobs : Newer(job[k])
  BY DEF NewerInv, Newer
<1>1. ASSUME NEW delivery \in Deliveries, Collect(delivery)
      PROVE  NewerInv'
  BY <1>1 DEF Collect, NewerInv
<1>2. ASSUME NEW j \in Jobs, NEW w, Become(j, w), Newer(w), runs' = runs
      PROVE  NewerInv'
  <2>1. \A k \in Jobs : Newer(job'[k])
    BY <1>0, <1>2, Others DEF TypeOK
  <2> QED
    BY <1>2, <2>1 DEF NewerInv, Newer
<1>3. ASSUME NEW j \in Jobs, Quiet(j)
      PROVE  NewerInv'
  <2>1. PICK w : QuietMove(j, w)
    BY <1>3, QuietMoves
  <2>2. Newer(w)
    <3>1. CASE w.phase \notin Transaction
      BY <3>1 DEF Newer
    <3>2. CASE w.revs = <<>>
      BY <3>2 DEF Newer
    <3>3. CASE job[j].phase \in Transaction /\ w.stamp = job[j].stamp /\ w.revs = job[j].revs
      BY <1>0, <3>3 DEF Newer
    <3> QED
      BY <2>1, <3>1, <3>2, <3>3 DEF QuietMove
  <2> QED
    BY <1>2, <2>1, <2>2 DEF QuietMove
<1>4. ASSUME NEW j \in Jobs, NEW i \in Instruments, Read(j, i)
      PROVE  NewerInv'
  <2> DEFINE f == [k \in DOMAIN job[j].revs \union {i} |->
                     IF k = i THEN Len(bars[i]) ELSE job[j].revs[k]]
             w == [job[j] EXCEPT !.revs = f]
  <2>1. Become(j, w) /\ runs' = runs /\ job[j].phase = "read"
    BY <1>4, ReadMoves
  <2>2. w.phase = "read" /\ w.stamp = job[j].stamp /\ w.revs = f
    BY <2>1 DEF TypeOK, Job
  <2>3. DOMAIN f = DOMAIN job[j].revs \union {i} /\ f[i] = Len(bars[i])
        /\ \A k \in DOMAIN job[j].revs \ {i} : f[k] = job[j].revs[k]
    OBVIOUS
  <2> HIDE DEF f, w
  <2>4. ASSUME NEW r \in runs, r.committed < w.stamp, NEW k \in DOMAIN f \intersect r.snapshot
        PROVE  r.revs[k] <= f[k]
    <3>1. CASE k = i
      BY <2>3, <2>4, <3>1 DEF ReadInv
    <3>2. CASE k # i
      BY <1>0, <2>1, <2>2, <2>3, <2>4, <3>2 DEF Newer, Transaction
    <3> QED
      BY <3>1, <3>2
  <2>5. Newer(w)
    BY <2>2, <2>4 DEF Newer
  <2> QED
    BY <1>2, <2>1, <2>5
<1>5. ASSUME NEW j \in Jobs, FindExisting(j)
      PROVE  NewerInv'
  <2>1. PICK r \in runs : Become(j, [job[j] EXCEPT !.phase = "done", !.run = r])
    BY <1>5, FindMoves
  <2> DEFINE w == [job[j] EXCEPT !.phase = "done", !.run = r]
  <2>2. Become(j, w) /\ runs' = runs /\ w.phase = "done"
    BY <1>5, <2>1, FindMoves DEF TypeOK, Job
  <2> HIDE DEF w
  <2> QED
    BY <1>2, <2>2 DEF Newer, Transaction
<1>6. ASSUME NEW j \in Jobs, Publish(j)
      PROVE  NewerInv'
  <2> DEFINE new == NewRun(job[j])
             w   == [job[j] EXCEPT !.phase = "done", !.run = new]
  <2>1. Become(j, w) /\ runs' = runs \union {new}
    BY <1>6, PublishMoves
  <2>2. new.committed = now + 1 /\ now \in Nat
    BY DEF NewRun, TypeOK
  <2>3. w.phase = "done"
    BY DEF TypeOK, Job
  <2> HIDE DEF new, w
  <2>4. \A k \in Jobs : job'[k].phase \in Transaction => k # j /\ job'[k] = job[k]
    BY <2>1, <2>3, Others DEF TypeOK, Transaction
  <2>5. \A k \in Jobs : ~(new.committed < job[k].stamp)
    BY <2>2 DEF ClockInv, TypeOK, Job
  <2> QED
    BY <1>0, <2>1, <2>4, <2>5 DEF NewerInv, Newer
<1> QED
  BY <1>1, <1>3, <1>4, <1>5, <1>6, NextCases

LEMMA LaterStep ==
  ASSUME PoolOK, TypeOK, ReadInv, ClockInv, KeyInv, NewerInv, LaterRunIsNewer, Next
  PROVE  LaterRunIsNewer'
<1>1. CASE runs' = runs
  BY <1>1 DEF LaterRunIsNewer
<1>2. ASSUME NEW j \in Jobs, Publish(j)
      PROVE  LaterRunIsNewer'
  <2> DEFINE me  == job[j]
             new == NewRun(me)
  <2>1. me.phase = "publish" /\ runs' = runs \union {new}
    BY <1>2, PublishMoves
  <2>2. /\ new.policy = me.policy /\ new.snapshot = me.snapshot /\ new.revs = me.revs
        /\ new.created = me.stamp /\ new.committed = now + 1
    BY DEF NewRun
  <2> HIDE DEF new
  <2>3. me \in Job /\ ReadOK(me) /\ now \in Nat /\ \A r \in runs : RunOK(r)
    BY DEF TypeOK, ReadInv
  <2>4. me.snapshot \in Universes /\ DOMAIN me.revs = me.snapshot /\ me.stamp \in Nat
    BY <2>1, <2>3 DEF ReadOK, Transaction, Job
  <2>5. me.revs \in [me.snapshot -> 0 .. MaxRevisions]
    BY <2>3, <2>4, RevsType DEF Job
  <2>6. ASSUME NEW s \in runs'
        PROVE  ~(new.committed < s.created)
    BY <2>1, <2>2, <2>3, <2>4 DEF ClockInv, RunOK
  <2>7. ASSUME NEW r \in runs, r.policy = me.policy, r.snapshot = me.snapshot,
               r.committed < me.stamp
        PROVE  /\ \A i \in r.snapshot : r.revs[i] <= me.revs[i]
               /\ \E i \in r.snapshot : r.revs[i] < me.revs[i]
    <3>1. \A i \in r.snapshot : r.revs[i] <= me.revs[i]
      BY <2>1, <2>4, <2>7 DEF NewerInv, Transaction
    <3>2. r.revs # me.revs
      BY <2>1, <2>7 DEF KeyInv, KeyFree, SameKey
    <3>3. r.revs \in [r.snapshot -> 0 .. MaxRevisions]
      BY <2>3 DEF RunOK
    <3>4. PICK i \in r.snapshot : r.revs[i] # me.revs[i]
      BY <2>5, <2>7, <3>2, <3>3
    <3>5. r.revs[i] \in Nat /\ me.revs[i] \in Nat
      BY <2>5, <2>7, <3>3 DEF PoolOK
    <3> QED
      BY <3>1, <3>4, <3>5
  <2> QED
    BY <2>1, <2>2, <2>6, <2>7 DEF LaterRunIsNewer
<1>3. ASSUME NEW j \in Jobs, Quiet(j)
      PROVE  runs' = runs
  BY <1>3, QuietMoves DEF QuietMove
<1> QED
  BY <1>1, <1>2, <1>3, ReadMoves, FindMoves, NextCases DEF Collect

-----------------------------------------------------------------------------
(* The ranks *)

(* The included instruments are finitely many, and their turnovers         *)
(* numbers.                                                                *)
Rankable(policy, chosen) ==
  /\ IsFiniteSet(Included(policy, chosen))
  /\ Included(policy, chosen) \subseteq Int
  /\ \A i \in Included(policy, chosen) : Turnover(chosen[i]) \in Int

(* The included instruments that are not behind i. *)
NotBehind(policy, chosen, i) ==
  {k \in Included(policy, chosen) : Before(chosen, k, i) \/ k = i}

(* The sort key leaves no ties. *)
LEMMA KeyOrders ==
  ASSUME NEW policy, NEW chosen, Rankable(policy, chosen)
  PROVE  /\ \A i \in Included(policy, chosen) : ~Before(chosen, i, i)
         /\ \A i, k \in Included(policy, chosen) :
              i # k => Before(chosen, i, k) \/ Before(chosen, k, i)
         /\ \A i, k \in Included(policy, chosen) :
              Before(chosen, i, k) => ~Before(chosen, k, i)
         /\ \A i, k, l \in Included(policy, chosen) :
              Before(chosen, i, k) /\ Before(chosen, k, l) => Before(chosen, i, l)
<1> DEFINE S    == Included(policy, chosen)
           t(i) == Turnover(chosen[i])
<1>1. \A i \in S : i \in Int /\ t(i) \in Int
  BY DEF Rankable
<1>2. \A i, k : Before(chosen, i, k) <=> t(i) > t(k) \/ (t(i) = t(k) /\ i < k)
  BY DEF Before
<1> HIDE DEF S, t
<1>3. \A i \in S : ~Before(chosen, i, i)
  BY <1>1, <1>2
<1>4. \A i, k \in S : i # k => Before(chosen, i, k) \/ Before(chosen, k, i)
  BY <1>1, <1>2
<1>5. \A i, k \in S : Before(chosen, i, k) => ~Before(chosen, k, i)
  BY <1>1, <1>2
<1>6. \A i, k, l \in S :
        Before(chosen, i, k) /\ Before(chosen, k, l) => Before(chosen, i, l)
  BY <1>1, <1>2
<1> QED
  BY <1>3, <1>4, <1>5, <1>6 DEF S

(* How many are not behind an instrument tells the instruments apart and   *)
(* follows their order.                                                    *)
LEMMA CountsOrder ==
  ASSUME NEW policy, NEW chosen, Rankable(policy, chosen)
  PROVE  LET count(i) == Cardinality(NotBehind(policy, chosen, i))
             S        == Included(policy, chosen)
         IN  /\ \A i \in S : count(i) \in 1 .. Cardinality(S)
             /\ \A i, k \in S : Before(chosen, i, k) => count(i) < count(k)
<1> DEFINE S    == Included(policy, chosen)
           A(i) == NotBehind(policy, chosen, i)
<1>1. IsFiniteSet(S) /\ Cardinality(S) \in Nat
  BY FS_CardinalityType DEF Rankable
<1>2. \A i \in S : A(i) \in SUBSET S /\ i \in A(i)
  BY DEF NotBehind
<1>3. \A i \in S : IsFiniteSet(A(i)) /\ Cardinality(A(i)) \in Nat /\ Cardinality(A(i)) <= Cardinality(S)
  BY <1>1, <1>2, FS_Subset, FS_CardinalityType
<1>4. \A i \in S : Cardinality(A(i)) # 0
  BY <1>2, <1>3, FS_EmptySet
<1>5. ASSUME NEW i \in S, NEW k \in S, Before(chosen, i, k)
      PROVE  Cardinality(A(i)) < Cardinality(A(k))
  <2>1. A(i) \in SUBSET A(k)
    BY <1>5, KeyOrders DEF NotBehind
  <2>2. k \in A(k) /\ k \notin A(i)
    BY <1>5, KeyOrders DEF NotBehind
  <2> HIDE DEF A
  <2>3. /\ Cardinality(A(i)) <= Cardinality(A(k))
        /\ Cardinality(A(i)) = Cardinality(A(k)) => A(i) = A(k)
    BY <1>3, <2>1, FS_Subset
  <2> QED
    BY <1>3, <2>2, <2>3
<1>6. \A i \in S : Cardinality(A(i)) \in 1 .. Cardinality(S)
  BY <1>1, <1>3, <1>4
<1> QED
  BY <1>5, <1>6

(* Sorting succeeds: there is an arrangement of the included instruments   *)
(* in the order of the key.                                                *)
LEMMA SortedExists ==
  ASSUME NEW policy, NEW chosen, Rankable(policy, chosen)
  PROVE  LET order == Sorted(policy, chosen)
             S     == Included(policy, chosen)
         IN  /\ order \in [1 .. Cardinality(S) -> S]
             /\ \A m, n \in 1 .. Cardinality(S) : m < n => Before(chosen, order[m], order[n])
<1> DEFINE S     == Included(policy, chosen)
           N     == Cardinality(S)
           count == [i \in S |-> Cardinality(NotBehind(policy, chosen, i))]
           o     == [m \in 1 .. N |-> CHOOSE i \in S : count[i] = m]
<1>1. IsFiniteSet(S) /\ N \in Nat
  BY FS_CardinalityType DEF Rankable
<1>2. count \in [S -> 1 .. N] /\ \A i, k \in S : Before(chosen, i, k) => count[i] < count[k]
  BY CountsOrder
<1>3. \A i, k \in S : i # k => Before(chosen, i, k) \/ Before(chosen, k, i)
  BY KeyOrders
<1> HIDE DEF count
<1>4. \A i, k \in S : count[i] = count[k] => i = k
  BY <1>1, <1>2, <1>3
<1>5. count \in Injection(S, 1 .. N)
  BY <1>2, <1>4 DEF Injection, IsInjective
<1>6. IsFiniteSet(1 .. N) /\ Cardinality(1 .. N) = N
  BY <1>1, FS_Interval
<1> HIDE DEF N
<1>7. count \in Surjection(S, 1 .. N)
  BY <1>1, <1>5, <1>6, FS_Injection DEF N
<1>8. \A m \in 1 .. N : \E i \in S : count[i] = m
  BY <1>7 DEF Surjection
<1>9. \A m \in 1 .. N : o[m] \in S /\ count[o[m]] = m
  BY <1>8
<1>10. o \in [1 .. N -> S]
  BY <1>9
<1> HIDE DEF o, S
<1>11. ASSUME NEW m \in 1 .. N, NEW n \in 1 .. N, m < n
       PROVE  Before(chosen, o[m], o[n])
  <2>1. o[m] # o[n] /\ ~(count[o[n]] < count[o[m]])
    BY <1>9, <1>11
  <2> QED
    BY <1>2, <1>3, <1>9, <2>1
<1>12. \E order \in [1 .. N -> S] :
         \A m, n \in DOMAIN order : m < n => Before(chosen, order[m], order[n])
  BY <1>10, <1>11
<1>13. Sorted(policy, chosen) =
         CHOOSE order \in [1 .. N -> S] :
           \A m, n \in DOMAIN order : m < n => Before(chosen, order[m], order[n])
  BY DEF Sorted, N, S
<1>14. /\ Sorted(policy, chosen) \in [1 .. N -> S]
       /\ \A m, n \in DOMAIN Sorted(policy, chosen) :
            m < n => Before(chosen, Sorted(policy, chosen)[m], Sorted(policy, chosen)[n])
  BY <1>12, <1>13
<1> QED
  BY <1>14 DEF N, S

(* The rank of an included instrument is the number of those that are not  *)
(* behind it: the ranks have no gaps and no ties.                          *)
LEMMA RankIsCount ==
  ASSUME NEW policy, NEW chosen, Rankable(policy, chosen),
         NEW i \in Included(policy, chosen)
  PROVE  Ranks(policy, chosen)[i] = Cardinality(NotBehind(policy, chosen, i))
<1> DEFINE S     == Included(policy, chosen)
           N     == Cardinality(S)
           order == Sorted(policy, chosen)
<1>1. IsFiniteSet(S) /\ N \in Nat
  BY FS_CardinalityType DEF Rankable
<1>2. /\ order \in [1 .. N -> S]
      /\ \A m, n \in 1 .. N : m < n => Before(chosen, order[m], order[n])
  BY SortedExists
<1>3. /\ \A k \in S : ~Before(chosen, k, k)
      /\ \A k, l \in S : Before(chosen, k, l) => ~Before(chosen, l, k)
  BY KeyOrders
<1>4. Ranks(policy, chosen)[i] = CHOOSE n \in DOMAIN order : order[n] = i
  BY DEF Ranks, Included
<1>5. NotBehind(policy, chosen, i) = {k \in S : Before(chosen, k, i) \/ k = i}
  BY DEF NotBehind
<1>6. i \in S
  OBVIOUS
<1> HIDE DEF order, S, N
<1>7. \A m, n \in 1 .. N : order[m] = order[n] => m = n
  <2> SUFFICES ASSUME NEW m \in 1 .. N, NEW n \in 1 .. N, order[m] = order[n]
               PROVE  m = n
    OBVIOUS
  <2>1. ~(m < n) /\ ~(n < m)
    BY <1>2, <1>3
  <2> QED
    BY <1>1, <2>1
<1>8. order \in Injection(1 .. N, S)
  BY <1>2, <1>7 DEF Injection, IsInjective
<1>9. IsFiniteSet(1 .. N) /\ Cardinality(1 .. N) = N
  BY <1>1, FS_Interval
<1>10. order \in Surjection(1 .. N, S)
  BY <1>1, <1>8, <1>9, FS_Injection DEF N
<1>11. PICK m \in 1 .. N : order[m] = i
  BY <1>6, <1>10 DEF Surjection
<1>12. Ranks(policy, chosen)[i] = m
  BY <1>2, <1>4, <1>7, <1>11
<1> DEFINE f == [q \in 1 .. m |-> order[q]]
           A == {k \in S : Before(chosen, k, i) \/ k = i}
<1>13. \A q \in 1 .. m : q \in 1 .. N /\ (q < m \/ q = m)
  BY <1>1
<1>14. f \in [1 .. m -> A]
  BY <1>2, <1>11, <1>13
<1>15. ASSUME NEW k \in A
       PROVE  \E q \in 1 .. m : f[q] = k
  <2>1. PICK q \in 1 .. N : order[q] = k
    BY <1>10 DEF Surjection
  <2>2. ~(m < q)
    BY <1>2, <1>3, <1>11, <2>1
  <2>3. q \in 1 .. m
    BY <1>1, <2>2
  <2> QED
    BY <2>1, <2>3
<1>16. \A p, q \in 1 .. m : f[p] = f[q] => p = q
  BY <1>7, <1>13
<1>17. IsFiniteSet(1 .. m) /\ Cardinality(1 .. m) = m
  BY <1>1, FS_Interval
<1> HIDE DEF f, A
<1>18. f \in Bijection(1 .. m, A)
  BY <1>14, <1>15, <1>16 DEF Bijection, Injection, IsInjective, Surjection
<1>19. Cardinality(A) = m
  BY <1>17, <1>18, FS_Bijection DEF ExistsBijection
<1> QED
  BY <1>5, <1>12, <1>19 DEF A

-----------------------------------------------------------------------------
(* The pools that are published *)

(* The revisions of a run or of a job that read all its bars. *)
Basis(snapshot, revs) ==
  /\ snapshot \in Universes
  /\ revs \in [snapshot -> 0 .. MaxRevisions]
  /\ \A i \in snapshot : revs[i] <= Len(bars[i])

LEMMA ProductType == \A a, b \in Nat : a * b \in Int
OBVIOUS

(* A bar the revisions stand for has one of the contents. *)
LEMMA ChosenContents ==
  ASSUME PoolOK, bars \in [Instruments -> Seq(Contents)],
         NEW snapshot, NEW revs, Basis(snapshot, revs), NEW i \in snapshot
  PROVE  /\ i \in Instruments
         /\ Chosen(revs)[i] = IF revs[i] = 0 THEN None ELSE bars[i][revs[i]]
         /\ revs[i] # 0 => revs[i] \in Nat /\ bars[i][revs[i]] \in Contents
<1>1. i \in Instruments
  BY DEF Basis, PoolOK
<1>2. revs[i] \in 0 .. MaxRevisions /\ revs[i] <= Len(bars[i]) /\ DOMAIN revs = snapshot
  BY DEF Basis
<1>3. bars[i] \in Seq(Contents) /\ Len(bars[i]) \in Nat
  BY <1>1
<1>4. revs[i] # 0 => revs[i] \in 1 .. Len(bars[i]) /\ revs[i] \in Nat
  BY <1>2, <1>3 DEF PoolOK
<1>5. revs[i] # 0 => bars[i][revs[i]] \in Contents
  BY <1>3, <1>4
<1> QED
  BY <1>1, <1>2, <1>4, <1>5 DEF Chosen

LEMMA BasisRankable ==
  ASSUME PoolOK, bars \in [Instruments -> Seq(Contents)],
         NEW snapshot, NEW revs, Basis(snapshot, revs), NEW policy
  PROVE  Rankable(policy, Chosen(revs))
<1> DEFINE chosen == Chosen(revs)
           S      == Included(policy, chosen)
<1>1. DOMAIN chosen = snapshot
  BY ChosenDomain DEF Basis
<1>2. S \in SUBSET snapshot /\ \A i \in S : Eligible(policy, chosen[i])
  BY <1>1 DEF Included
<1>3. IsFiniteSet(snapshot) /\ snapshot \subseteq Nat
  BY DEF Basis, PoolOK
<1>4. IsFiniteSet(S)
  BY <1>2, <1>3, FS_Subset
<1> HIDE DEF chosen, S
<1>5. ASSUME NEW i \in S
      PROVE  Turnover(chosen[i]) \in Int
  <2>1. chosen[i] \in Contents
    BY <1>2, <1>5, ChosenContents DEF Eligible, chosen
  <2>2. ~chosen[i].suspended /\ chosen[i].volume # None
    BY <1>2, <1>5 DEF Eligible
  <2>3. chosen[i].close \in Nat /\ chosen[i].volume \in Nat
    BY <2>1, <2>2 DEF PoolOK
  <2> QED
    BY <2>3, ProductType DEF Turnover
<1> QED
  BY <1>2, <1>3, <1>4, <1>5 DEF Rankable, chosen, S

(* The bars of the pool a run stands for are those it was calculated from. *)
LEMMA PoolBars ==
  ASSUME PoolOK, bars \in [Instruments -> Seq(Contents)],
         NEW r, Basis(r.snapshot, r.revs), NEW i \in r.snapshot
  PROVE  LET shown == PoolOf(r).bars[i]
         IN  /\ shown = None <=> r.revs[i] = 0
             /\ shown # None => shown.rev = r.revs[i]
             /\ Chosen(r.revs)[i] = IF shown = None THEN None ELSE shown.content
<1>1. /\ Chosen(r.revs)[i] = IF r.revs[i] = 0 THEN None ELSE bars[i][r.revs[i]]
      /\ r.revs[i] # 0 => r.revs[i] \in Nat /\ bars[i][r.revs[i]] \in Contents
  BY ChosenContents
<1>2. i \in DOMAIN r.revs
  BY DEF Basis
<1>3. PoolOf(r).bars[i] = IF r.revs[i] = 0 THEN None
                          ELSE [rev |-> r.revs[i], content |-> bars[i][r.revs[i]]]
  BY <1>2 DEF PoolOf
<1>4. r.revs[i] # 0 =>
        [rev |-> r.revs[i], content |-> bars[i][r.revs[i]]] \in [rev : Nat, content : Contents]
  BY <1>1
<1>5. r.revs[i] # 0 => [rev |-> r.revs[i], content |-> bars[i][r.revs[i]]] # None
  BY <1>4 DEF PoolOK
<1> QED
  BY <1>1, <1>3, <1>5

LEMMA SameCardinality == \A S : Publications!Cardinality(S) = Cardinality(S)
BY DEF Publications!Cardinality, Cardinality

(* A run that ranks its bars shows as a complete pool. *)
LEMMA RankedIsComplete ==
  ASSUME PoolOK, bars \in [Instruments -> Seq(Contents)],
         NEW r, Basis(r.snapshot, r.revs), r.policy \in Policies,
         r.ranks = Ranks(r.policy, Chosen(r.revs))
  PROVE  Publications!Complete(PoolOf(r))
<1> DEFINE pool     == PoolOf(r)
           chosen   == Chosen(r.revs)
           bar(i)   == IF pool.bars[i] = None THEN None ELSE pool.bars[i].content
           admitted == {i \in pool.universe : Eligible(pool.policy, bar(i))}
           ahead(i) == {k \in admitted :
                          \/ Turnover(bar(k)) > Turnover(bar(i))
                          \/ Turnover(bar(k)) = Turnover(bar(i)) /\ k <= i}
<1>1. pool.policy = r.policy /\ pool.universe = r.snapshot /\ pool.ranks = r.ranks
  BY DEF PoolOf
<1>2. DOMAIN r.revs = r.snapshot /\ DOMAIN pool.bars = r.snapshot
  BY DEF PoolOf, Basis
<1>3. DOMAIN chosen = r.snapshot /\ DOMAIN r.ranks = r.snapshot
  BY <1>2, ChosenDomain, RanksDomain
<1>4. \A i \in r.snapshot : bar(i) = chosen[i]
  BY PoolBars
<1> HIDE DEF pool, chosen, bar
<1>5. admitted = Included(r.policy, chosen)
  BY <1>1, <1>3, <1>4 DEF Included
<1>6. admitted \subseteq r.snapshot /\ r.snapshot \subseteq Nat
  BY <1>1 DEF Basis, PoolOK
<1>7. Rankable(r.policy, chosen)
  BY BasisRankable DEF chosen
<1> HIDE DEF admitted
<1>8. ASSUME NEW i \in admitted
      PROVE  ahead(i) = NotBehind(r.policy, chosen, i)
  <2>1. i \in Nat /\ \A k \in admitted : k \in Nat /\ bar(k) = chosen[k] /\ bar(i) = chosen[i]
    BY <1>4, <1>6, <1>8
  <2>2. \A k \in admitted : k <= i <=> k < i \/ k = i
    BY <2>1
  <2>3. \A k \in admitted :
          (\/ Turnover(chosen[k]) > Turnover(chosen[i])
           \/ Turnover(chosen[k]) = Turnover(chosen[i]) /\ k <= i)
          <=> (Before(chosen, k, i) \/ k = i)
    BY <2>2 DEF Before
  <2> QED
    BY <1>5, <2>1, <2>3 DEF NotBehind
<1>9. \A i \in admitted : r.ranks[i] = Cardinality(ahead(i))
  <2> HIDE DEF ahead
  <2> SUFFICES ASSUME NEW i \in admitted
               PROVE  r.ranks[i] = Cardinality(ahead(i))
    OBVIOUS
  <2>1. Ranks(r.policy, chosen)[i] = Cardinality(NotBehind(r.policy, chosen, i))
    BY <1>5, <1>7, RankIsCount
  <2> QED
    BY <1>8, <2>1 DEF chosen
<1>10. \A i \in r.snapshot : i \notin admitted => r.ranks[i] = 0
  BY <1>3, <1>5 DEF Ranks, chosen
<1>11. \A i \in r.snapshot :
         r.ranks[i] = IF i \in admitted THEN Cardinality(ahead(i)) ELSE 0
  BY <1>9, <1>10
<1>12. r.snapshot \in Universes
  BY DEF Basis
<1> HIDE DEF ahead
<1>13. /\ pool.policy \in Policies /\ pool.universe \in Universes
       /\ DOMAIN pool.bars = pool.universe /\ DOMAIN pool.ranks = pool.universe
       /\ \A i \in pool.universe :
            pool.ranks[i] = IF i \in admitted THEN Cardinality(ahead(i)) ELSE 0
  BY <1>1, <1>2, <1>3, <1>11, <1>12
<1> QED
  BY <1>13, SameCardinality DEF Publications!Complete, pool, admitted, ahead, bar

(* Pools on the same basis are runs with the same key. *)
LEMMA BasisIsKey ==
  ASSUME PoolOK, bars \in [Instruments -> Seq(Contents)],
         NEW r, Basis(r.snapshot, r.revs), NEW s, Basis(s.snapshot, s.revs),
         Publications!SameBasis(PoolOf(r), PoolOf(s))
  PROVE  SameKey(r, s)
<1>1. r.policy = s.policy /\ r.snapshot = s.snapshot /\ PoolOf(r).bars = PoolOf(s).bars
  BY DEF Publications!SameBasis, PoolOf
<1>2. ASSUME NEW i \in r.snapshot
      PROVE  r.revs[i] = s.revs[i]
  <2> DEFINE shown == PoolOf(r).bars[i]
  <2>1. shown = PoolOf(s).bars[i] /\ i \in s.snapshot
    BY <1>1
  <2>2. (shown = None <=> r.revs[i] = 0) /\ (shown # None => shown.rev = r.revs[i])
    BY PoolBars
  <2>3. (shown = None <=> s.revs[i] = 0) /\ (shown # None => shown.rev = s.revs[i])
    BY <2>1, PoolBars
  <2> QED
    BY <2>2, <2>3
<1>3. r.revs \in [r.snapshot -> 0 .. MaxRevisions] /\ s.revs \in [r.snapshot -> 0 .. MaxRevisions]
  BY <1>1 DEF Basis
<1>4. r.revs = s.revs
  BY <1>2, <1>3
<1> QED
  BY <1>1, <1>4 DEF SameKey

Shown == {PoolOf(r) : r \in runs}

LEMMA RunBasis ==
  ASSUME PoolInv, NEW r \in runs
  PROVE  Basis(r.snapshot, r.revs)
BY DEF PoolInv, TypeOK, RunOK, ReadInv, Basis

(* A collection leaves the published pools as they are. *)
LEMMA CollectShows ==
  ASSUME PoolOK, PoolInv, NEW delivery \in Deliveries, Collect(delivery)
  PROVE  Shown' = Shown
<1>1. bars \in [Instruments -> Seq(Contents)]
  BY DEF PoolInv, TypeOK
<1>2. ASSUME NEW r \in runs
      PROVE  PoolOf(r)' = PoolOf(r)
  <2>1. PICK f : f = r.revs
    OBVIOUS
  <2>2. Basis(r.snapshot, f) /\ DOMAIN f = r.snapshot
    BY <2>1, RunBasis DEF Basis
  <2>3. \A i \in DOMAIN f : f[i] # 0 => i \in Instruments /\ f[i] \in 1 .. Len(bars[i])
    BY <1>1, <2>2 DEF Basis, PoolOK
  <2>4. \A i \in DOMAIN f : f[i] # 0 => bars'[i][f[i]] = bars[i][f[i]]
    BY <1>1, <2>3, CollectGrows
  <2> QED
    BY <2>1, <2>4 DEF PoolOf
<1>3. runs' = runs
  BY DEF Collect
<1> QED
  BY <1>2, <1>3 DEF Shown

(* A published run shows as a new pool, complete and on a basis of its     *)
(* own.                                                                    *)
LEMMA PublishShows ==
  ASSUME PoolOK, PoolInv, NEW j \in Jobs, Publish(j)
  PROVE  /\ Publications!Complete(PoolOf(NewRun(job[j])))
         /\ \A pool \in Shown : ~Publications!SameBasis(pool, PoolOf(NewRun(job[j])))
         /\ Shown' = Shown \union {PoolOf(NewRun(job[j]))}
<1> DEFINE me  == job[j]
           new == NewRun(me)
<1>1. me.phase = "publish" /\ bars' = bars /\ runs' = runs \union {new}
  BY PublishMoves DEF PoolInv
<1>2. /\ new.policy = me.policy /\ new.snapshot = me.snapshot /\ new.revs = me.revs
      /\ new.ranks = Ranks(new.policy, Chosen(new.revs))
  BY DEF NewRun
<1> HIDE DEF new
<1>3. me \in Job /\ ReadOK(me) /\ bars \in [Instruments -> Seq(Contents)]
  BY DEF PoolInv, TypeOK, ReadInv
<1>4. /\ me.policy \in Policies /\ me.snapshot \in Universes /\ DOMAIN me.revs = me.snapshot
      /\ \A i \in me.snapshot : me.revs[i] <= Len(bars[i])
  BY <1>1, <1>3 DEF ReadOK, Transaction
<1>5. me.revs \in [me.snapshot -> 0 .. MaxRevisions]
  BY <1>3, <1>4, RevsType DEF Job
<1>6. Basis(new.snapshot, new.revs)
  BY <1>2, <1>4, <1>5 DEF Basis
<1>7. Publications!Complete(PoolOf(new))
  BY <1>2, <1>3, <1>4, <1>6, RankedIsComplete
<1>8. ASSUME NEW r \in runs
      PROVE  ~Publications!SameBasis(PoolOf(r), PoolOf(new))
  <2>1. ~SameKey(r, me)
    BY <1>1 DEF PoolInv, KeyInv, KeyFree
  <2>2. ~SameKey(r, new)
    BY <1>2, <2>1 DEF SameKey
  <2> QED
    BY <1>3, <1>6, <2>2, RunBasis, BasisIsKey
<1>9. \A r : PoolOf(r)' = PoolOf(r)
  BY <1>1 DEF PoolOf
<1>10. Shown' = Shown \union {PoolOf(new)}
  BY <1>1, <1>9 DEF Shown
<1> QED
  BY <1>7, <1>8, <1>10 DEF Shown, new

(* Every other step leaves the bars and the runs alone. *)
LEMMA QuietShows ==
  ASSUME UNCHANGED <<bars, runs>>
  PROVE  Shown' = Shown
BY DEF Shown, PoolOf

LEMMA PublicationStep ==
  ASSUME PoolOK, PoolInv, [Next]_vars
  PROVE  [Publications!Next]_Shown
<1>1. ASSUME NEW j \in Jobs, Publish(j)
      PROVE  Publications!Next
  <2> DEFINE pool == PoolOf(NewRun(job[j]))
  <2>1. /\ Publications!Complete(pool) /\ Shown' = Shown \union {pool}
        /\ \A p \in Shown : ~Publications!SameBasis(p, pool)
    BY <1>1, PublishShows
  <2> HIDE DEF pool
  <2>2. Publications!SameBasis(pool, pool)
    BY DEF Publications!SameBasis
  <2>3. pool \in Shown' \ Shown
    BY <2>1, <2>2
  <2> QED
    BY <2>1, <2>3 DEF Publications!Next, Publications!Publish, Shown
<1>2. CASE \E delivery \in Deliveries : Collect(delivery)
  BY <1>2, CollectShows
<1>3. ASSUME UNCHANGED <<bars, runs>>
      PROVE  Shown' = Shown
  BY <1>3, QuietShows
<1>4. ASSUME NEW j \in Jobs, Quiet(j)
      PROVE  UNCHANGED <<bars, runs>>
  BY <1>4, QuietMoves DEF PoolInv, QuietMove
<1>5. ASSUME NEW j \in Jobs, NEW i \in Instruments, Read(j, i)
      PROVE  UNCHANGED <<bars, runs>>
  BY <1>5, ReadMoves DEF PoolInv
<1>6. ASSUME NEW j \in Jobs, FindExisting(j)
      PROVE  UNCHANGED <<bars, runs>>
  BY <1>6, FindMoves DEF PoolInv
<1>7. CASE UNCHANGED vars
  BY <1>3, <1>7 DEF vars
<1> QED
  BY <1>1, <1>2, <1>3, <1>4, <1>5, <1>6, <1>7, NextCases

-----------------------------------------------------------------------------
(* The theorems *)

LEMMA PoolInit == ASSUME PoolOK, Init PROVE PoolInv
<1>1. TypeOK
  BY TypeInit
<1>2. /\ runs = {} /\ now = 0
      /\ \A j \in Jobs : job[j].phase = "new" /\ job[j].stamp = 0 /\ DOMAIN job[j].revs = {}
  BY DEF Init, Idle
<1>3. ReadInv /\ RanksInv /\ LaterRunIsNewer
  BY <1>2 DEF ReadInv, ReadOK, RanksInv, LaterRunIsNewer, Transaction
<1>4. ClockInv /\ KeyInv /\ NewerInv
  BY <1>2 DEF ClockInv, KeyInv, NewerInv, Transaction
<1> QED
  BY <1>1, <1>3, <1>4 DEF PoolInv

LEMMA PoolStep == ASSUME PoolOK, PoolInv, [Next]_vars PROVE PoolInv'
<1>1. CASE Next
  BY <1>1, TypeStep, ReadStep, ClockStep, RanksStep, KeyStep, NewerStep, LaterStep DEF PoolInv
<1>2. CASE UNCHANGED vars
  BY <1>2 DEF vars, PoolInv, TypeOK, Job, RunOK, Revs, ReadInv, ReadOK, ClockInv, RanksInv,
              KeyInv, KeyFree, SameKey, Chosen, NewerInv, LaterRunIsNewer
<1> QED
  BY <1>1, <1>2

(* The inductive invariant holds in every reachable state. *)
THEOREM PoolInvariant == Spec => []PoolInv
<1>1. Init => PoolInv
  BY PoolOK, PoolInit
<1>2. PoolInv /\ [Next]_vars => PoolInv'
  BY PoolOK, PoolStep
<1> QED
  BY <1>1, <1>2, PTL DEF Spec

(* No job ever returns anything but a committed run, and every run judges  *)
(* every instrument of its universe.                                       *)
THEOREM PoolTypeCorrect == Spec => []TypeOK
BY PoolInvariant, PTL DEF PoolInv

(* A run that is found is what the job would have published itself: same   *)
(* policy, universe and revisions, and ranks of the bars as they are now.  *)
THEOREM PoolReturnedRunMatches == Spec => []ReturnedRunMatches
<1>1. PoolInv => ReturnedRunMatches
  <2> SUFFICES ASSUME PoolInv PROVE ReturnedRunMatches
    OBVIOUS
  <2>1. ASSUME NEW j \in Jobs, job[j].phase = "done"
        PROVE  job[j].run \in runs /\ SameKey(job[j].run, job[j])
               /\ DOMAIN job[j].revs = job[j].snapshot
    BY <2>1 DEF PoolInv, RanksInv, ReadInv, ReadOK
  <2>2. \A r \in runs : r.ranks = Ranks(r.policy, Chosen(r.revs))
    BY DEF PoolInv, RanksInv
  <2> QED
    BY <2>1, <2>2 DEF ReturnedRunMatches, SameKey
<1> QED
  BY <1>1, PoolInvariant, PTL

(* A run that begins after another run of its policy and universe was      *)
(* committed rests on newer revisions, however the reads interleave.       *)
THEOREM PoolLaterRunIsNewer == Spec => []LaterRunIsNewer
BY PoolInvariant, PTL DEF PoolInv

(* The runs implement PoolPublications, whatever bars are collected in     *)
(* between: a pool appears complete, with ranks that count those not       *)
(* behind, once for a policy, a universe and a choice of bars, and never   *)
(* changes afterwards.                                                     *)
THEOREM PoolImplementsPublications == Spec => ImplementsPublications
<1>1. Init => Publications!Init
  BY DEF Init, Publications!Init
<1>2. PoolInv /\ [Next]_vars => [Publications!Next]_Shown
  BY PoolOK, PublicationStep
<1> QED
  BY <1>1, <1>2, PoolInvariant, PTL
    DEF Spec, ImplementsPublications, Publications!Spec, Shown
=============================================================================
