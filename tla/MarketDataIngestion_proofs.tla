---------------------- MODULE MarketDataIngestion_proofs ----------------------
(***************************************************************************)
(* TLAPS proofs about MarketDataIngestion, for any sets of jobs,           *)
(* instruments, contents and answers and any page size, and, at the end,   *)
(* about the PipelineRunLedger that the executions of the jobs are         *)
(* recorded in.                                                            *)
(***************************************************************************)
EXTENDS MarketDataIngestion, PipelineRunLedger, Sequences, TLAPS, FiniteSetTheorems

(* What an upsert is about to insert is a bar: its batch has one for every *)
(* instrument that is left.                                                *)
TodoHasBars ==
  \A j \in Jobs : \A i \in job[j].todo : job[j].batch[i] \in Contents

TypeInv == TypeOK /\ TodoHasBars

LEMMA IngestionTypeInit == Init => TypeInv
  BY IngestionOK DEF Init, TypeInv, TodoHasBars, TypeOK, Idle, Job, Answers, Phases, Over, Providers, NoAnswer, NoBatch

LEMMA IngestionTypeStep == TypeInv /\ [Next]_vars => TypeInv'
<1> SUFFICES ASSUME TypeInv, [Next]_vars PROVE TypeInv'
  OBVIOUS
<1> USE IngestionOK DEF TypeInv, TodoHasBars, TypeOK
<1>s. ASSUME NEW j \in Jobs, NEW r \in Job, Become(j, r),
             \A i \in r.todo : r.batch[i] \in Contents
      PROVE  job' \in [Jobs -> Job] /\ TodoHasBars'
  BY <1>s DEF Become
<1>a. ASSUME NEW j \in Jobs, NEW p \in Phases, Goto(j, p)
      PROVE  job' \in [Jobs -> Job] /\ TodoHasBars'
  <2>1. [job[j] EXCEPT !.phase = p] \in Job
    BY DEF Job
  <2> QED
    BY <1>a, <1>s, <2>1 DEF Goto, Job
<1>b. ASSUME NEW j \in Jobs, Fail(j)
      PROVE  job' \in [Jobs -> Job] /\ TodoHasBars'
  <2>1. [job[j] EXCEPT !.phase = "failed", !.written = {}] \in Job
    BY DEF Job, Phases, Over
  <2> QED
    BY <1>b, <1>s, <2>1 DEF Fail, Job
<1>1. ASSUME NEW j \in Jobs, Begin(j) PROVE TypeInv'
  BY <1>1, <1>a DEF Begin, Phases
<1>2. ASSUME NEW j \in Jobs, NEW answer \in Answers, Fetch(j, answer) PROVE TypeInv'
  <2>1. ASSUME NEW n \in Nat
        PROVE  [job[j] EXCEPT !.phase = "open", !.answer = answer, !.finished = n] \in Job
    BY DEF Job, Phases
  <2>2. now + 1 \in Nat
    OBVIOUS
  <2> DEFINE e == [job[j] EXCEPT !.phase = "open", !.answer = answer, !.finished = now + 1]
  <2>3. e \in Job /\ e.todo = job[j].todo /\ e.batch = job[j].batch
    BY <2>1, <2>2 DEF Job
  <2>4. Become(j, e)
    BY <1>2 DEF Fetch
  <2> HIDE DEF e
  <2> QED
    BY <1>2, <1>s, <2>2, <2>3, <2>4 DEF Fetch
<1>3. ASSUME NEW j \in Jobs, NEW n \in 1 .. Cardinality(attempts) + 1, Open(j, n) PROVE TypeInv'
  <2>0. n \in Nat
    BY <1>3 DEF Open, IsNextNumber, Listed, Attempt
  <2>1. [job[j] EXCEPT !.phase = "record", !.no = n] \in Job
    BY <2>0 DEF Job, Phases
  <2> QED
    BY <1>3, <1>s, <2>1 DEF Open, Job
<1>4. ASSUME NEW j \in Jobs, Record(j) PROVE TypeInv'
  <2> DEFINE p == job[j].provider
             a == [provider |-> p, no |-> job[j].no, finished |-> job[j].finished,
                   answer |-> job[j].answer]
  <2>1. CASE NumberFree(p, job[j].no)
    <3>1. attempts' = attempts \union {a}
      BY <1>4, <2>1 DEF Record
    <3>2. a \in Attempt
      BY DEF Attempt, Job
    <3>3. request' \in [Providers -> {"absent", "failed", "succeeded"}]
      BY <1>4, <2>1 DEF Record, Outcome, Job
    <3>4. AfterEvidence(j)
      BY <1>4, <2>1 DEF Record
    <3>5. [job[j] EXCEPT !.phase = "fetch", !.provider = Fallback] \in Job
      BY DEF Job, Phases, Providers
    <3>6. job' \in [Jobs -> Job] /\ TodoHasBars'
      BY <3>4, <3>5, <1>a, <1>s DEF AfterEvidence, Phases, Job
    <3> QED
      BY <1>4, <3>1, <3>2, <3>3, <3>6 DEF Record
  <2>2. CASE ~NumberFree(p, job[j].no)
    BY <1>4, <1>b, <2>2 DEF Record
  <2> QED
    BY <2>1, <2>2
<1>5. ASSUME NEW j \in Jobs, Select(j) PROVE TypeInv'
  <2>1. [job[j] EXCEPT !.phase = "pick", !.provider = Primary] \in Job
    BY DEF Job, Phases, Providers
  <2> QED
    BY <1>5, <1>a, <1>s, <2>1 DEF Select, Phases, Over, Job
<1>6. ASSUME NEW j \in Jobs, Check(j) PROVE TypeInv'
  BY <1>6, <1>a DEF Check, Phases, Over
<1>7. ASSUME NEW j \in Jobs, Probe(j) PROVE TypeInv'
  <2>1. [job[j] EXCEPT !.phase = "pick", !.provider = Fallback] \in Job
    BY DEF Job, Phases, Providers
  <2> QED
    BY <1>7, <1>a, <1>s, <2>1 DEF Probe, Phases, Over, Job
<1>8. ASSUME NEW j \in Jobs, Pick(j) PROVE TypeInv'
  <2>1. CASE Fail(j)
    BY <1>8, <1>b, <2>1 DEF Pick
  <2>2. ASSUME NEW a \in Picked(job[j].provider),
               Become(j, [job[j] EXCEPT !.phase = "compare", !.source = a.finished,
                                        !.batch = a.answer.batch,
                                        !.todo = WithBar(a.answer.batch)])
        PROVE  TypeInv'
    <3>1. a \in Attempt /\ a.answer.ok
      BY DEF Picked, Listed
    <3>2. a.finished \in Nat /\ a.answer.batch \in Batches
      BY <3>1 DEF Attempt, Answers
    <3>3. \A i \in WithBar(a.answer.batch) : i \in Instruments /\ a.answer.batch[i] \in Contents
      BY <3>2 DEF WithBar
    <3> DEFINE e == [job[j] EXCEPT !.phase = "compare", !.source = a.finished,
                                   !.batch = a.answer.batch,
                                   !.todo = WithBar(a.answer.batch)]
    <3>4. e \in Job /\ e.todo = WithBar(a.answer.batch) /\ e.batch = a.answer.batch
      BY <3>2, <3>3 DEF Job, Phases
    <3>5. Become(j, e)
      BY <2>2
    <3> HIDE DEF e
    <3> QED
      BY <1>8, <1>s, <3>3, <3>4, <3>5 DEF Pick
  <2> QED
    BY <1>8, <2>1, <2>2 DEF Pick
<1>9. ASSUME NEW j \in Jobs, Commit(j) PROVE TypeInv'
  <2>1. job[j].written \subseteq Row
    BY DEF Job
  <2>2. [job[j] EXCEPT !.phase = "done", !.written = {}] \in Job
    BY DEF Job, Phases, Over
  <2> QED
    BY <1>9, <1>s, <2>1, <2>2 DEF Commit, Job
<1>10. ASSUME NEW j \in Jobs, NEW i \in Instruments, Compare(j, i) PROVE TypeInv'
  <2>1. [job[j] EXCEPT !.todo = @ \ {i}] \in Job
    BY DEF Job
  <2> QED
    BY <1>10, <1>a, <1>s, <2>1 DEF Compare, Phases, Job
<1>11. ASSUME NEW j \in Jobs, NEW i \in Instruments, Number(j, i) PROVE TypeInv'
  <2>1. ASSUME NEW n \in Nat, Become(j, [job[j] EXCEPT !.phase = "insert", !.no = n])
        PROVE  job' \in [Jobs -> Job] /\ TodoHasBars'
    <3>1. [job[j] EXCEPT !.phase = "insert", !.no = n] \in Job
      BY DEF Job, Phases
    <3> QED
      BY <1>s, <2>1, <3>1 DEF Job
  <2>2. \A r \in Latest(i) : r.rev + 1 \in Nat
    BY DEF Latest, RowsOf, Row
  <2>3. job' \in [Jobs -> Job] /\ TodoHasBars'
    BY <1>11, <2>1, <2>2 DEF Number
  <2> QED
    BY <1>11, <2>3 DEF Number
<1>12. ASSUME NEW j \in Jobs, NEW i \in Instruments, Insert(j, i) PROVE TypeInv'
  <2> DEFINE row == [inst |-> i, rev |-> job[j].no, content |-> job[j].batch[i],
                     source |-> job[j].source]
             e == [job[j] EXCEPT !.phase = "compare", !.todo = @ \ {i},
                                 !.written = @ \union {row}]
  <2>1. CASE Fail(j)
    BY <1>12, <1>b, <2>1 DEF Insert
  <2>2. CASE Become(j, e)
    <3>1. row \in Row
      BY <1>12 DEF Insert, NextUp, Row, Job
    <3>2. e \in Job /\ e.todo \subseteq job[j].todo /\ e.batch = job[j].batch
      <4> HIDE DEF row
      <4> QED
        BY <3>1 DEF Job, Phases
    <3> HIDE DEF e
    <3> QED
      BY <1>12, <1>s, <2>2, <3>2 DEF Insert
  <2> QED
    BY <1>12, <2>1, <2>2 DEF Insert
<1>13. ASSUME NEW j \in Jobs, Die(j) PROVE TypeInv'
  <2>1. [job[j] EXCEPT !.phase = "dead", !.written = {}] \in Job
    BY DEF Job, Phases, Over
  <2> QED
    BY <1>13, <1>s, <2>1 DEF Die, Job
<1>14. ASSUME UNCHANGED vars PROVE TypeInv'
  BY <1>14 DEF vars
<1> QED
  BY <1>1, <1>2, <1>3, <1>4, <1>5, <1>6, <1>7, <1>8, <1>9, <1>10, <1>11, <1>12, <1>13, <1>14
     DEF Next, Advance

-----------------------------------------------------------------------------
(* The evidence: attempt numbers are the numbers from 1 on, and a job that *)
(* is about to record holds one of them or the next one.                   *)

NumbersDense == \A p \in Providers : \E n \in Nat : Numbers(p) = 1 .. n

NumbersUnique ==
  \A a, b \in attempts : a.provider = b.provider /\ a.no = b.no => a = b

RecordNumber ==
  \A j \in Jobs : job[j].phase = "record" =>
    job[j].no = 1 \/ job[j].no - 1 \in Numbers(job[j].provider)

EvidenceInv == NumbersDense /\ NumbersUnique /\ RecordNumber /\ RequestTellsLastAttempt

LEMMA EvidenceInit == Init => EvidenceInv
<1> SUFFICES ASSUME Init PROVE EvidenceInv
  OBVIOUS
<1>1. \A p \in Providers : Numbers(p) = {} /\ request[p] = "absent"
  BY DEF Init, Numbers
<1>2. NumbersDense
  <2>1. 1 .. 0 = {} /\ 0 \in Nat
    OBVIOUS
  <2> QED
    BY <1>1, <2>1 DEF NumbersDense
<1> QED
  BY <1>1, <1>2 DEF Init, Idle, EvidenceInv, NumbersUnique, RecordNumber, RequestTellsLastAttempt

(* Steps that leave the evidence alone and start no recording. *)
LEMMA EvidenceFrame ==
  ASSUME EvidenceInv, UNCHANGED <<request, attempts>>, job \in [Jobs -> Job],
         NEW j \in Jobs, NEW r \in Job, Become(j, r), r.phase # "record"
  PROVE  EvidenceInv'
<1>1. \A k \in Jobs : job'[k].phase = "record" => job'[k] = job[k]
  BY DEF Become
<1>2. \A p : Numbers(p)' = Numbers(p)
  BY DEF Numbers
<1> QED
  BY <1>1, <1>2 DEF EvidenceInv, NumbersDense, NumbersUnique, RecordNumber,
     RequestTellsLastAttempt

LEMMA EvidenceOpen ==
  ASSUME TypeInv, EvidenceInv, NEW j \in Jobs, NEW n, Open(j, n)
  PROVE  EvidenceInv'
<1> DEFINE p == job[j].provider
<1>1. n = 1 \/ n - 1 \in Numbers(p)
  <2>1. CASE Listed(p) = {}
    BY <2>1 DEF Open, IsNextNumber
  <2>2. ASSUME NEW a \in Listed(p), n = a.no + 1 PROVE n - 1 \in Numbers(p)
    <3>1. a \in attempts /\ a.provider = p /\ a.no \in Nat
      BY DEF Listed, TypeInv, TypeOK, Attempt
    <3>2. n - 1 = a.no
      BY <2>2, <3>1
    <3> QED
      BY <3>1, <3>2 DEF Numbers
  <2> QED
    BY <2>1, <2>2 DEF Open, IsNextNumber
<1>2. /\ job' = [job EXCEPT ![j] = [job[j] EXCEPT !.phase = "record", !.no = n]]
      /\ UNCHANGED <<request, attempts>>
  BY DEF Open, Become
<1>3. job \in [Jobs -> Job]
  BY DEF TypeInv, TypeOK
<1>4. job'[j].no = n /\ job'[j].provider = p /\ \A k \in Jobs : k # j => job'[k] = job[k]
  BY <1>2, <1>3 DEF Job
<1>5. \A q : Numbers(q)' = Numbers(q)
  BY <1>2 DEF Numbers
<1>6. RecordNumber'
  BY <1>1, <1>4, <1>5 DEF EvidenceInv, RecordNumber
<1> QED
  BY <1>2, <1>5, <1>6 DEF EvidenceInv, NumbersDense, NumbersUnique, RequestTellsLastAttempt

(* The number that was free is the next one, so the new attempt is the     *)
(* latest of its request.                                                  *)
LEMMA EvidenceRecord ==
  ASSUME TypeInv, EvidenceInv, NEW j \in Jobs, Record(j)
  PROVE  EvidenceInv'
<1>t. job \in [Jobs -> Job] /\ job[j].phase = "record"
  BY DEF TypeInv, TypeOK, Record
<1>p. PICK p \in Providers : p = job[j].provider
  BY <1>t DEF Job
<1>a. PICK a : a = [provider |-> p, no |-> job[j].no, finished |-> job[j].finished,
                    answer |-> job[j].answer]
  OBVIOUS
<1>n. a.no = job[j].no /\ a.no \in Nat /\ a.provider = p /\ a.answer = job[j].answer
  BY <1>t, <1>a DEF Job
<1>0. job \in [Jobs -> Job] /\ job[j].phase = "record" /\ job[j].provider = p /\ job[j].no = a.no
  BY <1>t, <1>p, <1>n
<1>1. CASE ~NumberFree(p, a.no)
  <2>1. Fail(j) /\ UNCHANGED <<request, attempts>>
    BY <1>0, <1>1 DEF Record
  <2>2. [job[j] EXCEPT !.phase = "failed", !.written = {}] \in Job
    BY <1>0 DEF Job, Phases, Over
  <2>3. [job[j] EXCEPT !.phase = "failed", !.written = {}].phase # "record"
    BY <1>0 DEF Job
  <2> QED
    BY <1>0, <2>1, <2>2, <2>3, EvidenceFrame DEF Fail
<1>2. CASE NumberFree(p, a.no)
  <2>1. /\ attempts' = attempts \union {a}
        /\ request' = [request EXCEPT ![p] = Outcome(job[j].answer)]
        /\ AfterEvidence(j)
    BY <1>0, <1>2, <1>a DEF Record
  <2>2. PICK n \in Nat : Numbers(p) = 1 .. n
    BY DEF EvidenceInv, NumbersDense
  <2>3. a.no = n + 1
    <3>1. a.no = 1 \/ a.no - 1 \in 1 .. n
      BY <1>0, <2>2 DEF EvidenceInv, RecordNumber
    <3>2. a.no \notin 1 .. n
      BY <1>2, <2>2 DEF NumberFree
    <3> QED
      BY <1>n, <3>1, <3>2
  <2>4. Numbers(p)' = 1 .. n + 1
    <3>1. Numbers(p)' = Numbers(p) \union {n + 1}
      BY <1>n, <2>1, <2>3 DEF Numbers
    <3> QED
      BY <2>2, <3>1
  <2>5. \A q \in Providers : q # p => Numbers(q)' = Numbers(q)
    BY <1>n, <2>1 DEF Numbers
  <2>6. NumbersDense'
    <3>1. n + 1 \in Nat
      OBVIOUS
    <3> QED
      BY <2>4, <2>5, <3>1 DEF EvidenceInv, NumbersDense
  <2>7. NumbersUnique'
    <3>1. \A b \in attempts : ~(b.provider = p /\ b.no = a.no)
      BY <1>2 DEF NumberFree, Numbers
    <3> QED
      BY <1>n, <2>1, <3>1 DEF EvidenceInv, NumbersUnique
  <2>8. \A k \in Jobs : job'[k].phase = "record" => k # j /\ job'[k] = job[k]
    BY <1>0, <2>1 DEF AfterEvidence, Goto, Become, Job
  <2>9. \A q \in Providers : Numbers(q) \subseteq Numbers(q)'
    BY <2>1 DEF Numbers
  <2>10. RecordNumber'
    <3>1. \A k \in Jobs : job[k].provider \in Providers
      BY <1>0 DEF Job
    <3> QED
      BY <2>8, <2>9, <3>1 DEF EvidenceInv, RecordNumber
  <2>11. RequestTellsLastAttempt'
    <3>0. request \in [Providers -> {"absent", "failed", "succeeded"}]
      BY DEF TypeInv, TypeOK
    <3>1. ASSUME NEW q \in Providers, q # p
          PROVE  /\ request'[q] = "absent" <=> Numbers(q)' = {}
                 /\ \A b \in attempts' :
                      b.provider = q /\ (\A m \in Numbers(q)' : m <= b.no)
                        => request'[q] = Outcome(b.answer)
      BY <1>n, <3>0, <3>1, <2>1, <2>5 DEF EvidenceInv, RequestTellsLastAttempt
    <3>2. request'[p] = Outcome(job[j].answer) /\ request'[p] # "absent" /\ Numbers(p)' # {}
      BY <1>0, <2>1, <2>4, <3>0 DEF Outcome
    <3>3. ASSUME NEW b \in attempts', b.provider = p, \A m \in Numbers(p)' : m <= b.no
          PROVE  b = a
      <4>1. n + 1 <= b.no
        BY <2>4, <3>3
      <4>2. CASE b \in attempts
        <5>1. b.no \in 1 .. n
          BY <2>2, <3>3, <4>2 DEF Numbers
        <5> QED
          BY <4>1, <5>1
      <4> QED
        BY <2>1, <4>2
    <3> QED
      BY <1>n, <3>1, <3>2, <3>3 DEF RequestTellsLastAttempt
  <2> QED
    BY <2>6, <2>7, <2>10, <2>11 DEF EvidenceInv
<1> QED
  BY <1>1, <1>2

-----------------------------------------------------------------------------
(* The bars: revisions are the numbers from 1 on, and an uncommitted row   *)
(* has the next one, which nobody else can insert before its transaction   *)
(* ends.                                                                   *)

RowsDense  == \A i \in Instruments : \E n \in Nat : Revisions(i) = 1 .. n
RowsUnique == \A r, s \in bars : SameKey(r, s) => r = s

FollowsOn(i, n) == n \in Nat /\ (n = 1 \/ n - 1 \in Revisions(i))

(* An uncommitted row of job j *)
Pending(j, r) ==
  /\ r \in Row
  /\ r.inst \notin job[j].todo
  /\ FollowsOn(r.inst, r.rev)
  /\ \A s \in bars : ~SameKey(s, r)
  /\ \A k \in Jobs \ {j} : \A s \in job[k].written : ~SameKey(s, r)
  /\ \A s \in job[j].written : s.inst = r.inst => s = r

PendingRows == \A j \in Jobs : \A r \in job[j].written : Pending(j, r)

InTransaction ==
  \A j \in Jobs : job[j].written # {} => job[j].phase \in {"compare", "number", "insert"}

InsertNumber ==
  \A j \in Jobs : job[j].phase = "insert" =>
    \A i \in Instruments : NextUp(j, i) => FollowsOn(i, job[j].no)

RowsInv == RowsDense /\ RowsUnique /\ PendingRows /\ InTransaction /\ InsertNumber

LEMMA RowsInit == Init => RowsInv
<1> SUFFICES ASSUME Init PROVE RowsInv
  OBVIOUS
<1>1. \A i : Revisions(i) = {}
  BY DEF Init, Revisions, RowsOf
<1>2. RowsDense
  <2>1. 1 .. 0 = {} /\ 0 \in Nat
    OBVIOUS
  <2> QED
    BY <1>1, <2>1 DEF RowsDense
<1> QED
  BY <1>2 DEF Init, Idle, RowsInv, RowsUnique, PendingRows, InTransaction, InsertNumber

(* Steps that keep the bars, may roll a transaction back and start no      *)
(* insert.                                                                 *)
LEMMA RowsFrame ==
  ASSUME TypeInv, RowsInv, UNCHANGED bars, NEW j \in Jobs, NEW r \in Job, Become(j, r),
         r.phase # "insert",
         \/ r.written = {}
         \/ /\ r.written = job[j].written /\ r.todo \subseteq job[j].todo
            /\ r.phase \in {"compare", "number"}
  PROVE  RowsInv'
<1>1. job \in [Jobs -> Job] /\ job' \in [Jobs -> Job]
  BY DEF TypeInv, TypeOK, Become
<1>2. job'[j] = r /\ \A k \in Jobs : k # j => job'[k] = job[k]
  BY <1>1 DEF Become
<1>3. \A i : Revisions(i)' = Revisions(i)
  BY DEF Revisions, RowsOf
<1>4. \A k \in Jobs :
        /\ job'[k].written \subseteq job[k].written
        /\ job'[k].written # {} => job'[k].todo \subseteq job[k].todo
  BY <1>2
<1>5. PendingRows'
  <2>1. ASSUME NEW k \in Jobs, NEW s \in job'[k].written PROVE Pending(k, s)'
    BY <1>3, <1>4 DEF RowsInv, PendingRows, Pending, FollowsOn, SameKey
  <2> QED
    BY <2>1 DEF PendingRows
<1>6. InTransaction'
  BY <1>2 DEF RowsInv, InTransaction
<1>7. InsertNumber'
  BY <1>2, <1>3 DEF RowsInv, InsertNumber, NextUp, FollowsOn
<1> QED
  BY <1>3, <1>5, <1>6, <1>7 DEF RowsInv, RowsDense, RowsUnique, SameKey

LEMMA RowsNumber ==
  ASSUME TypeInv, RowsInv, NEW j \in Jobs, NEW i \in Instruments, Number(j, i)
  PROVE  RowsInv'
<1>1. job \in [Jobs -> Job] /\ bars \subseteq Row
  BY DEF TypeInv, TypeOK
<1>2. \E n \in Nat : /\ FollowsOn(i, n)
                     /\ Become(j, [job[j] EXCEPT !.phase = "insert", !.no = n])
  <2>1. CASE Become(j, [job[j] EXCEPT !.phase = "insert", !.no = 1])
    BY <2>1 DEF FollowsOn
  <2>2. ASSUME NEW r \in Latest(i),
               Become(j, [job[j] EXCEPT !.phase = "insert", !.no = r.rev + 1])
        PROVE  \E n \in Nat : /\ FollowsOn(i, n)
                              /\ Become(j, [job[j] EXCEPT !.phase = "insert", !.no = n])
    <3>1. r.rev \in Revisions(i) /\ r.rev \in Nat
      BY <1>1 DEF Latest, RowsOf, Revisions, Row
    <3>2. (r.rev + 1) - 1 = r.rev /\ r.rev + 1 \in Nat
      BY <3>1
    <3>3. FollowsOn(i, r.rev + 1)
      BY <3>1, <3>2 DEF FollowsOn
    <3> QED
      BY <2>2, <3>2, <3>3
  <2> QED
    BY <2>1, <2>2 DEF Number
<1>3. PICK n \in Nat : /\ FollowsOn(i, n)
                       /\ Become(j, [job[j] EXCEPT !.phase = "insert", !.no = n])
  BY <1>2
<1>4. /\ job'[j] = [job[j] EXCEPT !.phase = "insert", !.no = n]
      /\ \A k \in Jobs : k # j => job'[k] = job[k]
  BY <1>1, <1>3 DEF Become
<1>5. /\ job'[j].no = n /\ job'[j].phase = "insert"
      /\ \A k \in Jobs : job'[k].written = job[k].written /\ job'[k].todo = job[k].todo
  BY <1>1, <1>4 DEF Job
<1>6. bars' = bars /\ \A k : Revisions(k)' = Revisions(k)
  BY DEF Number, Revisions, RowsOf
<1>7. \A k \in Instruments : NextUp(j, k) => k = i
  <2>1. NextUp(j, i)
    BY DEF Number
  <2>2. ASSUME NEW k \in Instruments, NextUp(j, k) PROVE k = i
    <3>1. k \in Nat /\ i \in Nat /\ k <= i /\ i <= k
      BY <2>1, <2>2, IngestionOK DEF NextUp
    <3> QED
      BY <3>1
  <2> QED
    BY <2>2
<1>8. InsertNumber'
  <2>1. \A m \in Jobs, k \in Instruments : NextUp(m, k)' <=> NextUp(m, k)
    BY <1>5 DEF NextUp
  <2> QED
    BY <1>3, <1>4, <1>5, <1>6, <1>7, <2>1 DEF RowsInv, InsertNumber, FollowsOn
<1>9. PendingRows'
  <2>1. ASSUME NEW k \in Jobs, NEW r \in job'[k].written PROVE Pending(k, r)'
    <3>1. Pending(k, r)
      BY <1>5 DEF RowsInv, PendingRows
    <3> QED
      BY <1>5, <1>6, <3>1 DEF Pending, FollowsOn, SameKey
  <2> QED
    BY <2>1 DEF PendingRows
<1>10. InTransaction'
  BY <1>4, <1>5 DEF RowsInv, InTransaction
<1> QED
  BY <1>6, <1>8, <1>9, <1>10 DEF RowsInv, RowsDense, RowsUnique, SameKey

LEMMA RowsInsert ==
  ASSUME TypeInv, RowsInv, NEW j \in Jobs, NEW i \in Instruments, Insert(j, i), ~Fail(j)
  PROVE  RowsInv'
<1>1. job \in [Jobs -> Job] /\ bars \subseteq Row
  BY DEF TypeInv, TypeOK
<1>2. PICK row : row = [inst |-> i, rev |-> job[j].no, content |-> job[j].batch[i],
                        source |-> job[j].source]
  OBVIOUS
<1>3. /\ job[j].phase = "insert" /\ NextUp(j, i)
      /\ \A k \in Jobs \ {j} : \A r \in job[k].written : ~SameKey(r, row)
      /\ ~ \E r \in bars : SameKey(r, row)
      /\ Become(j, [job[j] EXCEPT !.phase = "compare", !.todo = @ \ {i},
                                  !.written = @ \union {row}])
      /\ UNCHANGED bars
  BY <1>2 DEF Insert
<1>4. row \in Row /\ row.inst = i /\ row.rev = job[j].no
  BY <1>1, <1>2, <1>3 DEF Row, Job, TypeInv, TodoHasBars, NextUp
<1>5. /\ job'[j] = [job[j] EXCEPT !.phase = "compare", !.todo = @ \ {i},
                                  !.written = @ \union {row}]
      /\ \A k \in Jobs : k # j => job'[k] = job[k]
  BY <1>1, <1>3 DEF Become
<1>6. /\ job'[j].phase = "compare" /\ job'[j].todo = job[j].todo \ {i}
      /\ job'[j].written = job[j].written \union {row}
  BY <1>1, <1>5 DEF Job
<1>7. \A k : Revisions(k)' = Revisions(k)
  BY <1>3 DEF Revisions, RowsOf
<1>8. FollowsOn(i, row.rev)
  BY <1>3, <1>4 DEF RowsInv, InsertNumber
<1>9. i \in job[j].todo
  BY <1>3 DEF NextUp
<1>10. ASSUME NEW k \in Jobs, NEW r \in job'[k].written PROVE Pending(k, r)'
  <2>1. CASE k = j /\ r = row
    <3>1. \A s \in job[j].written : s.inst # i
      BY <1>9 DEF RowsInv, PendingRows, Pending
    <3> QED
      BY <2>1, <3>1, <1>3, <1>4, <1>5, <1>6, <1>7, <1>8 DEF Pending, FollowsOn
  <2>2. CASE k = j /\ r # row
    <3>1. r \in job[j].written /\ Pending(j, r)
      BY <1>6, <2>2 DEF RowsInv, PendingRows
    <3>2. r.inst # i
      BY <1>9, <3>1 DEF Pending
    <3> QED
      BY <2>2, <3>1, <3>2, <1>3, <1>4, <1>5, <1>6, <1>7 DEF Pending, FollowsOn, SameKey
  <2>3. CASE k # j
    <3>1. r \in job[k].written /\ Pending(k, r) /\ ~SameKey(r, row)
      BY <1>3, <1>5, <2>3 DEF RowsInv, PendingRows
    <3>2. ~SameKey(row, r)
      BY <3>1 DEF SameKey
    <3> QED
      BY <2>3, <3>1, <3>2, <1>3, <1>5, <1>6, <1>7 DEF Pending, FollowsOn, SameKey
  <2> QED
    BY <2>1, <2>2, <2>3
<1>11. PendingRows'
  BY <1>10 DEF PendingRows
<1>12. InTransaction' /\ InsertNumber'
  BY <1>5, <1>6, <1>7 DEF RowsInv, InTransaction, InsertNumber, NextUp, FollowsOn
<1> QED
  BY <1>3, <1>7, <1>11, <1>12 DEF RowsInv, RowsDense, RowsUnique, SameKey

(* What a commit does to the revisions of an instrument. *)
LEMMA CommitRevisions ==
  ASSUME TypeInv, RowsInv, NEW j \in Jobs, Commit(j), NEW i \in Instruments,
         NEW n \in Nat, Revisions(i) = 1 .. n
  PROVE  /\ (\A r \in job[j].written : r.inst # i) =>
              RowsOf(i)' = RowsOf(i) /\ Revisions(i)' = 1 .. n
         /\ \A r \in job[j].written : r.inst = i =>
              /\ r.rev = n + 1
              /\ RowsOf(i)' = RowsOf(i) \union {r}
              /\ Revisions(i)' = 1 .. n + 1
<1>1. bars' = bars \union job[j].written
  BY DEF Commit
<1>2. ASSUME \A r \in job[j].written : r.inst # i
      PROVE  RowsOf(i)' = RowsOf(i) /\ Revisions(i)' = 1 .. n
  <2>1. RowsOf(i)' = RowsOf(i)
    BY <1>1, <1>2 DEF RowsOf
  <2> QED
    BY <2>1 DEF Revisions
<1>3. ASSUME NEW r \in job[j].written, r.inst = i
      PROVE  /\ r.rev = n + 1
             /\ RowsOf(i)' = RowsOf(i) \union {r}
             /\ Revisions(i)' = 1 .. n + 1
  <2>1. Pending(j, r)
    BY DEF RowsInv, PendingRows
  <2>2. r.rev \notin 1 .. n
    BY <1>3, <2>1 DEF Pending, SameKey, Revisions, RowsOf
  <2>3. r.rev \in Nat /\ (r.rev = 1 \/ r.rev - 1 \in 1 .. n)
    BY <1>3, <2>1 DEF Pending, FollowsOn
  <2>4. r.rev = n + 1
    BY <2>2, <2>3
  <2>5. RowsOf(i)' = RowsOf(i) \union {r}
    BY <1>1, <1>3, <2>1 DEF RowsOf, Pending
  <2>6. Revisions(i)' = Revisions(i) \union {r.rev}
    BY <2>5 DEF Revisions
  <2> QED
    BY <2>4, <2>5, <2>6
<1> QED
  BY <1>2, <1>3

LEMMA RowsCommit ==
  ASSUME TypeInv, RowsInv, NEW j \in Jobs, Commit(j)
  PROVE  RowsInv'
<1>1. job \in [Jobs -> Job] /\ bars \subseteq Row
  BY DEF TypeInv, TypeOK
<1>2. bars' = bars \union job[j].written
  BY DEF Commit
<1>3. /\ job'[j] = [job[j] EXCEPT !.phase = "done", !.written = {}]
      /\ \A k \in Jobs : k # j => job'[k] = job[k]
  BY <1>1 DEF Commit, Become
<1>4. job'[j].phase = "done" /\ job'[j].written = {}
  BY <1>1, <1>3 DEF Job
<1>5. RowsDense'
  <2>1. ASSUME NEW i \in Instruments PROVE \E n \in Nat : Revisions(i)' = 1 .. n
    <3>1. PICK n \in Nat : Revisions(i) = 1 .. n
      BY DEF RowsInv, RowsDense
    <3>2. n + 1 \in Nat
      OBVIOUS
    <3> QED
      BY <3>1, <3>2, CommitRevisions
  <2> QED
    BY <2>1 DEF RowsDense
<1>6. RowsUnique'
  <2>1. \A r \in job[j].written : \A s \in bars : ~SameKey(s, r) /\ ~SameKey(r, s)
    BY DEF RowsInv, PendingRows, Pending, SameKey
  <2>2. \A r, s \in job[j].written : SameKey(r, s) => r = s
    BY DEF RowsInv, PendingRows, Pending, SameKey
  <2>3. \A r, s \in bars \union job[j].written : SameKey(r, s) => r = s
    BY <2>1, <2>2 DEF RowsInv, RowsUnique
  <2> QED
    BY <1>2, <2>3 DEF RowsUnique, SameKey
<1>7. \A i : Revisions(i) \subseteq Revisions(i)'
  BY <1>2 DEF Revisions, RowsOf
<1>8. PendingRows'
  <2>1. ASSUME NEW k \in Jobs, NEW r \in job'[k].written PROVE Pending(k, r)'
    <3>1. k # j /\ r \in job[k].written /\ Pending(k, r)
      BY <1>3, <1>4 DEF RowsInv, PendingRows
    <3>2. \A s \in job[j].written : ~SameKey(s, r)
      BY <3>1 DEF Pending
    <3>3. \A m \in Jobs : job'[m].written \subseteq job[m].written
      BY <1>3, <1>4
    <3>4. \A s \in bars' : ~SameKey(s, r)
      BY <1>2, <3>1, <3>2 DEF Pending
    <3>5. FollowsOn(r.inst, r.rev)'
      BY <1>7, <3>1 DEF Pending, FollowsOn
    <3>6. \A m \in Jobs \ {k} : \A s \in job'[m].written : ~SameKey(s, r)
      BY <3>1, <3>3 DEF Pending
    <3> QED
      BY <1>3, <3>1, <3>4, <3>5, <3>6 DEF Pending, SameKey
  <2> QED
    BY <2>1 DEF PendingRows
<1>9. InTransaction' /\ InsertNumber'
  BY <1>3, <1>4, <1>7 DEF RowsInv, InTransaction, InsertNumber, NextUp, FollowsOn
<1> QED
  BY <1>5, <1>6, <1>8, <1>9 DEF RowsInv

-----------------------------------------------------------------------------
(* The theorems *)

IngestionInv == TypeInv /\ EvidenceInv /\ RowsInv

LEMMA IngestionInit == Init => IngestionInv
  BY IngestionTypeInit, EvidenceInit, RowsInit DEF IngestionInv

(* A step that only moves a job on: it neither records evidence nor writes *)
(* a bar, and keeps or rolls back its transaction.                         *)
LEMMA IngestionFrame ==
  ASSUME IngestionInv, UNCHANGED <<request, attempts, bars>>,
         NEW j \in Jobs, NEW r \in Job, Become(j, r), r.phase \notin {"record", "insert"},
         \/ r.written = {}
         \/ /\ r.written = job[j].written /\ r.todo \subseteq job[j].todo
            /\ r.phase \in {"compare", "number"}
  PROVE  EvidenceInv' /\ RowsInv'
<1>1. job \in [Jobs -> Job] /\ TypeInv /\ EvidenceInv /\ RowsInv
  BY DEF IngestionInv, TypeInv, TypeOK
<1>2. EvidenceInv'
  BY <1>1, EvidenceFrame
<1>3. RowsInv'
  BY <1>1, RowsFrame
<1> QED
  BY <1>2, <1>3

LEMMA IngestionStep == IngestionInv /\ [Next]_vars => IngestionInv'
<1> SUFFICES ASSUME IngestionInv, [Next]_vars PROVE IngestionInv'
  OBVIOUS
<1>t. TypeInv /\ EvidenceInv /\ RowsInv /\ TypeInv' /\ job \in [Jobs -> Job]
  BY IngestionTypeStep DEF IngestionInv, TypeInv, TypeOK
<1> SUFFICES EvidenceInv' /\ RowsInv'
  BY <1>t DEF IngestionInv
<1>o. \A j \in Jobs : job[j].phase \notin {"compare", "number", "insert"} => job[j].written = {}
  BY <1>t DEF RowsInv, InTransaction
<1>e. ASSUME NEW j \in Jobs, NEW p \in Phases, Goto(j, p), UNCHANGED <<request, attempts, bars>>,
             p \notin {"record", "insert"},
             job[j].written = {} \/ p \in {"compare", "number"}
      PROVE  EvidenceInv' /\ RowsInv'
  <2> DEFINE r == [job[j] EXCEPT !.phase = p]
  <2>1. r \in Job /\ r.phase = p /\ r.written = job[j].written /\ r.todo = job[j].todo
    BY <1>t DEF Job
  <2>2. Become(j, r)
    BY <1>e DEF Goto
  <2> HIDE DEF r
  <2> QED
    BY <1>e, <2>1, <2>2, IngestionFrame
<1>f. ASSUME NEW j \in Jobs, NEW p \in Over, UNCHANGED <<request, attempts, bars>>,
             Become(j, [job[j] EXCEPT !.phase = p, !.written = {}])
      PROVE  EvidenceInv' /\ RowsInv'
  <2> DEFINE r == [job[j] EXCEPT !.phase = p, !.written = {}]
  <2>1. r \in Job /\ r.phase = p /\ r.written = {} /\ p \notin {"record", "insert"}
    BY <1>t DEF Job, Phases, Over
  <2>2. Become(j, r)
    BY <1>f
  <2> HIDE DEF r
  <2> QED
    BY <2>1, <2>2, <1>f, IngestionFrame
<1>g. ASSUME NEW j \in Jobs, NEW r \in Job, Become(j, r), UNCHANGED <<request, attempts, bars>>,
             r.phase \notin {"record", "insert"}, r.written = {}
      PROVE  EvidenceInv' /\ RowsInv'
  BY <1>g, IngestionFrame
<1>1. ASSUME NEW j \in Jobs, Begin(j) PROVE EvidenceInv' /\ RowsInv'
  BY <1>1, <1>e, <1>o DEF Begin, Phases
<1>2. ASSUME NEW j \in Jobs, NEW answer \in Answers, Fetch(j, answer)
      PROVE  EvidenceInv' /\ RowsInv'
  <2> DEFINE r == [job[j] EXCEPT !.phase = "open", !.answer = answer, !.finished = now + 1]
  <2>1. now + 1 \in Nat
    BY <1>t DEF TypeInv, TypeOK
  <2>2. r \in Job /\ r.phase = "open" /\ r.written = job[j].written
    BY <1>t, <2>1 DEF Job, Phases
  <2>3. Become(j, r) /\ job[j].written = {} /\ UNCHANGED <<request, attempts, bars>>
    BY <1>2, <1>o DEF Fetch
  <2> HIDE DEF r
  <2> QED
    BY <1>g, <2>2, <2>3
<1>3. ASSUME NEW j \in Jobs, NEW n \in 1 .. Cardinality(attempts) + 1, Open(j, n)
      PROVE  EvidenceInv' /\ RowsInv'
  <2> DEFINE r == [job[j] EXCEPT !.phase = "record", !.no = n]
  <2>0. n \in Nat
    BY <1>3, <1>t DEF Open, IsNextNumber, Listed, Attempt, TypeInv, TypeOK
  <2>1. r \in Job /\ r.phase = "record" /\ r.written = {}
    BY <1>3, <1>t, <1>o, <2>0 DEF Open, Job, Phases
  <2>2. Become(j, r) /\ UNCHANGED bars
    BY <1>3 DEF Open
  <2>3. EvidenceInv'
    BY <1>3, <1>t, EvidenceOpen
  <2> HIDE DEF r
  <2>4. RowsInv'
    BY <1>t, <2>1, <2>2, RowsFrame
  <2> QED
    BY <2>3, <2>4
<1>4. ASSUME NEW j \in Jobs, Record(j) PROVE EvidenceInv' /\ RowsInv'
  <2>1. EvidenceInv'
    BY <1>4, <1>t, EvidenceRecord
  <2>2. job[j].written = {} /\ UNCHANGED bars
    BY <1>4, <1>o DEF Record
  <2>3. PICK r \in Job : Become(j, r) /\ r.phase # "insert" /\ r.written = {}
    <3>1. CASE Fail(j)
      <4>1. /\ [job[j] EXCEPT !.phase = "failed", !.written = {}] \in Job
            /\ [job[j] EXCEPT !.phase = "failed", !.written = {}].phase # "insert"
            /\ [job[j] EXCEPT !.phase = "failed", !.written = {}].written = {}
        BY <1>t DEF Job, Phases, Over
      <4> QED
        BY <3>1, <4>1 DEF Fail
    <3>2. CASE AfterEvidence(j)
      <4>1. /\ [job[j] EXCEPT !.phase = "select"] \in Job
            /\ [job[j] EXCEPT !.phase = "select"].phase # "insert"
            /\ [job[j] EXCEPT !.phase = "select"].written = {}
        BY <1>t, <2>2 DEF Job, Phases
      <4>2. /\ [job[j] EXCEPT !.phase = "fetch", !.provider = Fallback] \in Job
            /\ [job[j] EXCEPT !.phase = "fetch", !.provider = Fallback].phase # "insert"
            /\ [job[j] EXCEPT !.phase = "fetch", !.provider = Fallback].written = {}
        BY <1>t, <2>2 DEF Job, Phases, Providers
      <4> QED
        BY <3>2, <4>1, <4>2 DEF AfterEvidence, Goto
    <3> QED
      BY <1>4, <3>1, <3>2 DEF Record
  <2>4. RowsInv'
    BY <1>t, <2>2, <2>3, RowsFrame
  <2> QED
    BY <2>1, <2>4
<1>5. ASSUME NEW j \in Jobs, Select(j) PROVE EvidenceInv' /\ RowsInv'
  <2>1. /\ [job[j] EXCEPT !.phase = "pick", !.provider = Primary] \in Job
        /\ [job[j] EXCEPT !.phase = "pick", !.provider = Primary].phase = "pick"
        /\ [job[j] EXCEPT !.phase = "pick", !.provider = Primary].written = job[j].written
    BY <1>t DEF Job, Phases, Providers
  <2>2. job[j].written = {} /\ UNCHANGED <<request, attempts, bars>>
    BY <1>5, <1>o DEF Select
  <2>3. CASE Become(j, [job[j] EXCEPT !.phase = "pick", !.provider = Primary])
    BY <1>g, <2>1, <2>2, <2>3
  <2>4. CASE Goto(j, "check") \/ Goto(j, "skipped")
    BY <1>e, <2>2, <2>4 DEF Phases, Over
  <2> QED
    BY <1>5, <2>3, <2>4 DEF Select
<1>6. ASSUME NEW j \in Jobs, Check(j) PROVE EvidenceInv' /\ RowsInv'
  BY <1>6, <1>e, <1>o DEF Check, Phases, Over
<1>7. ASSUME NEW j \in Jobs, Probe(j) PROVE EvidenceInv' /\ RowsInv'
  <2>1. /\ [job[j] EXCEPT !.phase = "pick", !.provider = Fallback] \in Job
        /\ [job[j] EXCEPT !.phase = "pick", !.provider = Fallback].phase = "pick"
        /\ [job[j] EXCEPT !.phase = "pick", !.provider = Fallback].written = job[j].written
    BY <1>t DEF Job, Phases, Providers
  <2>2. job[j].written = {} /\ UNCHANGED <<request, attempts, bars>>
    BY <1>7, <1>o DEF Probe
  <2>3. CASE Become(j, [job[j] EXCEPT !.phase = "pick", !.provider = Fallback])
    BY <1>g, <2>1, <2>2, <2>3
  <2>4. CASE Goto(j, "skipped")
    BY <1>e, <2>2, <2>4 DEF Phases, Over
  <2> QED
    BY <1>7, <2>3, <2>4 DEF Probe
<1>8. ASSUME NEW j \in Jobs, Pick(j) PROVE EvidenceInv' /\ RowsInv'
  <2>1. job[j].written = {} /\ UNCHANGED <<request, attempts, bars>>
    BY <1>8, <1>o DEF Pick
  <2>2. CASE Fail(j)
    BY <1>f, <2>1, <2>2 DEF Fail, Over
  <2>3. ASSUME NEW a \in Picked(job[j].provider),
               Become(j, [job[j] EXCEPT !.phase = "compare", !.source = a.finished,
                                        !.batch = a.answer.batch,
                                        !.todo = WithBar(a.answer.batch)])
        PROVE  EvidenceInv' /\ RowsInv'
    <3> DEFINE r == [job[j] EXCEPT !.phase = "compare", !.source = a.finished,
                                   !.batch = a.answer.batch,
                                   !.todo = WithBar(a.answer.batch)]
    <3>1. job'[j] = r /\ job'[j] \in Job
      BY <1>t, <2>3 DEF Become, TypeInv, TypeOK
    <3>2. r.phase = "compare" /\ r.written = {} /\ Become(j, r)
      BY <1>t, <2>1, <2>3 DEF Job
    <3> HIDE DEF r
    <3> QED
      BY <1>g, <2>1, <3>1, <3>2
  <2> QED
    BY <1>8, <2>2, <2>3 DEF Pick
<1>9. ASSUME NEW j \in Jobs, Commit(j) PROVE EvidenceInv' /\ RowsInv'
  <2>1. RowsInv'
    BY <1>9, <1>t, RowsCommit
  <2>2. /\ [job[j] EXCEPT !.phase = "done", !.written = {}] \in Job
        /\ [job[j] EXCEPT !.phase = "done", !.written = {}].phase # "record"
    BY <1>t DEF Job, Phases, Over
  <2>3. EvidenceInv'
    BY <1>9, <1>t, <2>2, EvidenceFrame DEF Commit
  <2> QED
    BY <2>1, <2>3
<1>10. ASSUME NEW j \in Jobs, NEW i \in Instruments, Compare(j, i)
       PROVE  EvidenceInv' /\ RowsInv'
  <2>1. CASE Goto(j, "number")
    BY <1>10, <1>e, <2>1 DEF Compare, Phases
  <2>2. CASE Become(j, [job[j] EXCEPT !.todo = @ \ {i}])
    <3> DEFINE r == [job[j] EXCEPT !.todo = @ \ {i}]
    <3>1. r \in Job /\ r.phase = "compare" /\ r.written = job[j].written /\ r.todo \subseteq job[j].todo
      BY <1>10, <1>t DEF Compare, Job
    <3>2. Become(j, r)
      BY <2>2
    <3> HIDE DEF r
    <3> QED
      BY <1>10, <3>1, <3>2, IngestionFrame DEF Compare
  <2> QED
    BY <1>10, <2>1, <2>2 DEF Compare
<1>11. ASSUME NEW j \in Jobs, NEW i \in Instruments, Number(j, i)
       PROVE  EvidenceInv' /\ RowsInv'
  <2>1. RowsInv'
    BY <1>11, <1>t, RowsNumber
  <2>2. job'[j].phase = "insert" /\ job'[j] \in Job /\ Become(j, job'[j])
    BY <1>11, <1>t DEF Number, Become, Job, TypeInv, TypeOK
  <2>3. EvidenceInv'
    BY <1>11, <1>t, <2>2, EvidenceFrame DEF Number
  <2> QED
    BY <2>1, <2>3
<1>12. ASSUME NEW j \in Jobs, NEW i \in Instruments, Insert(j, i)
       PROVE  EvidenceInv' /\ RowsInv'
  <2>1. CASE Fail(j)
    BY <1>12, <1>f, <2>1 DEF Insert, Fail, Over
  <2>2. CASE ~Fail(j)
    <3>1. RowsInv'
      BY <1>12, <1>t, <2>2, RowsInsert
    <3>0. PICK row : Become(j, [job[j] EXCEPT !.phase = "compare", !.todo = @ \ {i},
                                               !.written = @ \union {row}])
      BY <1>12, <2>2 DEF Insert
    <3>2. job'[j].phase = "compare" /\ job'[j] \in Job /\ Become(j, job'[j])
      <4>1. job'[j] \in Job
        BY <1>t DEF TypeInv, TypeOK
      <4>2. job'[j] = [job[j] EXCEPT !.phase = "compare", !.todo = @ \ {i},
                                     !.written = @ \union {row}]
        BY <1>t, <3>0 DEF Become
      <4>3. job'[j].phase = "compare"
        BY <1>t, <4>2 DEF Job
      <4> QED
        BY <3>0, <4>1, <4>2, <4>3
    <3>3. EvidenceInv'
      BY <1>12, <1>t, <3>2, EvidenceFrame DEF Insert
    <3> QED
      BY <3>1, <3>3
  <2> QED
    BY <2>1, <2>2
<1>13. ASSUME NEW j \in Jobs, Die(j) PROVE EvidenceInv' /\ RowsInv'
  BY <1>13, <1>f DEF Die, Over
<1>14. ASSUME UNCHANGED vars PROVE EvidenceInv' /\ RowsInv'
  <2>1. EvidenceInv'
    BY <1>14, <1>t DEF vars, EvidenceInv, NumbersDense, NumbersUnique, RecordNumber, Numbers,
       RequestTellsLastAttempt
  <2>2. RowsDense' /\ RowsUnique' /\ PendingRows'
    BY <1>14, <1>t DEF vars, RowsInv, RowsDense, RowsUnique, PendingRows, Pending,
       FollowsOn, Revisions, RowsOf, SameKey
  <2>3. InTransaction' /\ InsertNumber'
    BY <1>14, <1>t DEF vars, RowsInv, InTransaction, InsertNumber, NextUp, FollowsOn,
       Revisions, RowsOf
  <2> QED
    BY <2>1, <2>2, <2>3 DEF RowsInv
<1> QED
  BY <1>1, <1>2, <1>3, <1>4, <1>5, <1>6, <1>7, <1>8, <1>9, <1>10, <1>11, <1>12, <1>13, <1>14
     DEF Next, Advance

LEMMA IngestionAlways == Spec => []IngestionInv
  BY IngestionInit, IngestionStep, PTL DEF Spec

(* Every variable keeps its type (the state of write_etf_daily_bars_raw,   *)
(* etf_daily_bars and upsert_etf_daily_bars).                              *)
THEOREM IngestionTypeCorrect == Spec => []TypeOK
<1>1. IngestionInv => TypeOK
  BY DEF IngestionInv, TypeInv
<1> QED
  BY IngestionAlways, <1>1, PTL

(* The status of a provider request is the outcome of its latest attempt,  *)
(* however the recordings of overlapping jobs interleave.                  *)
THEOREM IngestionRequestTellsLastAttempt == Spec => []RequestTellsLastAttempt
<1>1. IngestionInv => RequestTellsLastAttempt
  BY DEF IngestionInv, EvidenceInv
<1> QED
  BY IngestionAlways, <1>1, PTL

(* The bars implement BarHistory, for any number of overlapping jobs that  *)
(* may die at any step: every instrument has the revisions from 1 on once  *)
(* each, and a commit of upsert_etf_daily_bars adds one to some of them.   *)
H == [i \in Instruments |-> HistoryOf(i)]

LEMMA HistoryIsSeq ==
  ASSUME TypeInv, NEW i \in Instruments, NEW n \in Nat, Revisions(i) = 1 .. n
  PROVE  HistoryOf(i) \in Seq(SUBSET Contents) /\ Len(HistoryOf(i)) = n
<1>1. \A m \in 1 .. n : {r.content : r \in {s \in RowsOf(i) : s.rev = m}} \in SUBSET Contents
  BY DEF TypeInv, TypeOK, RowsOf, Row
<1>2. HistoryOf(i) \in [1 .. n -> SUBSET Contents]
  BY <1>1 DEF HistoryOf
<1> QED
  BY <1>2

LEMMA HistoryCommit ==
  ASSUME TypeInv, RowsInv, NEW j \in Jobs, Commit(j), NEW i \in Instruments,
         NEW r \in job[j].written, r.inst = i
  PROVE  HistoryOf(i)' = Append(HistoryOf(i), {r.content})
<1>1. PICK n \in Nat : Revisions(i) = 1 .. n
  BY DEF RowsInv, RowsDense
<1>2. /\ r.rev = n + 1
      /\ RowsOf(i)' = RowsOf(i) \union {r}
      /\ Revisions(i)' = 1 .. n + 1
  BY <1>1, CommitRevisions
<1>3. HistoryOf(i) \in Seq(SUBSET Contents) /\ Len(HistoryOf(i)) = n
  BY <1>1, HistoryIsSeq
<1>4. {r.content} \in SUBSET Contents
  BY DEF TypeInv, TypeOK, Job, Row
<1>5. Append(HistoryOf(i), {r.content}) =
        [m \in 1 .. n + 1 |-> IF m <= n THEN HistoryOf(i)[m] ELSE {r.content}]
  BY <1>3, <1>4
<1>6. HistoryOf(i)' =
        [m \in 1 .. n + 1 |-> {s.content : s \in {t \in RowsOf(i) \union {r} : t.rev = m}}]
  BY <1>2 DEF HistoryOf
<1>7. ASSUME NEW m \in 1 .. n
      PROVE  {s.content : s \in {t \in RowsOf(i) \union {r} : t.rev = m}} = HistoryOf(i)[m]
  <2>1. {t \in RowsOf(i) \union {r} : t.rev = m} = {t \in RowsOf(i) : t.rev = m}
    BY <1>2
  <2> QED
    BY <1>1, <2>1 DEF HistoryOf
<1>8. {s.content : s \in {t \in RowsOf(i) \union {r} : t.rev = n + 1}} = {r.content}
  <2>1. \A t \in RowsOf(i) : t.rev # n + 1
    <3>1. \A t \in RowsOf(i) : t.rev \in 1 .. n
      BY <1>1 DEF Revisions
    <3> QED
      BY <3>1
  <2>2. {t \in RowsOf(i) \union {r} : t.rev = n + 1} = {r}
    BY <1>2, <2>1
  <2> QED
    BY <2>2
<1>9. \A m \in 1 .. n + 1 :
        {s.content : s \in {t \in RowsOf(i) \union {r} : t.rev = m}} =
          (IF m <= n THEN HistoryOf(i)[m] ELSE {r.content})
  <2>1. \A m \in 1 .. n + 1 : m \in 1 .. n \/ (m = n + 1 /\ ~(m <= n))
    OBVIOUS
  <2> QED
    BY <1>7, <1>8, <2>1
<1> QED
  BY <1>5, <1>6, <1>9

THEOREM IngestionImplementsHistory == Spec => ImplementsHistory
<1>1. Init => History!Init
  <2> SUFFICES ASSUME Init PROVE \A i \in Instruments : HistoryOf(i) = <<>>
    BY DEF History!Init
  <2>1. \A i \in Instruments : Revisions(i) = {}
    BY DEF Init, Revisions, RowsOf
  <2> QED
    BY <2>1 DEF HistoryOf
<1>2. IngestionInv /\ [Next]_vars => [History!Next]_H
  <2> SUFFICES ASSUME IngestionInv, [Next]_vars PROVE [History!Next]_H
    OBVIOUS
  <2>t. TypeInv /\ RowsInv
    BY DEF IngestionInv
  <2>1. CASE UNCHANGED bars
    BY <2>1 DEF H, HistoryOf, Revisions, RowsOf
  <2>2. ASSUME NEW j \in Jobs, Commit(j) PROVE [History!Next]_H
    <3> DEFINE W == job[j].written
    <3>1. CASE W = {}
      BY <2>2, <3>1 DEF Commit, H, HistoryOf, Revisions, RowsOf
    <3>2. CASE W # {}
      <4>1. PICK S : S = {i \in Instruments : \E r \in W : r.inst = i}
        OBVIOUS
      <4>2. PICK b : b = [i \in Instruments |->
                           {(CHOOSE r \in W : i \in S => r.inst = i).content}]
        OBVIOUS
      <4>3. \A i \in Instruments : \E r \in W : i \in S => r.inst = i
        BY <3>2, <4>1
      <4>4. W \subseteq Row
        BY <2>t DEF TypeInv, TypeOK, Job
      <4>5. b \in [Instruments -> {{c} : c \in Contents}]
        <5>1. ASSUME NEW i \in Instruments
              PROVE  {(CHOOSE r \in W : i \in S => r.inst = i).content}
                       \in {{c} : c \in Contents}
          <6>1. PICK r \in W : r = (CHOOSE q \in W : i \in S => q.inst = i)
            BY <4>3
          <6>2. r.content \in Contents
            BY <4>4, <6>1 DEF Row
          <6> QED
            BY <6>1, <6>2
        <5> QED
          BY <4>2, <5>1
      <4>6. ASSUME NEW i \in Instruments
            PROVE  HistoryOf(i)' = IF i \in S THEN Append(HistoryOf(i), b[i]) ELSE HistoryOf(i)
        <5>1. CASE i \in S
          <6>1. PICK r \in W : r = (CHOOSE q \in W : i \in S => q.inst = i)
            BY <4>3
          <6>2. r.inst = i /\ b[i] = {r.content}
            BY <4>2, <4>3, <5>1, <6>1
          <6> QED
            BY <2>2, <2>t, <5>1, <6>2, HistoryCommit
        <5>2. CASE i \notin S
          <6>1. \A r \in W : r.inst # i
            BY <4>1, <5>2
          <6>2. PICK n \in Nat : Revisions(i) = 1 .. n
            BY <2>t DEF RowsInv, RowsDense
          <6>3. RowsOf(i)' = RowsOf(i)
            BY <2>2, <2>t, <6>1, <6>2, CommitRevisions
          <6> QED
            BY <5>2, <6>3 DEF HistoryOf, Revisions
        <5> QED
          BY <5>1, <5>2
      <4>7. History!Collect(b)
        <5>1. S \in SUBSET Instruments
          BY <4>1
        <5> QED
          BY <4>6, <5>1 DEF History!Collect
      <4> QED
        BY <4>5, <4>7 DEF History!Next
    <3> QED
      BY <3>1, <3>2
  <2>3. (\E j \in Jobs : Commit(j)) \/ UNCHANGED bars
    BY DEF Next, Advance, vars, Begin, Fetch, Open, Record, Select, Check, Probe, Pick,
       Compare, Number, Insert, Die
  <2> QED
    BY <2>1, <2>2, <2>3
<1> QED
  BY <1>1, <1>2, IngestionAlways, PTL DEF Spec, ImplementsHistory, History!Spec, H

-----------------------------------------------------------------------------
(* One job at a time: the rows it is about to commit differ from the       *)
(* latest ones, which nobody changes in the meantime.                      *)

Alone == \A j, k \in Active : j = k

SomethingNew(w) ==
  /\ w.phase \in {"number", "insert"} =>
       \A i \in w.todo : (\A k \in w.todo : i <= k) => ~SameContent(i, w.batch[i])
  /\ \A r \in w.written : ~SameContent(r.inst, r.content)

DifferInv == Alone /\ RevisionsDiffer /\ \A j \in Jobs : SomethingNew(job[j])

(* ... and what it upserts is its own answer. *)

Asked == {"open", "record", "select", "check", "probe", "pick", "compare", "number", "insert"}

(* The job that has asked did so last. *)
Clock ==
  /\ \A k \in Jobs : job[k].finished <= now
  /\ \A a \in attempts : a.finished <= now
  /\ \A j \in Jobs : job[j].phase \in Asked =>
       job[j].finished = now /\ \A k \in Jobs \ {j} : job[k].finished < now

(* The attempt the job has recorded is the last one. *)
OwnEvidence(w) ==
  \E a \in attempts :
    /\ a.provider = w.provider /\ a.answer = w.answer /\ a.finished = now
    /\ \A n \in Numbers(w.provider) : n <= a.no
    /\ \A b \in attempts : b.finished = now => b = a

EvidenceOK(w) ==
  /\ w.phase = "new" => w.provider = Primary
  /\ w.phase \in {"open", "record"} => \A a \in attempts : a.finished < now
  /\ w.phase \in {"select", "check", "probe", "pick"} => OwnEvidence(w)
  /\ w.phase \in {"fetch", "open", "record", "select", "check", "probe"} /\ w.provider = Fallback =>
       request[Primary] = "failed"
  /\ w.phase = "select" /\ w.provider = Primary /\ FallbackEnabled /\ ~w.answer.ok =>
       ~w.answer.transient
  /\ w.phase = "check" /\ w.provider = Primary => ~w.answer.ok /\ ~w.answer.transient
  /\ w.phase = "probe" => w.provider = Fallback
  /\ w.phase = "pick" => w.answer.ok

UpsertOK(w) ==
  w.phase \in {"compare", "number", "insert"} =>
    /\ w.answer.ok /\ w.batch = w.answer.batch
    /\ \A i \in WithBar(w.batch) :
         \/ i \in w.todo
         \/ \E r \in w.written : r.inst = i /\ r.content = w.batch[i]
         \/ SameContent(i, w.batch[i]) /\ \A r \in w.written : r.inst # i

AnswerInv ==
  /\ Clock
  /\ \A j \in Jobs : EvidenceOK(job[j]) /\ UpsertOK(job[j])
  /\ OwnAnswerIsLatest

(* No provider is asked more often than list_by_request returns attempts. *)
Paged == \A a \in attempts : a.no <= Page

LEMMA AloneEmpty ==
  ASSUME Alone, Cardinality(Active) < 1
  PROVE  Active = {}
<1> SUFFICES ASSUME NEW j \in Active PROVE FALSE
  OBVIOUS
<1>1. Active = {j}
  BY DEF Alone
<1>2. Cardinality({j}) = 1
  BY FS_Singleton
<1> QED
  BY <1>1, <1>2

(* What a step of job j makes of the jobs. *)
LEMMA StepOf ==
  ASSUME TypeInv, TypeInv', NEW j \in Jobs, NEW w, Become(j, w)
  PROVE  /\ w \in Job /\ job'[j] = w
         /\ \A k \in Jobs \ {j} : job'[k] = job[k]
BY DEF TypeInv, TypeOK, Become

LEMMA StillAlone ==
  ASSUME TypeInv, TypeInv', Alone, NEW j \in Jobs, Active = {} \/ j \in Active,
         NEW w, Become(j, w)
  PROVE  Alone'
<1>1. \A k \in Jobs \ {j} : job'[k] = job[k]
  BY StepOf
<1>2. \A k \in Active' : k = j
  BY <1>1 DEF Active, Alone
<1> QED
  BY <1>2 DEF Alone

(* Steps that commit no rows. *)
LEMMA DifferFrame ==
  ASSUME TypeInv, TypeInv', DifferInv, UNCHANGED bars,
         NEW j \in Jobs, Active = {} \/ j \in Active, NEW w, Become(j, w), SomethingNew(w)
  PROVE  DifferInv'
<1>1. job'[j] = w /\ \A k \in Jobs \ {j} : job'[k] = job[k]
  BY StepOf
<1>2. \A i, c : SameContent(i, c)' <=> SameContent(i, c)
  BY DEF SameContent, Latest, RowsOf
<1>3. ASSUME NEW k \in Jobs PROVE SomethingNew(job[k])'
  <2>1. PICK v : v = job'[k]
    OBVIOUS
  <2>2. SomethingNew(v)
    BY <1>1, <2>1 DEF DifferInv
  <2>3. SomethingNew(v)'
    BY <1>2, <2>2 DEF SomethingNew
  <2> QED
    BY <2>1, <2>3
<1>4. Alone'
  BY StillAlone DEF DifferInv
<1> QED
  BY <1>3, <1>4 DEF DifferInv, RevisionsDiffer

LEMMA DifferEarly ==
  ASSUME TypeInv, TypeInv', RowsInv, DifferInv, UNCHANGED bars,
         NEW j \in Jobs, Active = {} \/ j \in Active, NEW w, Become(j, w),
         w.phase \notin {"number", "insert"},
         w.written = {} \/ w.written = job[j].written
  PROVE  DifferInv'
<1>1. SomethingNew(w)
  BY DEF DifferInv, SomethingNew
<1> QED
  BY <1>1, DifferFrame

LEMMA OneNextUp ==
  ASSUME TypeInv, NEW j \in Jobs, NEW i \in Instruments, NextUp(j, i),
         NEW k \in job[j].todo, \A l \in job[j].todo : k <= l
  PROVE  k = i
<1>1. i \in job[j].todo /\ i <= k /\ k <= i
  BY DEF NextUp
<1>2. i \in Nat /\ k \in Nat
  BY IngestionOK DEF TypeInv, TypeOK, Job
<1> QED
  BY <1>1, <1>2

(* The bars an instrument has after a commit. *)
LEMMA CommittedContent ==
  ASSUME TypeInv, RowsInv, NEW j \in Jobs, Commit(j), NEW i \in Instruments
  PROVE  /\ (\A r \in job[j].written : r.inst # i) =>
              \A c : SameContent(i, c)' <=> SameContent(i, c)
         /\ \A r \in job[j].written : r.inst = i => SameContent(i, r.content)'
<1>1. PICK n \in Nat : Revisions(i) = 1 .. n
  BY DEF RowsInv, RowsDense
<1>2. ASSUME \A r \in job[j].written : r.inst # i
      PROVE  \A c : SameContent(i, c)' <=> SameContent(i, c)
  <2>1. RowsOf(i)' = RowsOf(i)
    BY <1>1, <1>2, CommitRevisions
  <2> QED
    BY <2>1 DEF SameContent, Latest
<1>3. ASSUME NEW r \in job[j].written, r.inst = i
      PROVE  SameContent(i, r.content)'
  <2>1. /\ r.rev = n + 1 /\ RowsOf(i)' = RowsOf(i) \union {r}
    BY <1>1, <1>3, CommitRevisions
  <2>2. \A s \in RowsOf(i) : s.rev \in 1 .. n
    BY <1>1 DEF Revisions
  <2>3. \A s \in RowsOf(i)' : s.rev <= r.rev
    BY <2>1, <2>2
  <2>4. r \in Latest(i)'
    BY <2>1, <2>3 DEF Latest
  <2> QED
    BY <2>4 DEF SameContent
<1> QED
  BY <1>2, <1>3

LEMMA DifferCommit ==
  ASSUME TypeInv, TypeInv', RowsInv, DifferInv, NEW j \in Jobs, Commit(j)
  PROVE  DifferInv'
<1>1. PICK w : w = [job[j] EXCEPT !.phase = "done", !.written = {}]
  OBVIOUS
<1>2. Become(j, w) /\ bars' = bars \union job[j].written /\ job[j].phase = "compare"
  BY <1>1 DEF Commit
<1>3. w.phase = "done" /\ w.written = {}
  BY <1>1 DEF TypeInv, TypeOK, Job
<1>4. j \in Active
  BY <1>2 DEF Active, Over
<1>5. Alone'
  BY <1>2, <1>4, StillAlone DEF DifferInv
<1>6. job'[j] = w /\ \A k \in Jobs \ {j} : job'[k] = job[k]
  BY <1>2, StepOf
<1>7. ASSUME NEW k \in Jobs PROVE SomethingNew(job[k])'
  <2>1. CASE k = j
    BY <1>3, <1>6, <2>1 DEF SomethingNew
  <2>2. CASE k # j
    <3>1. k \notin Active
      BY <1>4, <2>2 DEF DifferInv, Alone
    <3>2. job[k].phase \notin {"number", "insert", "compare"}
      BY <3>1 DEF Active, Over
    <3>3. job[k].written = {}
      BY <3>2 DEF RowsInv, InTransaction
    <3> QED
      BY <1>6, <2>2, <3>2, <3>3 DEF SomethingNew
  <2> QED
    BY <2>1, <2>2
<1>8. RevisionsDiffer'
  <2> SUFFICES ASSUME NEW r \in bars', NEW s \in bars', r.inst = s.inst, s.rev = r.rev + 1
               PROVE  r.content # s.content
    BY DEF RevisionsDiffer
  <2>0. r \in Row /\ s \in Row
    BY DEF TypeInv, TypeOK
  <2>1. PICK i \in Instruments : i = r.inst
    BY <2>0 DEF Row
  <2>2. PICK n \in Nat : Revisions(i) = 1 .. n
    BY DEF RowsInv, RowsDense
  <2>3. \A q \in bars : q.inst = i => q.rev \in 1 .. n
    BY <2>2 DEF Revisions, RowsOf
  <2>4. \A q \in job[j].written : q.inst = i => q.rev = n + 1
    BY <2>2, CommitRevisions
  <2>5. CASE s \in bars
    <3>1. r \in bars
      BY <1>2, <2>0, <2>1, <2>3, <2>4, <2>5 DEF Row
    <3> QED
      BY <2>5, <3>1 DEF DifferInv, RevisionsDiffer
  <2>6. CASE s \in job[j].written
    <3>1. s.rev = n + 1 /\ r.rev = n
      BY <2>0, <2>1, <2>4, <2>6 DEF Row
    <3>2. r \in bars
      BY <1>2, <2>1, <2>4, <3>1
    <3>3. r \in Latest(i)
      BY <2>1, <2>3, <3>1, <3>2 DEF Latest, RowsOf
    <3>4. ~SameContent(i, s.content)
      BY <2>1, <2>6 DEF DifferInv, SomethingNew
    <3> QED
      BY <3>3, <3>4 DEF SameContent
  <2> QED
    BY <1>2, <2>5, <2>6
<1> QED
  BY <1>5, <1>7, <1>8 DEF DifferInv

LEMMA ActiveOnes ==
  ASSUME NEW j \in Jobs, NEW p, p \notin Over \union {"new"}, job[j].phase = p
  PROVE  j \in Active
BY DEF Active

LEMMA DifferStep ==
  ASSUME MaxActive = 1, IngestionInv, DifferInv, [Next]_vars
  PROVE  DifferInv'
<1>t. TypeInv /\ TypeInv' /\ RowsInv /\ Alone
  BY IngestionTypeStep DEF IngestionInv, DifferInv
<1>j. \A j \in Jobs : job[j] \in Job
  BY <1>t DEF TypeInv, TypeOK
<1>g. ASSUME NEW j \in Jobs, NEW p, p \notin {"number", "insert"}, Goto(j, p),
             Active = {} \/ j \in Active, UNCHANGED bars
      PROVE  DifferInv'
  <2>1. PICK w : w = [job[j] EXCEPT !.phase = p]
    OBVIOUS
  <2>2. w.phase = p /\ w.written = job[j].written /\ Become(j, w)
    BY <1>g, <1>j, <2>1 DEF Job, Goto
  <2> QED
    BY <1>g, <1>t, <2>2, DifferEarly
<1>f. ASSUME NEW j \in Jobs, NEW p \in {"failed", "dead"},
             Become(j, [job[j] EXCEPT !.phase = p, !.written = {}]),
             j \in Active, UNCHANGED bars
      PROVE  DifferInv'
  <2>1. PICK w : w = [job[j] EXCEPT !.phase = p, !.written = {}]
    OBVIOUS
  <2>2. w.phase = p /\ w.written = {} /\ Become(j, w)
    BY <1>f, <1>j, <2>1 DEF Job
  <2> QED
    BY <1>f, <1>t, <2>2, DifferEarly
<1>v. ASSUME NEW j \in Jobs, NEW p \in {"fetch", "pick"}, NEW q \in Providers,
             Become(j, [job[j] EXCEPT !.phase = p, !.provider = q]),
             j \in Active, UNCHANGED bars
      PROVE  DifferInv'
  <2>1. PICK w : w = [job[j] EXCEPT !.phase = p, !.provider = q]
    OBVIOUS
  <2>2. w.phase = p /\ w.written = job[j].written /\ Become(j, w)
    BY <1>v, <1>j, <2>1 DEF Job
  <2> QED
    BY <1>v, <1>t, <2>2, DifferEarly
<1>p. Primary \in Providers /\ Fallback \in Providers
  BY DEF Providers
<1>1. ASSUME NEW j \in Jobs, Begin(j) PROVE DifferInv'
  <2>1. Active = {}
    BY <1>1, <1>t, AloneEmpty DEF Begin
  <2> QED
    BY <1>1, <1>g, <2>1 DEF Begin
<1>2. ASSUME NEW j \in Jobs, NEW answer \in Answers, Fetch(j, answer) PROVE DifferInv'
  <2>1. PICK w : w = [job[j] EXCEPT !.phase = "open", !.answer = answer, !.finished = now + 1]
    OBVIOUS
  <2>2. w.phase = "open" /\ w.written = job[j].written /\ Become(j, w)
    BY <1>2, <1>j, <2>1 DEF Job, Fetch
  <2>3. j \in Active /\ UNCHANGED bars
    BY <1>2, ActiveOnes DEF Fetch, Over
  <2> QED
    BY <1>t, <2>2, <2>3, DifferEarly
<1>3. ASSUME NEW j \in Jobs, NEW n, Open(j, n) PROVE DifferInv'
  <2>1. PICK w : w = [job[j] EXCEPT !.phase = "record", !.no = n]
    OBVIOUS
  <2>2. w.phase = "record" /\ w.written = job[j].written /\ Become(j, w)
    BY <1>3, <1>j, <2>1 DEF Job, Open
  <2>3. j \in Active /\ UNCHANGED bars
    BY <1>3, ActiveOnes DEF Open, Over
  <2> QED
    BY <1>t, <2>2, <2>3, DifferEarly
<1>4. ASSUME NEW j \in Jobs, Record(j) PROVE DifferInv'
  <2>1. j \in Active /\ UNCHANGED bars
    BY <1>4, ActiveOnes DEF Record, Over
  <2>2. CASE Fail(j)
    BY <1>f, <2>1, <2>2 DEF Fail
  <2>3. CASE AfterEvidence(j)
    BY <1>g, <1>p, <1>v, <2>1, <2>3 DEF AfterEvidence
  <2> QED
    BY <1>4, <2>2, <2>3 DEF Record
<1>5. ASSUME NEW j \in Jobs, Select(j) \/ Check(j) \/ Probe(j) PROVE DifferInv'
  <2>1. j \in Active /\ UNCHANGED bars
    BY <1>5, ActiveOnes DEF Select, Check, Probe, Over
  <2> QED
    BY <1>5, <1>g, <1>p, <1>v, <2>1 DEF Select, Check, Probe
<1>6. ASSUME NEW j \in Jobs, Pick(j) PROVE DifferInv'
  <2>1. j \in Active /\ UNCHANGED bars
    BY <1>6, ActiveOnes DEF Pick, Over
  <2>2. CASE Fail(j)
    BY <1>f, <2>1, <2>2 DEF Fail
  <2>3. CASE ~Fail(j)
    <3>1. PICK a : Become(j, [job[j] EXCEPT !.phase = "compare", !.source = a.finished,
                                            !.batch = a.answer.batch,
                                            !.todo = WithBar(a.answer.batch)])
      BY <1>6, <2>3 DEF Pick
    <3>2. PICK w : w = [job[j] EXCEPT !.phase = "compare", !.source = a.finished,
                                      !.batch = a.answer.batch, !.todo = WithBar(a.answer.batch)]
      OBVIOUS
    <3>3. w.phase = "compare" /\ w.written = job[j].written /\ Become(j, w)
      BY <1>j, <3>1, <3>2 DEF Job
    <3> QED
      BY <1>t, <2>1, <3>3, DifferEarly
  <2> QED
    BY <2>2, <2>3
<1>7. ASSUME NEW j \in Jobs, Commit(j) PROVE DifferInv'
  BY <1>7, <1>t, DifferCommit
<1>8. ASSUME NEW j \in Jobs, NEW i \in Instruments, Compare(j, i) PROVE DifferInv'
  <2>1. j \in Active /\ UNCHANGED bars /\ job[j].phase = "compare" /\ NextUp(j, i)
    BY <1>8, ActiveOnes DEF Compare, Over
  <2>2. CASE SameContent(i, job[j].batch[i])
    <3>1. PICK w : w = [job[j] EXCEPT !.todo = @ \ {i}]
      OBVIOUS
    <3>2. w.phase = "compare" /\ w.written = job[j].written /\ Become(j, w)
      BY <1>8, <1>j, <2>1, <2>2, <3>1 DEF Job, Compare
    <3> QED
      BY <1>t, <2>1, <3>2, DifferEarly
  <2>3. CASE ~SameContent(i, job[j].batch[i])
    <3>1. PICK w : w = [job[j] EXCEPT !.phase = "number"]
      OBVIOUS
    <3>2. w.phase = "number" /\ w.written = job[j].written /\ w.todo = job[j].todo
          /\ w.batch = job[j].batch /\ Become(j, w)
      BY <1>8, <1>j, <2>3, <3>1 DEF Job, Compare, Goto
    <3>3. SomethingNew(w)
      BY <1>t, <2>1, <2>3, <3>2, OneNextUp DEF SomethingNew, DifferInv
    <3> QED
      BY <1>t, <2>1, <3>2, <3>3, DifferFrame
  <2> QED
    BY <2>2, <2>3
<1>9. ASSUME NEW j \in Jobs, NEW i \in Instruments, Number(j, i) PROVE DifferInv'
  <2>1. j \in Active /\ UNCHANGED bars /\ job[j].phase = "number"
    BY <1>9, ActiveOnes DEF Number, Over
  <2>2. PICK n : Become(j, [job[j] EXCEPT !.phase = "insert", !.no = n])
    BY <1>9 DEF Number
  <2>3. PICK w : w = [job[j] EXCEPT !.phase = "insert", !.no = n]
    OBVIOUS
  <2>4. w.phase = "insert" /\ w.written = job[j].written /\ w.todo = job[j].todo
        /\ w.batch = job[j].batch /\ Become(j, w)
    BY <1>j, <2>2, <2>3 DEF Job
  <2>5. SomethingNew(w)
    BY <2>1, <2>4 DEF SomethingNew, DifferInv
  <2> QED
    BY <1>t, <2>1, <2>4, <2>5, DifferFrame
<1>10. ASSUME NEW j \in Jobs, NEW i \in Instruments, Insert(j, i) PROVE DifferInv'
  <2>1. j \in Active /\ UNCHANGED bars /\ job[j].phase = "insert" /\ NextUp(j, i)
    BY <1>10, ActiveOnes DEF Insert, Over
  <2>2. CASE Fail(j)
    BY <1>f, <2>1, <2>2 DEF Fail
  <2>3. CASE ~Fail(j)
    <3>1. PICK row : row = [inst |-> i, rev |-> job[j].no, content |-> job[j].batch[i],
                            source |-> job[j].source]
      OBVIOUS
    <3>2. PICK w : w = [job[j] EXCEPT !.phase = "compare", !.todo = @ \ {i},
                                      !.written = @ \union {row}]
      OBVIOUS
    <3>3. Become(j, w)
      BY <1>10, <2>3, <3>1, <3>2 DEF Insert
    <3>4. w.phase = "compare" /\ w.written = job[j].written \union {row}
      BY <1>j, <3>2 DEF Job
    <3>5. ~SameContent(row.inst, row.content)
      BY <2>1, <3>1 DEF DifferInv, SomethingNew, NextUp
    <3>6. SomethingNew(w)
      BY <3>4, <3>5 DEF SomethingNew, DifferInv
    <3> QED
      BY <1>t, <2>1, <3>3, <3>6, DifferFrame
  <2> QED
    BY <2>2, <2>3
<1>11. ASSUME NEW j \in Jobs, Die(j) PROVE DifferInv'
  BY <1>11, <1>f DEF Die
<1>12. CASE UNCHANGED vars
  BY <1>12 DEF vars, DifferInv, Alone, Active, RevisionsDiffer, SomethingNew, SameContent,
     Latest, RowsOf
<1> QED
  BY <1>1, <1>2, <1>3, <1>4, <1>5, <1>6, <1>7, <1>8, <1>9, <1>10, <1>11, <1>12
     DEF Next, Advance

LEMMA DifferInit == Init => DifferInv
BY DEF Init, Idle, Over, Active, DifferInv, Alone, RevisionsDiffer, SomethingNew

LEMMA DifferAlways ==
  ASSUME MaxActive = 1
  PROVE  Spec => []DifferInv
<1>1. IngestionInv /\ DifferInv /\ [Next]_vars => DifferInv'
  BY DifferStep
<1> QED
  BY <1>1, DifferInit, IngestionAlways, PTL DEF Spec

(* As long as jobs run one after the other, upsert_etf_daily_bars never    *)
(* writes a revision with the content of the one before it.                *)
THEOREM IngestionRevisionsDiffer ==
  ASSUME MaxActive = 1
  PROVE  Spec => []RevisionsDiffer
<1>1. DifferInv => RevisionsDiffer
  BY DEF DifferInv
<1> QED
  BY <1>1, DifferAlways, PTL

-----------------------------------------------------------------------------
(* One job at a time upserts its own answer. *)

(* With Page not reached, every attempt is looked at. *)
LEMMA ListedAll ==
  ASSUME TypeInv, EvidenceInv, Paged, NEW p \in Providers
  PROVE  Listed(p) = {a \in attempts : a.provider = p}
<1>1. ASSUME NEW a \in attempts, a.provider = p
      PROVE  Cardinality({n \in Numbers(p) : n < a.no}) < Page
  <2>1. PICK m \in Nat : Numbers(p) = 1 .. m
    BY DEF EvidenceInv, NumbersDense
  <2>2. a.no \in 1 .. m
    BY <1>1, <2>1 DEF Numbers
  <2>3. {n \in Numbers(p) : n < a.no} = 1 .. a.no - 1
    BY <2>1, <2>2
  <2>4. Cardinality(1 .. a.no - 1) = a.no - 1
    <3>1. a.no - 1 \in Int /\ (~(1 > a.no - 1) \/ a.no = 1)
      BY <2>2
    <3>2. CASE a.no = 1
      <4>1. 1 .. a.no - 1 = {} /\ a.no - 1 = 0
        BY <3>2
      <4> QED
        BY <4>1, FS_EmptySet
    <3>3. CASE a.no # 1
      <4>1. 1 \in Int /\ a.no - 1 \in Int /\ ~(1 > a.no - 1) /\ (a.no - 1) - 1 + 1 = a.no - 1
        BY <2>2, <3>3
      <4>2. Cardinality(1 .. a.no - 1) =
              IF 1 > a.no - 1 THEN 0 ELSE (a.no - 1) - 1 + 1
        BY <4>1, FS_Interval
      <4> QED
        BY <4>1, <4>2
    <3> QED
      BY <3>2, <3>3
  <2>5. a.no - 1 < Page
    BY <2>2, IngestionOK DEF Paged
  <2> QED
    BY <2>3, <2>4, <2>5
<1> QED
  BY <1>1 DEF Listed

(* Nobody but the active job is bound by anything. *)
LEMMA AnswerFrame ==
  ASSUME TypeInv, TypeInv', RowsInv, Alone, AnswerInv, NEW j \in Jobs, Active = {} \/ j \in Active,
         NEW w, Become(j, w), EvidenceOK(w)', UpsertOK(w)'
  PROVE  \A k \in Jobs : (EvidenceOK(job[k]) /\ UpsertOK(job[k]))'
<1>1. job'[j] = w /\ \A k \in Jobs \ {j} : job'[k] = job[k]
  BY StepOf
<1>2. ASSUME NEW k \in Jobs PROVE (EvidenceOK(job[k]) /\ UpsertOK(job[k]))'
  <2>1. CASE k = j
    <3>1. job'[k] = w
      BY <1>1, <2>1
    <3> QED
      BY <3>1 DEF EvidenceOK, UpsertOK, OwnEvidence, WithBar
  <2>2. CASE k # j
    <3>1. PICK v : v = job[k]
      OBVIOUS
    <3>2. k \notin Active /\ job'[k] = v
      BY <1>1, <2>2, <3>1 DEF Alone
    <3>3. v.phase \in Over \union {"new"}
      BY <3>1, <3>2 DEF Active
    <3>4. v.phase = "new" => v.provider = Primary
      BY <3>1 DEF AnswerInv, EvidenceOK
    <3>5. EvidenceOK(v)' /\ UpsertOK(v)'
      BY <3>3, <3>4 DEF EvidenceOK, UpsertOK, Over
    <3> QED
      BY <3>2, <3>5 DEF EvidenceOK, UpsertOK, OwnEvidence, WithBar
  <2> QED
    BY <2>1, <2>2
<1> QED
  BY <1>2

(* Steps that neither ask a provider nor commit bars. *)
LEMMA AnswerQuiet ==
  ASSUME TypeInv, TypeInv', RowsInv, Alone, AnswerInv, UNCHANGED <<now, bars>>,
         \A a \in attempts' : a \in attempts \/ a.finished <= now,
         NEW j \in Jobs, Active = {} \/ j \in Active, NEW w, Become(j, w),
         w.finished = job[j].finished, w.phase # "done",
         w.phase \in Asked => job[j].phase \in Asked,
         EvidenceOK(w)', UpsertOK(w)'
  PROVE  AnswerInv'
<1>1. job'[j] = w /\ \A k \in Jobs \ {j} : job'[k] = job[k]
  BY StepOf
<1>2. \A k \in Jobs : job'[k].finished = job[k].finished
  BY <1>1
<1>3. \A k \in Jobs : job'[k].phase \in Asked => job[k].phase \in Asked
  BY <1>1
<1>4. Clock'
  BY <1>2, <1>3 DEF AnswerInv, Clock
<1>5. \A i, c : SameContent(i, c)' <=> SameContent(i, c)
  BY DEF SameContent, Latest, RowsOf
<1>6. \A k \in Jobs : job'[k].phase = "done" => job'[k] = job[k]
  BY <1>1
<1>7. OwnAnswerIsLatest'
  BY <1>2, <1>5, <1>6 DEF AnswerInv, OwnAnswerIsLatest
<1>8. \A k \in Jobs : (EvidenceOK(job[k]) /\ UpsertOK(job[k]))'
  BY AnswerFrame
<1> QED
  BY <1>4, <1>7, <1>8 DEF AnswerInv

(* ... of which those that end the job bind it to nothing. *)
LEMMA AnswerOver ==
  ASSUME TypeInv, TypeInv', RowsInv, Alone, AnswerInv, UNCHANGED <<now, bars, attempts>>,
         NEW j \in Jobs, j \in Active, NEW w, Become(j, w),
         w.finished = job[j].finished, w.phase \in {"skipped", "failed", "dead"}
  PROVE  AnswerInv'
<1>1. EvidenceOK(w)' /\ UpsertOK(w)'
  BY DEF EvidenceOK, UpsertOK
<1>2. w.phase \notin Asked /\ w.phase # "done"
  BY DEF Asked
<1> QED
  BY <1>1, <1>2, AnswerQuiet

LEMMA AnswerFetch ==
  ASSUME TypeInv, TypeInv', RowsInv, Alone, AnswerInv,
         NEW j \in Jobs, NEW answer \in Answers, Fetch(j, answer)
  PROVE  AnswerInv'
<1>1. PICK w : w = [job[j] EXCEPT !.phase = "open", !.answer = answer, !.finished = now + 1]
  OBVIOUS
<1>2. /\ job[j].phase = "fetch" /\ now' = now + 1 /\ Become(j, w)
      /\ UNCHANGED <<request, attempts, bars>>
  BY <1>1 DEF Fetch
<1>3. job[j] \in Job /\ now \in Nat /\ \A k \in Jobs : job[k].finished \in Nat
  BY DEF TypeInv, TypeOK, Job
<1>4. w.phase = "open" /\ w.finished = now + 1 /\ w.provider = job[j].provider
  BY <1>1, <1>3 DEF Job
<1>5. job'[j] = w /\ \A k \in Jobs \ {j} : job'[k] = job[k]
  BY <1>2, StepOf
<1>6. j \in Active
  BY <1>2, ActiveOnes DEF Over
<1>7. \A k \in Jobs \ {j} : k \notin Active /\ job'[k].phase \notin Asked
  BY <1>5, <1>6 DEF Alone, Active, Over, Asked
<1>8. \A a \in attempts : a.finished \in Nat /\ a.finished <= now
  BY DEF AnswerInv, Clock, TypeInv, TypeOK, Attempt
<1>9. \A k \in Jobs : job[k].finished <= now
  BY DEF AnswerInv, Clock
<1>10. Clock'
  <2>1. \A k \in Jobs \ {j} : job'[k].finished < now'
    BY <1>2, <1>3, <1>5, <1>9
  <2>2. job'[j].finished = now' /\ now' \in Nat /\ \A k \in Jobs : job'[k].finished \in Nat
    BY <1>2, <1>3, <1>4, <1>5
  <2>3. \A k \in Jobs : job'[k].finished <= now'
    BY <2>1, <2>2
  <2>4. \A a \in attempts' : a.finished <= now'
    BY <1>2, <1>3, <1>8
  <2> QED
    BY <1>7, <2>1, <2>2, <2>3, <2>4 DEF Clock
<1>11. OwnAnswerIsLatest'
  <2>1. \A k \in Jobs : job'[k].phase = "done" => ~(job'[j].finished <= job'[k].finished)
    BY <1>3, <1>4, <1>5, <1>9
  <2> QED
    BY <2>1 DEF OwnAnswerIsLatest
<1>12. EvidenceOK(w)' /\ UpsertOK(w)'
  <2>1. \A a \in attempts' : a.finished < now'
    BY <1>2, <1>3, <1>8
  <2>2. w.provider = Fallback => request'[Primary] = "failed"
    BY <1>2, <1>4 DEF AnswerInv, EvidenceOK
  <2> QED
    BY <1>4, <2>1, <2>2 DEF EvidenceOK, UpsertOK
<1>13. \A k \in Jobs : (EvidenceOK(job[k]) /\ UpsertOK(job[k]))'
  BY <1>2, <1>6, <1>12, AnswerFrame
<1> QED
  BY <1>10, <1>11, <1>13 DEF AnswerInv

LEMMA AnswerRecord ==
  ASSUME TypeInv, TypeInv', EvidenceInv, RowsInv, Alone, AnswerInv, NEW j \in Jobs, Record(j)
  PROVE  AnswerInv'
<1>1. PICK u : u = job[j]
  OBVIOUS
<1>2. u \in Job /\ u.phase = "record" /\ j \in Active /\ UNCHANGED <<now, bars>>
  BY <1>1, ActiveOnes DEF Record, Over, TypeInv, TypeOK
<1>3. EvidenceOK(u) /\ u.finished = now /\ now \in Nat
  BY <1>1, <1>2 DEF AnswerInv, Clock, Asked, TypeInv, TypeOK
<1>4. PICK p \in Providers : p = u.provider
  BY <1>2 DEF Job
<1>5. CASE ~NumberFree(p, u.no)
  <2>1. PICK w : w = [u EXCEPT !.phase = "failed", !.written = {}]
    OBVIOUS
  <2>2. Become(j, w) /\ UNCHANGED attempts
    BY <1>1, <1>4, <1>5, <2>1 DEF Record, Fail
  <2>3. w.phase = "failed" /\ w.finished = u.finished
    BY <1>2, <2>1 DEF Job
  <2> QED
    BY <1>1, <1>2, <2>2, <2>3, AnswerOver
<1>6. CASE NumberFree(p, u.no)
  <2>1. PICK a : a = [provider |-> p, no |-> u.no, finished |-> u.finished, answer |-> u.answer]
    OBVIOUS
  <2>2. a.provider = p /\ a.no = u.no /\ a.finished = now /\ a.answer = u.answer
    BY <1>3, <2>1
  <2>3. /\ attempts' = attempts \union {a}
        /\ request' = [request EXCEPT ![p] = Outcome(u.answer)]
        /\ AfterEvidence(j)
    BY <1>1, <1>4, <1>6, <2>1 DEF Record
  <2>4. \A b \in attempts : b.finished < now
    BY <1>2, <1>3 DEF EvidenceOK
  <2>5. \A b \in attempts' : b.finished = now => b = a
    <3>1. \A b \in attempts : b.finished \in Nat
      BY DEF TypeInv, TypeOK, Attempt
    <3> QED
      BY <1>3, <2>3, <2>4, <3>1
  <2>6. \A n \in Numbers(p)' : n <= a.no
    <3>1. PICK m \in Nat : Numbers(p) = 1 .. m
      BY DEF EvidenceInv, NumbersDense
    <3>2. u.no = 1 \/ u.no - 1 \in 1 .. m
      BY <1>1, <1>2, <1>4, <3>1 DEF EvidenceInv, RecordNumber
    <3>3. u.no \in Nat /\ u.no \notin 1 .. m
      BY <1>2, <1>6, <3>1 DEF NumberFree, Job
    <3>4. u.no = m + 1
      BY <3>2, <3>3
    <3>5. Numbers(p)' = Numbers(p) \union {u.no}
      BY <2>2, <2>3 DEF Numbers
    <3> QED
      BY <2>2, <3>1, <3>4, <3>5
  <2>7. /\ request'[p] = Outcome(u.answer)
        /\ \A q \in Providers \ {p} : request'[q] = request[q]
    BY <1>4, <2>3 DEF TypeInv, TypeOK
  <2>8. \A b \in attempts' : b \in attempts \/ b.finished <= now
    BY <1>3, <2>2, <2>3
  <2>9. u.provider = Fallback => request'[Primary] = "failed"
    BY <1>2, <1>3, <1>4, <2>7, IngestionOK DEF EvidenceOK, Providers
  <2>10. CASE /\ FallbackEnabled /\ u.provider = Primary
              /\ ~u.answer.ok /\ u.answer.transient
    <3>1. PICK w : w = [u EXCEPT !.phase = "fetch", !.provider = Fallback]
      OBVIOUS
    <3>2. Become(j, w)
      BY <1>1, <2>3, <2>10, <3>1 DEF AfterEvidence
    <3>3. w.phase = "fetch" /\ w.finished = u.finished
      BY <1>2, <3>1 DEF Job
    <3>4. request'[Primary] = "failed"
      BY <1>4, <2>7, <2>10 DEF Outcome
    <3>5. EvidenceOK(w)' /\ UpsertOK(w)'
      BY <3>3, <3>4 DEF EvidenceOK, UpsertOK
    <3>6. w.phase \notin Asked /\ w.phase # "done"
      BY <3>3 DEF Asked
    <3> QED
      BY <1>1, <1>2, <2>8, <3>2, <3>3, <3>5, <3>6, AnswerQuiet
  <2>11. CASE ~(/\ FallbackEnabled /\ u.provider = Primary
                /\ ~u.answer.ok /\ u.answer.transient)
    <3>1. PICK w : w = [u EXCEPT !.phase = "select"]
      OBVIOUS
    <3>2. Become(j, w)
      BY <1>1, <2>3, <2>11, <3>1 DEF AfterEvidence, Goto
    <3>3. /\ w.phase = "select" /\ w.finished = u.finished /\ w.provider = p
          /\ w.answer = u.answer
      BY <1>2, <1>4, <3>1 DEF Job
    <3>4. OwnEvidence(w)'
      <4>1. a \in attempts' /\ a.finished = now' /\ a.provider = w.provider /\ a.answer = w.answer
        BY <1>2, <2>2, <2>3, <3>3
      <4>2. \A n \in Numbers(w.provider)' : n <= a.no
        BY <2>6, <3>3
      <4> QED
        BY <1>2, <2>5, <4>1, <4>2 DEF OwnEvidence, Numbers
    <3>5. EvidenceOK(w)' /\ UpsertOK(w)'
      BY <1>4, <2>9, <2>11, <3>3, <3>4 DEF EvidenceOK, UpsertOK
    <3>6. u.phase \in Asked /\ w.phase # "done"
      BY <1>2, <3>3 DEF Asked
    <3> QED
      BY <1>1, <1>2, <2>8, <3>2, <3>3, <3>5, <3>6, AnswerQuiet
  <2> QED
    BY <2>10, <2>11
<1> QED
  BY <1>5, <1>6

(* A step of the choice that goes on to phase p with provider q. *)
LEMMA AnswerChoice ==
  ASSUME TypeInv, TypeInv', RowsInv, Alone, AnswerInv,
         UNCHANGED <<request, attempts, bars, now>>,
         NEW j \in Jobs, job[j].phase \in {"open", "select", "check", "probe"},
         NEW w, Become(j, w), w.phase \in {"record", "check", "probe", "pick"},
         w.finished = job[j].finished, EvidenceOK(w)
  PROVE  AnswerInv'
<1>1. EvidenceOK(w)' /\ UpsertOK(w)'
  BY DEF EvidenceOK, OwnEvidence, UpsertOK, Numbers
<1>2. job[j].phase \in Asked /\ w.phase # "done" /\ j \in Active
  BY DEF Asked, Active, Over
<1> QED
  BY <1>1, <1>2, AnswerQuiet

(* The job's own attempt decides what the request of its provider says. *)
LEMMA OwnStatus ==
  ASSUME TypeInv, EvidenceInv, NEW u \in Job, OwnEvidence(u)
  PROVE  request[u.provider] = Outcome(u.answer)
BY DEF OwnEvidence, EvidenceInv, RequestTellsLastAttempt, Job

LEMMA AnswerSelect ==
  ASSUME TypeInv, TypeInv', EvidenceInv, RowsInv, Alone, AnswerInv, NEW j \in Jobs, Select(j)
  PROVE  AnswerInv'
<1>1. PICK u : u = job[j]
  OBVIOUS
<1>2. u \in Job /\ u.phase = "select" /\ j \in Active /\ UNCHANGED <<request, attempts, bars, now>>
  BY <1>1, ActiveOnes DEF Select, Over, TypeInv, TypeOK
<1>3. EvidenceOK(u) /\ OwnEvidence(u)
  BY <1>1, <1>2 DEF AnswerInv, EvidenceOK
<1>4. request[u.provider] = Outcome(u.answer) /\ u.provider \in {Primary, Fallback}
  BY <1>2, <1>3, OwnStatus DEF Job, Providers
<1>5. u.provider = Fallback => request[Primary] = "failed"
  BY <1>2, <1>3 DEF EvidenceOK
<1>6. CASE request[Primary] = "succeeded" /\ Become(j, [u EXCEPT !.phase = "pick", !.provider = Primary])
  <2>1. PICK w : w = [u EXCEPT !.phase = "pick", !.provider = Primary]
    OBVIOUS
  <2>2. u.provider = Primary /\ u.answer.ok
    BY <1>4, <1>5, <1>6 DEF Outcome
  <2>3. /\ w.phase = "pick" /\ w.provider = u.provider /\ w.answer = u.answer
        /\ w.finished = u.finished /\ Become(j, w)
    BY <1>2, <1>6, <2>1, <2>2 DEF Job
  <2>4. EvidenceOK(w)
    BY <1>3, <2>2, <2>3 DEF EvidenceOK, OwnEvidence
  <2> QED
    BY <1>1, <1>2, <2>3, <2>4, AnswerChoice
<1>7. CASE request[Primary] = "failed" /\ FallbackEnabled /\ Goto(j, "check")
  <2>1. PICK w : w = [u EXCEPT !.phase = "check"]
    OBVIOUS
  <2>2. /\ w.phase = "check" /\ w.provider = u.provider /\ w.answer = u.answer
        /\ w.finished = u.finished /\ Become(j, w)
    BY <1>1, <1>2, <1>7, <2>1 DEF Job, Goto
  <2>3. u.provider = Primary => ~u.answer.ok /\ ~u.answer.transient
    BY <1>2, <1>3, <1>4, <1>7 DEF Outcome, EvidenceOK
  <2>4. EvidenceOK(w)
    BY <1>3, <1>5, <2>2, <2>3 DEF EvidenceOK, OwnEvidence
  <2> QED
    BY <1>1, <1>2, <2>2, <2>4, AnswerChoice
<1>8. CASE Goto(j, "skipped")
  <2>1. PICK w : w = [u EXCEPT !.phase = "skipped"]
    OBVIOUS
  <2>2. w.phase = "skipped" /\ w.finished = u.finished /\ Become(j, w)
    BY <1>1, <1>2, <1>8, <2>1 DEF Job, Goto
  <2> QED
    BY <1>1, <1>2, <2>2, AnswerOver
<1> QED
  BY <1>1, <1>6, <1>7, <1>8 DEF Select

LEMMA AnswerCheck ==
  ASSUME TypeInv, TypeInv', EvidenceInv, RowsInv, Alone, AnswerInv, Paged,
         NEW j \in Jobs, Check(j)
  PROVE  AnswerInv'
<1>1. PICK u : u = job[j]
  OBVIOUS
<1>2. u \in Job /\ u.phase = "check" /\ j \in Active /\ UNCHANGED <<request, attempts, bars, now>>
  BY <1>1, ActiveOnes DEF Check, Over, TypeInv, TypeOK
<1>3. EvidenceOK(u) /\ OwnEvidence(u)
  BY <1>1, <1>2 DEF AnswerInv, EvidenceOK
<1>4. CASE \E a \in Listed(Primary) :
             /\ \A b \in Listed(Primary) : b.no <= a.no
             /\ ~a.answer.ok /\ a.answer.transient
  <2>1. PICK a \in Listed(Primary) : /\ \A b \in Listed(Primary) : b.no <= a.no
                                     /\ ~a.answer.ok /\ a.answer.transient
    BY <1>4
  <2>2. Listed(Primary) = {b \in attempts : b.provider = Primary}
    BY ListedAll DEF Providers
  <2>3. u.provider # Primary
    <3> SUFFICES ASSUME u.provider = Primary PROVE FALSE
      OBVIOUS
    <3>1. PICK b \in attempts : /\ b.provider = Primary /\ b.answer = u.answer
                                /\ \A n \in Numbers(Primary) : n <= b.no
      BY <1>3 DEF OwnEvidence
    <3>2. a \in attempts /\ a.provider = Primary /\ b.no <= a.no
      BY <2>1, <2>2, <3>1
    <3>3. a.no <= b.no /\ a.no \in Nat /\ b.no \in Nat
      BY <3>1, <3>2 DEF Numbers, TypeInv, TypeOK, Attempt
    <3>4. a = b
      BY <3>1, <3>2, <3>3 DEF EvidenceInv, NumbersUnique
    <3> QED
      BY <1>2, <1>3, <2>1, <3>1, <3>4 DEF EvidenceOK
  <2>4. PICK w : w = [u EXCEPT !.phase = "probe"]
    OBVIOUS
  <2>5. /\ w.phase = "probe" /\ w.provider = u.provider /\ w.answer = u.answer
        /\ w.finished = u.finished /\ Become(j, w)
    BY <1>1, <1>2, <1>4, <2>4 DEF Job, Goto, Check
  <2>6. EvidenceOK(w)
    BY <1>2, <1>3, <2>3, <2>5 DEF EvidenceOK, OwnEvidence, Job, Providers
  <2> QED
    BY <1>1, <1>2, <2>5, <2>6, AnswerChoice
<1>5. CASE ~ \E a \in Listed(Primary) :
             /\ \A b \in Listed(Primary) : b.no <= a.no
             /\ ~a.answer.ok /\ a.answer.transient
  <2>1. PICK w : w = [u EXCEPT !.phase = "skipped"]
    OBVIOUS
  <2>2. w.phase = "skipped" /\ w.finished = u.finished /\ Become(j, w)
    BY <1>1, <1>2, <1>5, <2>1 DEF Job, Goto, Check
  <2> QED
    BY <1>1, <1>2, <2>2, AnswerOver
<1> QED
  BY <1>4, <1>5

LEMMA AnswerProbe ==
  ASSUME TypeInv, TypeInv', EvidenceInv, RowsInv, Alone, AnswerInv, NEW j \in Jobs, Probe(j)
  PROVE  AnswerInv'
<1>1. PICK u : u = job[j]
  OBVIOUS
<1>2. u \in Job /\ u.phase = "probe" /\ j \in Active /\ UNCHANGED <<request, attempts, bars, now>>
  BY <1>1, ActiveOnes DEF Probe, Over, TypeInv, TypeOK
<1>3. EvidenceOK(u) /\ OwnEvidence(u) /\ u.provider = Fallback
  BY <1>1, <1>2 DEF AnswerInv, EvidenceOK
<1>4. request[Fallback] = Outcome(u.answer)
  BY <1>2, <1>3, OwnStatus
<1>5. CASE request[Fallback] = "succeeded"
  <2>1. PICK w : w = [u EXCEPT !.phase = "pick", !.provider = Fallback]
    OBVIOUS
  <2>2. /\ w.phase = "pick" /\ w.provider = u.provider /\ w.answer = u.answer
        /\ w.finished = u.finished /\ Become(j, w)
    BY <1>1, <1>2, <1>3, <1>5, <2>1 DEF Job, Probe
  <2>3. u.answer.ok
    BY <1>4, <1>5 DEF Outcome
  <2>4. EvidenceOK(w)
    BY <1>3, <2>2, <2>3 DEF EvidenceOK, OwnEvidence
  <2> QED
    BY <1>1, <1>2, <2>2, <2>4, AnswerChoice
<1>6. CASE request[Fallback] # "succeeded"
  <2>1. PICK w : w = [u EXCEPT !.phase = "skipped"]
    OBVIOUS
  <2>2. w.phase = "skipped" /\ w.finished = u.finished /\ Become(j, w)
    BY <1>1, <1>2, <1>6, <2>1 DEF Job, Goto, Probe
  <2> QED
    BY <1>1, <1>2, <2>2, AnswerOver
<1> QED
  BY <1>5, <1>6

(* A step within an upsert. *)
LEMMA AnswerUpsert ==
  ASSUME TypeInv, TypeInv', RowsInv, Alone, AnswerInv,
         UNCHANGED <<request, attempts, bars, now>>,
         NEW j \in Jobs, job[j].phase \in {"pick", "compare", "number", "insert"},
         NEW w, Become(j, w), w.phase \in {"compare", "number", "insert"},
         w.finished = job[j].finished, UpsertOK(w)
  PROVE  AnswerInv'
<1>1. EvidenceOK(w)'
  BY DEF EvidenceOK
<1>2. \A i, c : SameContent(i, c)' <=> SameContent(i, c)
  BY DEF SameContent, Latest, RowsOf
<1>3. UpsertOK(w)'
  BY <1>2 DEF UpsertOK, WithBar
<1>4. job[j].phase \in Asked /\ w.phase # "done" /\ j \in Active
  BY DEF Asked, Active, Over
<1> QED
  BY <1>1, <1>3, <1>4, AnswerQuiet

(* The freshest attempt that succeeded is the one just recorded. *)
LEMMA PickedOwn ==
  ASSUME TypeInv, EvidenceInv, Paged, NEW u \in Job, OwnEvidence(u), u.answer.ok,
         now \in Nat, \A a \in attempts : a.finished <= now,
         NEW a \in Picked(u.provider)
  PROVE  a.answer = u.answer
<1>1. Listed(u.provider) = {b \in attempts : b.provider = u.provider}
  BY ListedAll DEF Job
<1>2. PICK b \in attempts : /\ b.provider = u.provider /\ b.answer = u.answer /\ b.finished = now
                            /\ \A c \in attempts : c.finished = now => c = b
  BY DEF OwnEvidence
<1>3. a \in attempts /\ Fresher(a, b)
  BY <1>1, <1>2 DEF Picked
<1>4. a.finished <= now /\ a.finished \in Nat
  BY <1>3 DEF TypeInv, TypeOK, Attempt
<1>5. a.finished = now
  BY <1>2, <1>3, <1>4 DEF Fresher
<1> QED
  BY <1>2, <1>3, <1>5

LEMMA AnswerPick ==
  ASSUME TypeInv, TypeInv', EvidenceInv, RowsInv, Alone, AnswerInv, Paged,
         NEW j \in Jobs, Pick(j)
  PROVE  AnswerInv'
<1>1. PICK u : u = job[j]
  OBVIOUS
<1>2. u \in Job /\ u.phase = "pick" /\ j \in Active /\ UNCHANGED <<request, attempts, bars, now>>
  BY <1>1, ActiveOnes DEF Pick, Over, TypeInv, TypeOK
<1>3. OwnEvidence(u) /\ u.answer.ok
  BY <1>1, <1>2 DEF AnswerInv, EvidenceOK
<1>4. CASE Fail(j)
  <2>1. PICK w : w = [u EXCEPT !.phase = "failed", !.written = {}]
    OBVIOUS
  <2>2. w.phase = "failed" /\ w.finished = u.finished /\ Become(j, w)
    BY <1>1, <1>2, <1>4, <2>1 DEF Job, Fail
  <2> QED
    BY <1>1, <1>2, <2>2, AnswerOver
<1>5. CASE ~Fail(j)
  <2>1. PICK a \in Picked(u.provider) :
          Become(j, [u EXCEPT !.phase = "compare", !.source = a.finished,
                              !.batch = a.answer.batch, !.todo = WithBar(a.answer.batch)])
    BY <1>1, <1>5 DEF Pick
  <2>2. a.answer = u.answer
    BY <1>2, <1>3, PickedOwn DEF AnswerInv, Clock, TypeInv, TypeOK
  <2>3. PICK w : w = [u EXCEPT !.phase = "compare", !.source = a.finished,
                               !.batch = a.answer.batch, !.todo = WithBar(a.answer.batch)]
    OBVIOUS
  <2>4. /\ w.phase = "compare" /\ w.finished = u.finished /\ Become(j, w)
        /\ w.answer = u.answer /\ w.batch = u.answer.batch /\ w.todo = WithBar(u.answer.batch)
    BY <1>2, <2>1, <2>2, <2>3 DEF Job
  <2>5. UpsertOK(w)
    BY <1>3, <2>4 DEF UpsertOK
  <2> QED
    BY <1>1, <1>2, <2>4, <2>5, AnswerUpsert
<1> QED
  BY <1>4, <1>5

LEMMA AnswerCompare ==
  ASSUME TypeInv, TypeInv', RowsInv, Alone, AnswerInv,
         NEW j \in Jobs, NEW i \in Instruments, Compare(j, i)
  PROVE  AnswerInv'
<1>1. PICK u : u = job[j]
  OBVIOUS
<1>2. u \in Job /\ u.phase = "compare" /\ UNCHANGED <<request, attempts, bars, now>>
  BY <1>1 DEF Compare, TypeInv, TypeOK
<1>3. UpsertOK(u)
  BY <1>1 DEF AnswerInv
<1>4. CASE SameContent(i, u.batch[i])
  <2>1. PICK w : w = [u EXCEPT !.todo = @ \ {i}]
    OBVIOUS
  <2>2. Become(j, w)
    BY <1>1, <1>4, <2>1 DEF Compare
  <2>3. /\ w.phase = "compare" /\ w.finished = u.finished /\ w.answer = u.answer
        /\ w.batch = u.batch /\ w.todo = u.todo \ {i} /\ w.written = u.written
    BY <1>2, <2>1 DEF Job
  <2>4. \A r \in u.written : r.inst # i
    BY <1>1 DEF RowsInv, PendingRows, Pending, Compare, NextUp
  <2>5. UpsertOK(w)
    BY <1>2, <1>3, <1>4, <2>3, <2>4 DEF UpsertOK
  <2> QED
    BY <1>1, <1>2, <2>2, <2>3, <2>5, AnswerUpsert
<1>5. CASE ~SameContent(i, u.batch[i])
  <2>1. PICK w : w = [u EXCEPT !.phase = "number"]
    OBVIOUS
  <2>2. Become(j, w)
    BY <1>1, <1>5, <2>1 DEF Compare, Goto
  <2>3. /\ w.phase = "number" /\ w.finished = u.finished /\ w.answer = u.answer
        /\ w.batch = u.batch /\ w.todo = u.todo /\ w.written = u.written
    BY <1>2, <2>1 DEF Job
  <2>4. UpsertOK(w)
    BY <1>2, <1>3, <2>3 DEF UpsertOK
  <2> QED
    BY <1>1, <1>2, <2>2, <2>3, <2>4, AnswerUpsert
<1> QED
  BY <1>4, <1>5

LEMMA AnswerNumber ==
  ASSUME TypeInv, TypeInv', RowsInv, Alone, AnswerInv,
         NEW j \in Jobs, NEW i \in Instruments, Number(j, i)
  PROVE  AnswerInv'
<1>1. PICK u : u = job[j]
  OBVIOUS
<1>2. u \in Job /\ u.phase = "number" /\ UNCHANGED <<request, attempts, bars, now>>
  BY <1>1 DEF Number, TypeInv, TypeOK
<1>3. PICK n : Become(j, [u EXCEPT !.phase = "insert", !.no = n])
  BY <1>1 DEF Number
<1>4. PICK w : w = [u EXCEPT !.phase = "insert", !.no = n]
  OBVIOUS
<1>5. /\ w.phase = "insert" /\ w.finished = u.finished /\ w.answer = u.answer /\ Become(j, w)
      /\ w.batch = u.batch /\ w.todo = u.todo /\ w.written = u.written
  BY <1>2, <1>3, <1>4 DEF Job
<1>6. UpsertOK(u)
  BY <1>1 DEF AnswerInv
<1>7. UpsertOK(w)
  BY <1>2, <1>5, <1>6 DEF UpsertOK
<1> QED
  BY <1>1, <1>2, <1>5, <1>7, AnswerUpsert

LEMMA AnswerInsert ==
  ASSUME TypeInv, TypeInv', RowsInv, Alone, AnswerInv,
         NEW j \in Jobs, NEW i \in Instruments, Insert(j, i)
  PROVE  AnswerInv'
<1>1. PICK u : u = job[j]
  OBVIOUS
<1>2. u \in Job /\ u.phase = "insert" /\ j \in Active /\ UNCHANGED <<request, attempts, bars, now>>
  BY <1>1, ActiveOnes DEF Insert, Over, TypeInv, TypeOK
<1>3. CASE Fail(j)
  <2>1. PICK w : w = [u EXCEPT !.phase = "failed", !.written = {}]
    OBVIOUS
  <2>2. w.phase = "failed" /\ w.finished = u.finished /\ Become(j, w)
    BY <1>1, <1>2, <1>3, <2>1 DEF Job, Fail
  <2> QED
    BY <1>1, <1>2, <2>2, AnswerOver
<1>4. CASE ~Fail(j)
  <2>1. PICK row : row = [inst |-> i, rev |-> u.no, content |-> u.batch[i], source |-> u.source]
    OBVIOUS
  <2>2. PICK w : w = [u EXCEPT !.phase = "compare", !.todo = @ \ {i}, !.written = @ \union {row}]
    OBVIOUS
  <2>3. Become(j, w)
    BY <1>1, <1>4, <2>1, <2>2 DEF Insert
  <2>4. /\ w.phase = "compare" /\ w.finished = u.finished /\ w.answer = u.answer
        /\ w.batch = u.batch /\ w.todo = u.todo \ {i} /\ w.written = u.written \union {row}
    BY <1>2, <2>2 DEF Job
  <2>5. row.inst = i /\ row.content = u.batch[i]
    BY <2>1
  <2>6. UpsertOK(u)
    BY <1>1 DEF AnswerInv
  <2>7. UpsertOK(w)
    BY <1>2, <2>4, <2>5, <2>6 DEF UpsertOK
  <2> QED
    BY <1>1, <1>2, <2>3, <2>4, <2>7, AnswerUpsert
<1> QED
  BY <1>3, <1>4

LEMMA AnswerCommit ==
  ASSUME TypeInv, TypeInv', RowsInv, Alone, AnswerInv, NEW j \in Jobs, Commit(j)
  PROVE  AnswerInv'
<1>1. PICK u : u = job[j]
  OBVIOUS
<1>2. /\ u \in Job /\ u.phase = "compare" /\ u.todo = {} /\ j \in Active
      /\ UNCHANGED <<request, attempts, now>>
  BY <1>1, ActiveOnes DEF Commit, Over, TypeInv, TypeOK
<1>3. PICK w : w = [u EXCEPT !.phase = "done", !.written = {}]
  OBVIOUS
<1>4. w.phase = "done" /\ w.finished = u.finished /\ w.answer = u.answer /\ Become(j, w)
  BY <1>1, <1>2, <1>3 DEF Job, Commit
<1>5. job'[j] = w /\ \A k \in Jobs \ {j} : job'[k] = job[k]
  BY <1>4, StepOf
<1>6. u.finished = now /\ \A k \in Jobs \ {j} : job[k].finished < now
  BY <1>1, <1>2 DEF AnswerInv, Clock, Asked
<1>7. Clock'
  <2>1. \A k \in Jobs : job'[k].finished = job[k].finished
    BY <1>1, <1>4, <1>5
  <2>2. \A k \in Jobs : job'[k].phase \in Asked => job[k].phase \in Asked
    BY <1>4, <1>5 DEF Asked
  <2> QED
    BY <1>2, <2>1, <2>2 DEF AnswerInv, Clock
<1>8. EvidenceOK(w)' /\ UpsertOK(w)'
  BY <1>4 DEF EvidenceOK, UpsertOK
<1>9. \A k \in Jobs : (EvidenceOK(job[k]) /\ UpsertOK(job[k]))'
  BY <1>2, <1>4, <1>8, AnswerFrame
<1>10. ASSUME NEW i \in Instruments, u.answer.batch[i] # Missing
       PROVE  SameContent(i, u.answer.batch[i])'
  <2>1. UpsertOK(u) /\ u.batch = u.answer.batch
    BY <1>1, <1>2 DEF AnswerInv, UpsertOK
  <2>2. \/ \E r \in u.written : r.inst = i /\ r.content = u.batch[i]
        \/ SameContent(i, u.batch[i]) /\ \A r \in u.written : r.inst # i
    BY <1>2, <1>10, <2>1 DEF UpsertOK, WithBar
  <2> QED
    BY <1>1, <2>1, <2>2, CommittedContent
<1>11. u.answer.ok
  BY <1>1, <1>2 DEF AnswerInv, UpsertOK
<1>12. OwnAnswerIsLatest'
  <2>1. ASSUME NEW k \in Jobs, job'[k].phase = "done",
               \A l \in Jobs : job'[l].finished <= job'[k].finished
        PROVE  /\ job'[k].answer.ok
               /\ \A i \in Instruments : job'[k].answer.batch[i] # Missing
                                           => SameContent(i, job[k].answer.batch[i])'
    <3>1. CASE k = j
      <4>1. job'[k] = w
        BY <1>5, <3>1
      <4> QED
        BY <1>4, <1>10, <1>11, <4>1
    <3>2. CASE k # j
      <4>1. job[k].finished < now /\ job'[j].finished = now /\ job'[k].finished = job[k].finished
        BY <1>4, <1>5, <1>6, <3>2
      <4>2. job[k].finished \in Nat /\ now \in Nat
        BY DEF TypeInv, TypeOK, Job
      <4> QED
        BY <2>1, <4>1, <4>2
    <3> QED
      BY <3>1, <3>2
  <2> QED
    BY <2>1 DEF OwnAnswerIsLatest
<1> QED
  BY <1>7, <1>9, <1>12 DEF AnswerInv

LEMMA AnswerStep ==
  ASSUME MaxActive = 1, IngestionInv, Alone, Paged, AnswerInv, [Next]_vars
  PROVE  AnswerInv'
<1>t. TypeInv /\ TypeInv' /\ RowsInv /\ EvidenceInv
  BY IngestionTypeStep DEF IngestionInv
<1>j. \A j \in Jobs : job[j] \in Job
  BY <1>t DEF TypeInv, TypeOK
<1>1. ASSUME NEW j \in Jobs, Begin(j) PROVE AnswerInv'
  <2>1. Active = {}
    BY <1>1, AloneEmpty DEF Begin
  <2>2. PICK w : w = [job[j] EXCEPT !.phase = "fetch"]
    OBVIOUS
  <2>3. /\ w.phase = "fetch" /\ w.finished = job[j].finished /\ w.provider = job[j].provider
        /\ Become(j, w) /\ UNCHANGED <<request, attempts, bars, now>>
    BY <1>1, <1>j, <2>2 DEF Job, Begin, Goto
  <2>4. w.provider = Primary
    BY <1>1, <2>3 DEF AnswerInv, EvidenceOK, Begin
  <2>5. EvidenceOK(w)' /\ UpsertOK(w)'
    BY <2>3, <2>4, IngestionOK DEF EvidenceOK, UpsertOK
  <2>6. w.phase \notin Asked /\ w.phase # "done"
    BY <2>3 DEF Asked
  <2> QED
    BY <1>t, <2>1, <2>3, <2>5, <2>6, AnswerQuiet
<1>2. ASSUME NEW j \in Jobs, NEW n, Open(j, n) PROVE AnswerInv'
  <2>1. PICK w : w = [job[j] EXCEPT !.phase = "record", !.no = n]
    OBVIOUS
  <2>2. /\ w.phase = "record" /\ w.finished = job[j].finished /\ w.provider = job[j].provider
        /\ Become(j, w) /\ UNCHANGED <<request, attempts, bars, now>> /\ job[j].phase = "open"
    BY <1>2, <1>j, <2>1 DEF Job, Open
  <2>3. EvidenceOK(job[j])
    BY DEF AnswerInv
  <2>4. EvidenceOK(w)
    BY <2>2, <2>3 DEF EvidenceOK
  <2> QED
    BY <1>t, <2>2, <2>4, AnswerChoice
<1>3. ASSUME NEW j \in Jobs, Die(j) PROVE AnswerInv'
  <2>1. PICK w : w = [job[j] EXCEPT !.phase = "dead", !.written = {}]
    OBVIOUS
  <2>2. /\ w.phase = "dead" /\ w.finished = job[j].finished /\ Become(j, w) /\ j \in Active
        /\ UNCHANGED <<request, attempts, bars, now>>
    BY <1>3, <1>j, <2>1 DEF Job, Die
  <2> QED
    BY <1>t, <2>2, AnswerOver
<1>4. CASE UNCHANGED vars
  BY <1>4 DEF vars, AnswerInv, Clock, EvidenceOK, OwnEvidence, UpsertOK, OwnAnswerIsLatest,
     SameContent, Latest, RowsOf, Numbers, WithBar
<1> QED
  BY <1>t, <1>1, <1>2, <1>3, <1>4, AnswerFetch, AnswerRecord, AnswerSelect, AnswerCheck,
     AnswerProbe, AnswerPick, AnswerCompare, AnswerNumber, AnswerInsert, AnswerCommit
     DEF Next, Advance

LEMMA AnswerInit == Init => AnswerInv
BY DEF Init, Idle, AnswerInv, Clock, Asked, EvidenceOK, UpsertOK, OwnAnswerIsLatest

(* As long as jobs run one after the other and list_by_request returns     *)
(* every attempt, the job that asked last and went through has left the    *)
(* answer it was given itself as the latest bars.                          *)
THEOREM IngestionOwnAnswerIsLatest ==
  ASSUME MaxActive = 1
  PROVE  Spec /\ []Paged => []OwnAnswerIsLatest
<1>1. IngestionInv /\ Alone /\ Paged /\ AnswerInv /\ [Next]_vars => AnswerInv'
  BY AnswerStep
<1>2. DifferInv => Alone
  BY DEF DifferInv
<1>3. AnswerInv => OwnAnswerIsLatest
  BY DEF AnswerInv
<1>4. Spec => []DifferInv
  BY DifferAlways
<1> QED
  BY <1>1, <1>2, <1>3, <1>4, AnswerInit, IngestionAlways, PTL DEF Spec

(***************************************************************************)
(* The ledger, for every number of trade dates and invocations.  LedgerInv *)
(* says where an invocation with a row may be (PhaseInv) and that two      *)
(* invocations of one date never both hold the lock or a live row          *)
(* (OneHolder).                                                            *)
(***************************************************************************)

(* A row appears in the insert step, is known to run_daily unless its      *)
(* commit went unconfirmed, and is running until it is marked.             *)
PhaseInv ==
  \A i \in Invocations :
    /\ phase[i] = "new" <=> partition[i] = None
    /\ phase[i] \in {"new", "start", "insert"} =>
         status[i] = "absent" /\ ~known[i] /\ outcome[i] = "none"
    /\ phase[i] = "execute" => status[i] \in {"absent", "running"}
    /\ known[i] /\ phase[i] \in {"execute", "mark"} => status[i] = "running"
    /\ phase[i] = "mark" => known[i] /\ outcome[i] # "none"

(* Holding the lock of a date, or a live row of it. *)
Holds(i) == phase[i] = "insert" \/ status[i] \in Blocking

OneHolder ==
  \A i, j \in Invocations :
    partition[i] = partition[j] /\ Holds(i) /\ Holds(j) => i = j

LedgerInv == LedgerTypeOK /\ PhaseInv /\ OneHolder /\ RowTellsOutcome

USE DEF Invocations

LEMMA LedgerInitially == LedgerInit => LedgerInv
  BY LedgerOK DEF LedgerInit, LedgerInv, LedgerTypeOK, PhaseInv, Holds, OneHolder, RowTellsOutcome,
     Statuses, InvocationPhases, Outcomes, Blocking

LEMMA LedgerStep == LedgerInv /\ [LedgerNext]_ledgerVars => LedgerInv'
<1> SUFFICES ASSUME LedgerInv, [LedgerNext]_ledgerVars PROVE LedgerInv'
  OBVIOUS
<1> USE LedgerOK DEF LedgerInv, LedgerTypeOK, PhaseInv, Holds, OneHolder, RowTellsOutcome,
                     Statuses, InvocationPhases, Outcomes, Blocking, Enter
<1>1. ASSUME NEW i \in Invocations, NEW d \in Partitions, Invoke(i, d) PROVE LedgerInv'
  BY <1>1 DEF Invoke
<1>2. ASSUME NEW i \in Invocations, LookUp(i) PROVE LedgerInv'
  <2>1. CASE LiveRows(partition[i]) = {}
    <3>1. \A j \in Invocations : partition[j] = partition[i] => ~Holds(j)
      BY <1>2, <2>1 DEF LookUp, LockFree, LiveRows, RowsOn
    <3>2. /\ phase' = [phase EXCEPT ![i] = "insert"]
          /\ UNCHANGED <<partition, status, known, outcome>>
      BY <1>2, <2>1 DEF LookUp
    <3>3. phase[i] = "start"
      BY <1>2 DEF LookUp
    <3> QED
      BY <3>1, <3>2, <3>3
  <2>2. CASE LiveRows(partition[i]) # {}
    <3>1. /\ phase' = [phase EXCEPT ![i] = "execute"]
          /\ UNCHANGED <<partition, status, known, outcome>>
          /\ phase[i] = "start"
      BY <1>2, <2>2 DEF LookUp
    <3> QED
      BY <3>1
  <2> QED
    BY <2>1, <2>2
<1>3. ASSUME NEW i \in Invocations, InsertRow(i) PROVE LedgerInv'
  BY <1>3 DEF InsertRow
<1>4. ASSUME NEW i \in Invocations, StartLost(i) PROVE LedgerInv'
  BY <1>4 DEF StartLost
<1>5. ASSUME NEW i \in Invocations, NEW o \in Outcomes, Execute(i, o) PROVE LedgerInv'
  BY <1>5 DEF Execute
<1>6. ASSUME NEW i \in Invocations, Finish(i) PROVE LedgerInv'
  BY <1>6 DEF Finish, Succeeded
<1>7. ASSUME NEW i \in Invocations, FinishLost(i) PROVE LedgerInv'
  BY <1>7 DEF FinishLost
<1>8. ASSUME NEW i \in Invocations, Crash(i) PROVE LedgerInv'
  BY <1>8 DEF Crash
<1>9. ASSUME UNCHANGED ledgerVars PROVE LedgerInv'
  BY <1>9 DEF ledgerVars
<1> QED
  BY <1>1, <1>2, <1>3, <1>4, <1>5, <1>6, <1>7, <1>8, <1>9 DEF LedgerNext, Proceed

LEMMA LedgerAlways == LedgerSpec => []LedgerInv
  BY LedgerInitially, LedgerStep, PTL DEF LedgerSpec

(* A set all of whose elements are equal has at most one. *)
LEMMA AtMostOne ==
  ASSUME NEW S, \A x, y \in S : x = y
  PROVE  Cardinality(S) <= 1
<1>1. CASE S = {}
  BY <1>1, FS_EmptySet
<1>2. ASSUME NEW x \in S PROVE Cardinality(S) <= 1
  <2>1. S = {x}
    OBVIOUS
  <2> QED
    BY <2>1, FS_Singleton
<1> QED
  BY <1>1, <1>2

(* Type correctness, for every number of dates and invocations. *)
THEOREM LedgerTypeCorrect == LedgerSpec => []LedgerTypeOK
<1>1. LedgerInv => LedgerTypeOK
  BY DEF LedgerInv
<1> QED
  BY <1>1, LedgerAlways, PTL

(* At most one row of a date is running or succeeded, however many         *)
(* invocations race for it, die or lose their recordings.                  *)
THEOREM LedgerOneLiveRow == LedgerSpec => []OneLiveRow
<1>1. LedgerInv => OneLiveRow
  <2> SUFFICES ASSUME LedgerInv, NEW d \in Partitions PROVE Cardinality(LiveRows(d)) <= 1
    BY DEF OneLiveRow
  <2>1. \A x, y \in LiveRows(d) : x = y
    BY DEF LedgerInv, OneHolder, Holds, LiveRows, RowsOn
  <2> QED
    BY <2>1, AtMostOne
<1> QED
  BY <1>1, LedgerAlways, PTL

(* A row is recorded succeeded or failed as its own invocation ended. *)
THEOREM LedgerRowTellsOutcome == LedgerSpec => []RowTellsOutcome
<1>1. LedgerInv => RowTellsOutcome
  BY DEF LedgerInv
<1> QED
  BY <1>1, LedgerAlways, PTL

(* The steps of the ledger as the steps of PartitionRecord: a date's       *)
(* record changes when its row is inserted and when it is marked.          *)
LEMMA RecordedOf ==
  ASSUME NEW d \in Partitions
  PROVE  /\ Recorded[d] = "running" <=> \E i \in Invocations : partition[i] = d /\ status[i] = "running"
         /\ Recorded[d] = "succeeded" <=>
              /\ \A i \in Invocations : partition[i] = d => status[i] # "running"
              /\ \E i \in Invocations : partition[i] = d /\ status[i] = "succeeded"
         /\ Recorded[d] = "none" <=>
              \A i \in Invocations : partition[i] = d => status[i] = "absent"
         /\ Recorded[d] \in {"none", "running", "failed", "succeeded"}
  BY DEF Recorded, RowsOn

(* A step that changes no row leaves the records as they are. *)
LEMMA RecordedStutter ==
  ASSUME UNCHANGED status,
         \A i \in Invocations : partition'[i] = partition[i] \/ status[i] = "absent"
  PROVE  UNCHANGED Recorded
<1>1. \A d \in Partitions : RowsOn(d)' = RowsOn(d)
  BY DEF RowsOn
<1> QED
  BY <1>1 DEF Recorded

(* A row whose status changes moves the record of its own date only. *)
LEMMA RecordedMoves ==
  ASSUME LedgerTypeOK, NEW i \in Invocations, NEW d \in Partitions, partition[i] = d,
         NEW st \in {"running", "succeeded", "failed"},
         status' = [status EXCEPT ![i] = st], UNCHANGED partition,
         \A j \in Invocations : j # i /\ partition[j] = d => status[j] \in {"absent", "failed"}
  PROVE  Recorded' = [Recorded EXCEPT ![d] = st]
<1>1. \A e \in Partitions \ {d} : Recorded'[e] = Recorded[e]
  BY DEF Recorded, RowsOn, LedgerTypeOK
<1>2. /\ status'[i] = st
      /\ \A j \in Invocations : j # i /\ partition'[j] = d => status'[j] \in {"absent", "failed"}
      /\ partition'[i] = d
  BY DEF LedgerTypeOK
<1>3. Recorded'[d] = st
  BY <1>2 DEF Recorded, RowsOn
<1>4. /\ Recorded = [e \in Partitions |-> Recorded[e]]
      /\ Recorded' = [e \in Partitions |-> Recorded'[e]]
  BY DEF Recorded
<1> QED
  BY <1>1, <1>3, <1>4

LEMMA LedgerRecordStep == LedgerInv /\ [LedgerNext]_ledgerVars => [DateRecord!Next]_Recorded
<1> SUFFICES ASSUME LedgerInv, [LedgerNext]_ledgerVars PROVE [DateRecord!Next]_Recorded
  OBVIOUS
<1> USE DEF LedgerInv, PhaseInv
<1>1. ASSUME NEW i \in Invocations, NEW d \in Partitions, Invoke(i, d) PROVE UNCHANGED Recorded
  BY <1>1, RecordedStutter DEF Invoke, LedgerTypeOK
<1>2. ASSUME NEW i \in Invocations,
             LookUp(i) \/ (\E o \in Outcomes : Execute(i, o)) \/ FinishLost(i) \/ Crash(i)
      PROVE  UNCHANGED Recorded
  BY <1>2, RecordedStutter DEF LookUp, Execute, FinishLost, Crash
<1>3. ASSUME NEW i \in Invocations, phase[i] = "insert",
             status' = [status EXCEPT ![i] = "running"], UNCHANGED partition
      PROVE  DateRecord!Next
  <2>1. PICK d \in Partitions : d = partition[i]
    BY <1>3 DEF LedgerTypeOK
  <2>2. \A j \in Invocations : j # i /\ partition[j] = d => status[j] \in {"absent", "failed"}
    BY <1>3, <2>1 DEF LedgerTypeOK, OneHolder, Holds, Blocking, Statuses
  <2>3. Recorded' = [Recorded EXCEPT ![d] = "running"]
    BY <1>3, <2>1, <2>2, RecordedMoves
  <2>4. status[i] = "absent"
    BY <1>3
  <2>5. Recorded[d] \in {"none", "failed"}
    BY <2>1, <2>2, <2>4, RecordedOf
  <2> QED
    BY <2>3, <2>5 DEF DateRecord!Next, DateRecord!Begin, DateRecord!Move
<1>4. ASSUME NEW i \in Invocations, InsertRow(i) PROVE DateRecord!Next
  BY <1>3, <1>4 DEF InsertRow
<1>5. ASSUME NEW i \in Invocations, StartLost(i) PROVE [DateRecord!Next]_Recorded
  <2>1. CASE UNCHANGED status
    BY <1>5, <2>1, RecordedStutter DEF StartLost
  <2>2. CASE phase[i] = "insert" /\ status' = [status EXCEPT ![i] = "running"]
    BY <1>3, <1>5, <2>2 DEF StartLost
  <2> QED
    BY <1>5, <2>1, <2>2 DEF StartLost
<1>6. ASSUME NEW i \in Invocations, Finish(i) PROVE DateRecord!Next
  <2>1. PICK st \in {"succeeded", "failed"} : status' = [status EXCEPT ![i] = st]
    BY <1>6 DEF Finish
  <2>2. status[i] = "running"
    BY <1>6 DEF Finish
  <2>3. PICK d \in Partitions : d = partition[i]
    BY <1>6 DEF Finish, LedgerTypeOK
  <2>4. \A j \in Invocations : j # i /\ partition[j] = d => status[j] \in {"absent", "failed"}
    BY <2>2, <2>3 DEF LedgerTypeOK, OneHolder, Holds, Blocking, Statuses
  <2> HIDE DEF LedgerInv, PhaseInv
  <2>5. Recorded' = [Recorded EXCEPT ![d] = st]
    <3>1. LedgerTypeOK /\ UNCHANGED partition /\ st \in {"running", "succeeded", "failed"}
      BY <1>6 DEF Finish, LedgerInv
    <3> QED
      BY <2>1, <2>3, <2>4, <3>1, RecordedMoves
  <2>6. Recorded[d] = "running"
    BY <2>2, <2>3, RecordedOf
  <2> QED
    BY <2>1, <2>5, <2>6 DEF DateRecord!Next, DateRecord!Succeed, DateRecord!Fail, DateRecord!Move
<1>7. ASSUME UNCHANGED ledgerVars PROVE UNCHANGED Recorded
  BY <1>7, RecordedStutter DEF ledgerVars
<1> QED
  BY <1>1, <1>2, <1>4, <1>5, <1>6, <1>7 DEF LedgerNext, Proceed

(* The ledger implements PartitionRecord: a date is begun again only after *)
(* a failure, and its recorded success is final.                           *)
THEOREM LedgerImplementsRecord == LedgerSpec => ImplementsRecord
<1>1. LedgerInit => DateRecord!Init
  BY DEF LedgerInit, DateRecord!Init, Recorded, RowsOn
<1>2. LedgerInv /\ [LedgerNext]_ledgerVars => [DateRecord!Next]_Recorded
  BY LedgerRecordStep
<1> QED
  BY <1>1, <1>2, LedgerAlways, PTL DEF LedgerSpec, ImplementsRecord, DateRecord!Spec
=============================================================================
