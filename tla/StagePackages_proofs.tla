-------------------------- MODULE StagePackages_proofs --------------------------
(***************************************************************************)
(* Proofs about StagePackages, for any number of processes, deliveries and *)
(* deaths.                                                                 *)
(*                                                                         *)
(* Until the first package of a task is filed, the directory under the     *)
(* task's name is the one that was opened and locked, so one process       *)
(* handles it.  Afterwards several may handle a later package, but then    *)
(* one of the two places to file it is taken: it cannot leave processing/  *)
(* but to the other one, and what was read of it stays true.               *)
(***************************************************************************)
EXTENDS StagePackages, TLAPS, FiniteSetTheorems, NaturalsInduction, WellFoundedInduction

Phases  == {"idle", "scan", "lock", "claim"} \union Handling
JobType == [phase : Phases, from : {"results", "processing", None}, left : SUBSET Tasks,
            task : Tasks \union {None}, dir : Deliveries \union {None},
            got : Contents \union {None}]

Opened   == {"lock", "claim"} \union Handling
HasRead  == {"look", "make", "place", "archive"}
Making   == {"make", "place"}
Filed(t) == at["archive"][t] # None \/ at["failed"][t] # None

(* What process g relies on, given its state w. *)
Holds(g, w) ==
  /\ w.phase \in Opened =>
       w.task \in Tasks /\ w.dir \in Deliveries /\ w.dir.task = w.task
  /\ w.phase # "idle" => w.from \in {"results", "processing"}
  /\ w.phase = "claim" => w.from = "results"
  /\ w.phase \in {"claim"} \union Handling => lock[w.dir] = g
  /\ w.phase \in HasRead => w.got \in Contents

(* While nothing of the task is filed, the names still mean the directory. *)
FirstOK(w) ==
  w.phase \in Opened /\ ~Filed(w.task) =>
    /\ w.phase \in {"lock", "claim"} /\ w.from = "results" /\ at["processing"][w.task] = None =>
         at["results"][w.task] = w.dir
    /\ w.phase = "lock" /\ w.from = "processing" => at["processing"][w.task] = w.dir
    /\ w.phase \in Handling => at["processing"][w.task] = w.dir
    /\ w.phase \in Making => kept[w.task] = {}
    /\ w.phase = "failed" => at["processing"][w.task].content \notin kept[w.task]

(* While the task's archive is free, what was read is what is there. *)
ReadOK(w) ==
  w.phase \in HasRead /\ at["archive"][w.task] = None =>
    at["processing"][w.task] # None /\ at["processing"][w.task].content = w.got

KeepOK(w) ==
  /\ w.phase = "place" => w.task \in identity
  /\ w.phase = "archive" => w.got \in kept[w.task]
  /\ w.phase \in Making => \A c \in kept[w.task] : c = w.got

JobOK(g, w) == Holds(g, w) /\ FirstOK(w) /\ ReadOK(w) /\ KeepOK(w)

JobsOK == \A g \in Agents : JobOK(g, agent[g])

SameGot ==
  \A g, h \in Agents :
    agent[g].phase \in Making /\ agent[h].phase \in Making /\ agent[g].task = agent[h].task =>
      agent[g].got = agent[h].got

(* A directory has one name. *)
PlacesOK ==
  /\ \A f \in Folders, t \in Tasks : at[f][t] # None => at[f][t].task = t
  /\ \A f, h \in Folders, t \in Tasks : at[f][t] # None /\ at[f][t] = at[h][t] => f = h
  /\ \A d \in due, f \in Folders : at[f][d.task] # d

KeptOK ==
  \A t \in Tasks : /\ kept[t] # {} => t \in identity
                   /\ \A b, c \in kept[t] : b = c

PackagesInv == TypeOK /\ JobsOK /\ SameGot /\ PlacesOK /\ KeptOK /\ FiledByOutcome

-----------------------------------------------------------------------------
(* One process at a time *)

(* The state of a process that has opened a package. *)
LEMMA OpenJob ==
  ASSUME PackagesInv, NEW g \in Agents, NEW u, u = agent[g], u.phase \in Opened
  PROVE  /\ u \in JobType /\ JobOK(g, u)
         /\ u.task \in Tasks /\ u.dir \in Deliveries /\ u.dir.task = u.task
BY DEF PackagesInv, TypeOK, JobType, Phases, JobsOK, JobOK, Holds

LEMMA PhaseMoved ==
  ASSUME NEW u \in JobType, NEW p \in Phases, NEW w, w = [u EXCEPT !.phase = p]
  PROVE  /\ w \in JobType /\ w.phase = p /\ w.from = u.from
         /\ w.task = u.task /\ w.dir = u.dir /\ w.got = u.got
BY DEF JobType

LEMMA Resting ==
  ASSUME NEW g, NEW w, w.phase \in {"idle", "scan"},
         w.phase # "idle" => w.from \in {"results", "processing"}
  PROVE  JobOK(g, w) /\ JobOK(g, w)' /\ w.phase \notin Making
BY DEF JobOK, Holds, FirstOK, ReadOK, KeepOK, Opened, HasRead, Making, Handling

LEMMA JobsStep ==
  ASSUME PackagesInv, NEW g \in Agents, NEW w \in JobType, Become(g, w), JobOK(g, w)',
         \A h \in Agents \ {g}, u \in JobType : u = agent[h] => JobOK(h, u)',
         w.phase \in Making => \A h \in Agents :
           agent[h].phase \in Making /\ agent[h].task = w.task => agent[h].got = w.got
  PROVE  /\ JobsOK' /\ SameGot'
         /\ agent' \in [Agents -> JobType]
<1>1. agent \in [Agents -> JobType] /\ agent' = [agent EXCEPT ![g] = w]
  BY DEF PackagesInv, TypeOK, JobType, Phases, Become
<1>2. \A h \in Agents \ {g} : agent'[h] = agent[h]
  BY <1>1
<1>3. agent'[g] = w
  BY <1>1
<1>4. ASSUME NEW h \in Agents PROVE JobOK(h, agent[h])'
  <2>1. CASE h = g
    BY <1>3, <2>1
  <2>2. CASE h # g
    <3>1. PICK u \in JobType : u = agent[h]
      BY <1>1
    <3>2. JobOK(h, u)' /\ agent'[h] = u
      BY <1>2, <2>2, <3>1
    <3> QED
      BY <3>2
  <2> QED
    BY <2>1, <2>2
<1>5. SameGot'
  BY <1>2, <1>3 DEF SameGot, PackagesInv
<1> QED
  BY <1>1, <1>4, <1>5 DEF JobsOK

(* A step that changes no directory and no archive. *)
LEMMA QuietStep ==
  ASSUME PackagesOK, PackagesInv, UNCHANGED <<at, due, identity, kept>>,
         deaths' \in 0 .. MaxDeaths, lock' \in [Deliveries -> Agents \union {None}],
         NEW g \in Agents, NEW w \in JobType, Become(g, w), JobOK(g, w)',
         \A h \in Agents \ {g}, d \in Deliveries : lock[d] = h => lock'[d] = h,
         w.phase \in Making => \A h \in Agents :
           agent[h].phase \in Making /\ agent[h].task = w.task => agent[h].got = w.got
  PROVE  PackagesInv'
<1>1. ASSUME NEW h \in Agents \ {g}, NEW u \in JobType, u = agent[h]
      PROVE  JobOK(h, u)'
  <2>1. JobOK(h, u)
    BY <1>1 DEF PackagesInv, JobsOK
  <2>2. Holds(h, u)'
    BY <2>1 DEF JobOK, Holds, Opened
  <2> QED
    BY <2>1, <2>2 DEF JobOK, FirstOK, ReadOK, KeepOK, Filed
<1>2. JobsOK' /\ SameGot' /\ agent' \in [Agents -> JobType]
  BY <1>1, JobsStep
<1>3. TypeOK'
  BY <1>2 DEF PackagesInv, TypeOK, JobType, Phases
<1> QED
  BY <1>2, <1>3 DEF PackagesInv, PlacesOK, KeptOK, FiledByOutcome

(* A process that lets go of its locks and opens nothing. *)
LEMMA ReleaseStep ==
  ASSUME PackagesOK, PackagesInv, UNCHANGED <<at, due, identity, kept>>,
         deaths' \in 0 .. MaxDeaths, NEW g \in Agents, NEW w \in JobType,
         w.phase \in {"idle", "scan"}, w.phase # "idle" => w.from \in {"results", "processing"},
         Become(g, w), Release(g)
  PROVE  PackagesInv'
<1>1. lock' \in [Deliveries -> Agents \union {None}]
  BY DEF Release, PackagesInv, TypeOK
<1>2. \A h \in Agents \ {g}, d \in Deliveries : lock[d] = h => lock'[d] = h
  BY DEF Release
<1> QED
  BY <1>1, <1>2, Resting, QuietStep

LEMMA LeftType ==
  ASSUME PackagesInv, NEW g \in Agents, ~Within(g, "idle"), Leave(g)
  PROVE  \E w \in JobType : /\ w.phase = "scan" /\ w.from \in {"results", "processing"}
                            /\ Become(g, w) /\ Release(g)
<1>1. agent[g] \in JobType /\ agent[g].from \in {"results", "processing"}
  BY DEF PackagesInv, TypeOK, JobType, Phases, JobsOK, JobOK, Holds, Within
<1>2. PICK w : w = [agent[g] EXCEPT !.phase = "scan", !.task = None, !.dir = None, !.got = None]
  OBVIOUS
<1>3. w \in JobType /\ w.phase = "scan" /\ w.from \in {"results", "processing"}
  BY <1>1, <1>2 DEF JobType, Phases
<1> QED
  BY <1>2, <1>3 DEF Leave

LEMMA LeaveStep ==
  ASSUME PackagesOK, PackagesInv, NEW g \in Agents, ~Within(g, "idle"), Leave(g),
         UNCHANGED <<at, due, identity, kept, deaths>>
  PROVE  PackagesInv'
<1>1. PICK w \in JobType : /\ w.phase = "scan" /\ w.from \in {"results", "processing"}
                          /\ Become(g, w) /\ Release(g)
  BY LeftType
<1> QED
  BY <1>1, ReleaseStep DEF PackagesInv, TypeOK

(* A step of a process that only changes its own state. *)
LEMMA OwnStep ==
  ASSUME PackagesOK, PackagesInv, NEW g \in Agents, NEW w \in JobType, Become(g, w), JobOK(g, w),
         UNCHANGED <<at, due, lock, identity, kept, deaths>>,
         w.phase \in Making => \A h \in Agents :
           agent[h].phase \in Making /\ agent[h].task = w.task => agent[h].got = w.got
  PROVE  PackagesInv'
<1>1. JobOK(g, w)'
  BY DEF JobOK, Holds, FirstOK, ReadOK, KeepOK, Filed
<1> QED
  BY <1>1, QuietStep DEF PackagesInv, TypeOK

-----------------------------------------------------------------------------
(* Directories *)

LEMMA Moved ==
  ASSUME PackagesOK, PackagesInv, NEW f \in Folders, NEW h \in Folders, f # h,
         NEW t \in Tasks, Move(t, f, h)
  PROVE  /\ at' \in [Folders -> [Tasks -> Deliveries \union {None}]]
         /\ at[f][t] \in Deliveries /\ at[f][t] # None /\ at[h][t] = None
         /\ at'[f][t] = None /\ at'[h][t] = at[f][t]
         /\ \A k \in Folders, s \in Tasks : s # t \/ k \notin {f, h} => at'[k][s] = at[k][s]
<1>1. at \in [Folders -> [Tasks -> Deliveries \union {None}]]
  BY DEF PackagesInv, TypeOK
<1>2. at[f] \in [Tasks -> Deliveries \union {None}] /\ at[h] \in [Tasks -> Deliveries \union {None}]
  BY <1>1
<1>3. PICK A : A = [at[f] EXCEPT ![t] = None]
  OBVIOUS
<1>4. PICK B : B = [at[h] EXCEPT ![t] = at[f][t]]
  OBVIOUS
<1>5. at' = [at EXCEPT ![f] = A, ![h] = B]
  <2>1. at' = [at EXCEPT ![f][t] = None, ![h][t] = at[f][t]]
    BY DEF Move
  <2>2. [at EXCEPT ![f][t] = None][h] = at[h]
    BY <1>1
  <2> QED
    BY <2>1, <2>2, <1>1, <1>3, <1>4
<1>6. A \in [Tasks -> Deliveries \union {None}] /\ B \in [Tasks -> Deliveries \union {None}]
  BY <1>2, <1>3, <1>4
<1>7. /\ A[t] = None /\ B[t] = at[f][t]
      /\ \A s \in Tasks \ {t} : A[s] = at[f][s] /\ B[s] = at[h][s]
  BY <1>2, <1>3, <1>4
<1>8. at'[f] = A /\ at'[h] = B /\ \A k \in Folders \ {f, h} : at'[k] = at[k]
  BY <1>1, <1>5
<1>9. at' \in [Folders -> [Tasks -> Deliveries \union {None}]]
  BY <1>1, <1>5, <1>6
<1>10. at[f][t] # None /\ at[h][t] = None /\ at[f][t] \in Deliveries
  BY <1>2 DEF Move, CanMove
<1>11. ASSUME NEW k \in Folders, NEW s \in Tasks, s # t \/ k \notin {f, h}
       PROVE  at'[k][s] = at[k][s]
  BY <1>7, <1>8, <1>11
<1> QED
  BY <1>7, <1>8, <1>9, <1>10, <1>11

LEMMA MovedPlaces ==
  ASSUME PackagesOK, PackagesInv, NEW f \in Folders, NEW h \in Folders, f # h,
         NEW t \in Tasks, Move(t, f, h), UNCHANGED due
  PROVE  PlacesOK'
<1>1. /\ at[f][t] \in Deliveries /\ at[f][t] # None /\ at[h][t] = None
      /\ at'[f][t] = None /\ at'[h][t] = at[f][t]
      /\ \A k \in Folders, s \in Tasks : s # t \/ k \notin {f, h} => at'[k][s] = at[k][s]
  BY Moved
<1>2. PlacesOK
  BY DEF PackagesInv
<1>3. ASSUME NEW k \in Folders, NEW s \in Tasks, at'[k][s] # None
      PROVE  at'[k][s].task = s
  BY <1>1, <1>2, <1>3 DEF PlacesOK
<1>4. ASSUME NEW k \in Folders, NEW l \in Folders, NEW s \in Tasks,
             at'[k][s] # None, at'[k][s] = at'[l][s]
      PROVE  k = l
  BY <1>1, <1>2, <1>4 DEF PlacesOK
<1>5. ASSUME NEW d \in due, NEW k \in Folders
      PROVE  at'[k][d.task] # d
  <2>1. d.task \in Tasks /\ d # None
    BY DEF PackagesInv, TypeOK, Tasks, PackagesOK
  <2>2. \A l \in Folders : at[l][d.task] # d
    BY <1>2 DEF PlacesOK
  <2> QED
    BY <1>1, <2>1, <2>2
<1>6. due' = due
  OBVIOUS
<1> QED
  BY <1>3, <1>4, <1>5, <1>6 DEF PlacesOK

LEMMA DeliverStep ==
  ASSUME PackagesOK, PackagesInv, NEW d \in Deliveries, Deliver(d)
  PROVE  PackagesInv'
<1>1. PICK t : t = d.task
  OBVIOUS
<1>2. t \in Tasks /\ d # None /\ d \in due /\ at["results"][t] = None
  BY <1>1 DEF Deliver, Tasks, PackagesOK
<1>3. /\ due' = due \ {d} /\ at' = [at EXCEPT !["results"][t] = d]
      /\ UNCHANGED <<lock, identity, kept, deaths, agent>>
  BY <1>1 DEF Deliver
<1>4. "results" \in Folders /\ "archive" \in Folders /\ "failed" \in Folders
      /\ "processing" \in Folders
  BY DEF Folders
<1>5. /\ at' \in [Folders -> [Tasks -> Deliveries \union {None}]]
      /\ at'["results"][t] = d
      /\ \A k \in Folders, s \in Tasks : k # "results" \/ s # t => at'[k][s] = at[k][s]
  BY <1>2, <1>3, <1>4 DEF PackagesInv, TypeOK
<1>6. ASSUME NEW h \in Agents, NEW u \in JobType, u = agent[h] PROVE JobOK(h, u)'
  <2>1. JobOK(h, u)
    BY <1>6 DEF PackagesInv, JobsOK
  <2>2. u.phase \in Opened => u.task \in Tasks /\ u.dir \in Deliveries /\ u.dir # None
    BY <2>1 DEF JobOK, Holds, PackagesOK
  <2>3. FirstOK(u)'
    BY <1>2, <1>3, <1>4, <1>5, <2>1, <2>2 DEF JobOK, FirstOK, Filed, Handling, Opened
  <2>4. ReadOK(u)' /\ KeepOK(u)' /\ Holds(h, u)'
    BY <1>3, <1>4, <1>5, <2>1, <2>2
       DEF JobOK, ReadOK, KeepOK, Holds, HasRead, Opened, Handling
  <2> QED
    BY <2>3, <2>4 DEF JobOK
<1>7. JobsOK'
  <2>1. ASSUME NEW h \in Agents PROVE JobOK(h, agent[h])'
    <3>1. PICK u \in JobType : u = agent[h]
      BY DEF PackagesInv, TypeOK, JobType, Phases
    <3> QED
      BY <1>3, <1>6, <3>1
  <2> QED
    BY <2>1 DEF JobsOK
<1>8. PlacesOK'
  <2>1. PlacesOK /\ due \subseteq Deliveries
    BY DEF PackagesInv, TypeOK
  <2>2. \A k \in Folders, s \in Tasks : at'[k][s] # None => at'[k][s].task = s
    BY <1>1, <1>5, <2>1 DEF PlacesOK
  <2>3. \A k, l \in Folders, s \in Tasks : at'[k][s] # None /\ at'[k][s] = at'[l][s] => k = l
    BY <1>1, <1>2, <1>5, <2>1 DEF PlacesOK
  <2>4. \A e \in due', k \in Folders : at'[k][e.task] # e
    BY <1>1, <1>3, <1>5, <2>1 DEF PlacesOK, Tasks
  <2> QED
    BY <2>2, <2>3, <2>4 DEF PlacesOK
<1>9. FiledByOutcome'
  BY <1>3, <1>4, <1>5 DEF FiledByOutcome, PackagesInv, DeliveredOnce
<1>10. TypeOK'
  BY <1>3, <1>5 DEF PackagesInv, TypeOK
<1>11. SameGot' /\ KeptOK'
  BY <1>3 DEF SameGot, KeptOK, PackagesInv
<1> QED
  BY <1>7, <1>8, <1>9, <1>10, <1>11 DEF PackagesInv

-----------------------------------------------------------------------------
(* A pass *)

LEMMA SmallestNumber ==
  ASSUME NEW T, T \subseteq Nat, T # {}
  PROVE  \E x \in T : \A y \in T : x <= y
<1> DEFINE R == {p \in Nat \X Nat : p[1] < p[2]}
<1>1. R = OpToRel(<, Nat)
  BY Zenon DEF OpToRel
<1>2. IsWellFoundedOn(R, Nat)
  BY <1>1, NatLessThanWellFounded, Zenon
<1>3. \E x \in T : \A y \in T : ~(<<y, x>> \in R)
  <2> HIDE DEF R
  <2> QED
    BY <1>2, WFMin, Zenon
<1>4. \A x, y \in T : x <= y \/ <<y, x>> \in R
  OBVIOUS
<1> QED
  BY <1>3, <1>4

LEMMA StartStep ==
  ASSUME PackagesOK, PackagesInv, NEW g \in Agents, NEW from \in {"results", "processing"},
         Start(g, from)
  PROVE  PackagesInv'
<1>1. PICK w : w = [Idle EXCEPT !.phase = "scan", !.from = from,
                                !.left = {t \in Tasks : at[from][t] # None}]
  OBVIOUS
<1>2. w \in JobType /\ w.phase = "scan" /\ w.from = from
  BY <1>1 DEF JobType, Phases, Idle
<1>3. Become(g, w) /\ UNCHANGED <<at, due, lock, identity, kept, deaths>>
  BY <1>1 DEF Start
<1>4. JobOK(g, w) /\ w.phase \notin Making
  BY <1>2, Resting
<1> QED
  BY <1>2, <1>3, <1>4, OwnStep

LEMMA OpenStep ==
  ASSUME PackagesOK, PackagesInv, NEW g \in Agents, Open(g)
  PROVE  PackagesInv'
<1>1. PICK u \in JobType : u = agent[g]
  BY DEF PackagesInv, TypeOK, JobType, Phases
<1>2. u.phase = "scan" /\ u.left # {} /\ u.left \subseteq Tasks /\ u.from \in {"results", "processing"}
  BY <1>1 DEF Open, Within, PackagesInv, JobsOK, JobOK, Holds, JobType
<1>3. PICK t : t = Least(u.left)
  OBVIOUS
<1>4. t \in u.left /\ t \in Tasks
  <2>1. \E x \in u.left : \A y \in u.left : x <= y
    BY <1>2, SmallestNumber DEF PackagesOK
  <2> QED
    BY <1>2, <1>3, <2>1 DEF Least
<1>5. PICK v : v = [u EXCEPT !.left = @ \ {t}]
  OBVIOUS
<1>6. v \in JobType /\ v.phase = "scan" /\ v.from = u.from
  BY <1>1, <1>2, <1>5 DEF JobType
<1>7. PICK d : d = at[u.from][t]
  OBVIOUS
<1>8. d \in Deliveries \union {None} /\ (d # None => d.task = t)
  BY <1>2, <1>4, <1>7 DEF PackagesInv, TypeOK, PlacesOK, Folders
<1>9. PICK x : x = [v EXCEPT !.phase = "lock", !.task = t, !.dir = d]
  OBVIOUS
<1>10. /\ x \in JobType /\ x.phase = "lock" /\ x.from = u.from
       /\ x.task = t /\ x.dir = d
  BY <1>4, <1>6, <1>8, <1>9 DEF JobType, Phases
<1>11. Become(g, IF d = None THEN v ELSE x) /\ UNCHANGED <<at, due, lock, identity, kept, deaths>>
  BY <1>1, <1>3, <1>5, <1>6, <1>7, <1>9 DEF Open
<1>12. CASE d = None
  <2>1. JobOK(g, v) /\ v.phase \notin Making
    BY <1>2, <1>6, Resting
  <2> QED
    BY <1>6, <1>11, <1>12, <2>1, OwnStep
<1>13. CASE d # None
  <2>1. Holds(g, x) /\ ReadOK(x) /\ KeepOK(x) /\ x.phase \notin Making
    BY <1>2, <1>4, <1>8, <1>10, <1>13 DEF Holds, ReadOK, KeepOK, HasRead, Making, Handling
  <2>2. FirstOK(x)
    BY <1>2, <1>7, <1>10 DEF FirstOK, Handling, Making
  <2>3. JobOK(g, x)
    BY <2>1, <2>2 DEF JobOK
  <2> QED
    BY <1>10, <1>11, <1>13, <2>1, <2>3, OwnStep
<1> QED
  BY <1>12, <1>13

LEMMA IdleType == Idle \in JobType /\ Idle.phase = "idle"
BY DEF Idle, JobType, Phases

LEMMA ExitStep ==
  ASSUME PackagesOK, PackagesInv, NEW g \in Agents, Exit(g)
  PROVE  PackagesInv'
<1>1. JobOK(g, Idle) /\ Idle.phase \notin Making
  BY IdleType, Resting
<1>2. Become(g, Idle) /\ UNCHANGED <<at, due, lock, identity, kept, deaths>>
  BY DEF Exit
<1> QED
  BY <1>1, <1>2, IdleType, OwnStep

LEMMA DieStep ==
  ASSUME PackagesOK, PackagesInv, NEW g \in Agents, Die(g)
  PROVE  PackagesInv'
<1>1. Become(g, Idle) /\ Release(g) /\ UNCHANGED <<at, due, identity, kept>>
  BY DEF Die
<1>2. deaths' \in 0 .. MaxDeaths
  BY DEF Die, PackagesInv, TypeOK, PackagesOK
<1> QED
  BY <1>1, <1>2, IdleType, ReleaseStep

LEMMA LockStep ==
  ASSUME PackagesOK, PackagesInv, NEW g \in Agents, Lock(g)
  PROVE  PackagesInv'
<1>1. PICK u : u = agent[g]
  OBVIOUS
<1>2. u.phase = "lock"
  BY <1>1 DEF Lock, Within
<1>3. /\ u \in JobType /\ JobOK(g, u)
      /\ u.task \in Tasks /\ u.dir \in Deliveries /\ u.dir.task = u.task
  BY <1>1, <1>2, OpenJob DEF Opened
<1>4. UNCHANGED <<at, due, identity, kept, deaths>>
  BY DEF Lock
<1>5. CASE Free(g)
  <2>1. PICK p : p = IF u.from = "results" THEN "claim" ELSE "read"
    OBVIOUS
  <2>2. p \in {"claim", "read"} /\ p \in Phases
        /\ (p = "claim" => u.from = "results") /\ (p = "read" => u.from = "processing")
    BY <1>2, <1>3, <2>1 DEF Phases, Handling, JobOK, Holds
  <2>3. PICK w : w = [u EXCEPT !.phase = p]
    OBVIOUS
  <2>4. /\ w \in JobType /\ w.phase = p /\ w.from = u.from
        /\ w.task = u.task /\ w.dir = u.dir /\ w.got = u.got
    BY <1>3, <2>2, <2>3, PhaseMoved
  <2>5. lock' = [lock EXCEPT ![u.dir] = g] /\ Become(g, w) /\ lock[u.dir] = None
    BY <1>1, <1>5, <2>1, <2>3 DEF Lock, Goto, Free
  <2>6. lock' \in [Deliveries -> Agents \union {None}] /\ lock'[u.dir] = g
    BY <1>3, <2>5 DEF PackagesInv, TypeOK
  <2>7. \A h \in Agents \ {g}, d \in Deliveries : lock[d] = h => lock'[d] = h
    BY <1>3, <2>5 DEF PackagesInv, TypeOK, PackagesOK
  <2>8. Holds(g, w)'
    BY <1>2, <1>3, <2>2, <2>4, <2>6 DEF JobOK, Holds, HasRead, Opened, Handling
  <2>9. ReadOK(w)' /\ KeepOK(w)' /\ w.phase \notin Making
    BY <2>2, <2>4 DEF ReadOK, KeepOK, HasRead, Making
  <2>10. FirstOK(w)'
    <3>1. FirstOK(u)
      BY <1>3 DEF JobOK
    <3> QED
      BY <1>2, <1>4, <2>2, <2>4, <3>1 DEF FirstOK, Filed, Opened, Handling, Making
  <2>11. JobOK(g, w)'
    BY <2>8, <2>9, <2>10 DEF JobOK
  <2>12. deaths' \in 0 .. MaxDeaths
    BY <1>4 DEF PackagesInv, TypeOK
  <2> QED
    BY <1>4, <2>4, <2>5, <2>6, <2>7, <2>9, <2>11, <2>12, QuietStep
<1>6. CASE ~Free(g)
  <2>1. Leave(g) /\ ~Within(g, "idle")
    BY <1>1, <1>2, <1>6 DEF Lock, Within
  <2> QED
    BY <1>4, <2>1, LeaveStep
<1> QED
  BY <1>5, <1>6

(* What is common to a process that takes the package to phase p. *)
LEMMA Handled ==
  ASSUME PackagesInv, NEW g \in Agents, NEW u, u = agent[g], u.phase \in Handling,
         NEW p \in Handling
  PROVE  \E w \in JobType :
           /\ w = [u EXCEPT !.phase = p]
           /\ w.phase = p /\ w.task = u.task /\ w.dir = u.dir /\ w.got = u.got
           /\ (p \in HasRead => w.got \in Contents) => Holds(g, w)
<1>1. /\ u \in JobType /\ Holds(g, u)
      /\ u.task \in Tasks /\ u.dir \in Deliveries /\ u.dir.task = u.task
  BY OpenJob DEF Opened, JobOK
<1>2. p \in Phases
  BY DEF Phases
<1>3. PICK w : w = [u EXCEPT !.phase = p]
  OBVIOUS
<1>4. /\ w \in JobType /\ w.phase = p /\ w.from = u.from
      /\ w.task = u.task /\ w.dir = u.dir /\ w.got = u.got
  BY <1>1, <1>2, <1>3, PhaseMoved
<1>5. u.from \in {"results", "processing"} /\ lock[u.dir] = g
  BY <1>1 DEF Holds, Handling
<1>6. (p \in HasRead => w.got \in Contents) => Holds(g, w)
  BY <1>1, <1>4, <1>5 DEF Holds, Handling
<1> QED
  BY <1>3, <1>4, <1>6

(* Until a package of the task is filed, one process handles it. *)
LEMMA OneProcess ==
  ASSUME PackagesInv, NEW g \in Agents, NEW h \in Agents,
         NEW u, u = agent[g], NEW v, v = agent[h],
         u.phase \in Handling, v.phase \in Handling, u.task = v.task, ~Filed(u.task)
  PROVE  g = h
<1>1. JobOK(g, u) /\ JobOK(h, v)
  BY OpenJob DEF Opened
<1>2. lock[u.dir] = g /\ lock[v.dir] = h
  BY <1>1 DEF JobOK, Holds
<1>3. at["processing"][u.task] = u.dir /\ at["processing"][v.task] = v.dir
  BY <1>1 DEF JobOK, FirstOK, Opened
<1> QED
  BY <1>2, <1>3

LEMMA SameDelivery ==
  ASSUME PackagesOK, NEW t \in DeliveredOnce, NEW d \in Deliveries, NEW e \in Deliveries,
         d.task = t, e.task = t
  PROVE  d = e
<1>1. PICK S : S = {x \in Deliveries : x.task = t}
  OBVIOUS
<1>2. IsFiniteSet(S)
  BY <1>1, FS_Subset DEF PackagesOK
<1>3. Cardinality(S) = 1
  BY <1>1 DEF DeliveredOnce
<1>4. \E x : S = {x}
  BY <1>2, <1>3, FS_Singleton
<1> QED
  BY <1>1, <1>4

LEMMA OnePlace ==
  ASSUME PackagesOK, PackagesInv, NEW t \in DeliveredOnce, NEW f \in Folders, NEW h \in Folders,
         at[f][t] # None, at[h][t] # None
  PROVE  f = h
<1>1. t \in Tasks
  BY DEF DeliveredOnce
<1>2. at[f][t] \in Deliveries /\ at[h][t] \in Deliveries
  BY <1>1 DEF PackagesInv, TypeOK
<1>3. at[f][t].task = t /\ at[h][t].task = t
  BY <1>1 DEF PackagesInv, PlacesOK
<1>4. at[f][t] = at[h][t]
  BY <1>2, <1>3, SameDelivery
<1> QED
  BY <1>1, <1>4 DEF PackagesInv, PlacesOK

LEMMA ClaimStep ==
  ASSUME PackagesOK, PackagesInv, NEW g \in Agents, Claim(g)
  PROVE  PackagesInv'
<1>1. PICK u : u = agent[g]
  OBVIOUS
<1>2. u.phase = "claim"
  BY <1>1 DEF Claim, Within
<1>3. /\ u \in JobType /\ JobOK(g, u)
      /\ u.task \in Tasks /\ u.dir \in Deliveries /\ u.dir.task = u.task
  BY <1>1, <1>2, OpenJob DEF Opened
<1>4. PICK t : t = u.task
  OBVIOUS
<1>5. UNCHANGED <<due, identity, kept, deaths>>
  BY DEF Claim
<1>6. /\ "results" \in Folders /\ "processing" \in Folders
      /\ "archive" \in Folders /\ "failed" \in Folders
  BY DEF Folders
<1>7. CASE Move(t, "results", "processing") /\ Goto(g, "read") /\ UNCHANGED lock
  <2>1. t \in Tasks
    BY <1>3, <1>4
  <2>2. /\ at' \in [Folders -> [Tasks -> Deliveries \union {None}]]
        /\ at["results"][t] \in Deliveries /\ at["processing"][t] = None
        /\ at'["processing"][t] = at["results"][t]
        /\ \A k \in Folders, s \in Tasks :
             s # t \/ k \notin {"results", "processing"} => at'[k][s] = at[k][s]
    <3>1. "results" # "processing" /\ Move(t, "results", "processing")
      BY <1>7
    <3> HIDE <1>7
    <3> QED
      BY <1>6, <2>1, <3>1, Moved
  <2>3. \A s \in Tasks : at'["archive"][s] = at["archive"][s] /\ at'["failed"][s] = at["failed"][s]
    BY <1>6, <2>2
  <2>4. ASSUME NEW s \in Tasks PROVE Filed(s)' <=> Filed(s)
    BY <2>3 DEF Filed
  <2>5. ASSUME NEW h \in Agents \ {g}, NEW v \in JobType, v = agent[h] PROVE JobOK(h, v)'
    <3>1. JobOK(h, v)
      BY <2>5 DEF PackagesInv, JobsOK
    <3>2. v.phase \in Opened => v.task \in Tasks /\ v.dir \in Deliveries /\ v.dir # None
      BY <3>1 DEF JobOK, Holds, PackagesOK
    <3>3. Holds(h, v)' /\ KeepOK(v)'
      BY <1>5, <1>7, <3>1 DEF JobOK, Holds, KeepOK
    <3>4. FirstOK(v)'
      <4>1. FirstOK(v)
        BY <3>1 DEF JobOK
      <4>2. CASE v.task = t
        BY <2>2, <2>4, <3>2, <4>1, <4>2 DEF FirstOK, Handling, Making, PackagesOK
      <4>3. CASE v.task # t
        BY <1>5, <1>6, <2>2, <2>4, <3>2, <4>1, <4>3 DEF FirstOK
      <4> QED
        BY <4>2, <4>3
    <3>5. ReadOK(v)'
      <4>1. ReadOK(v) /\ HasRead \subseteq Opened
        BY <3>1 DEF JobOK, HasRead, Opened, Handling
      <4>2. CASE v.task = t
        BY <2>2, <2>3, <3>2, <4>1, <4>2 DEF ReadOK
      <4>3. CASE v.task # t
        BY <1>6, <2>2, <2>3, <3>2, <4>1, <4>3 DEF ReadOK
      <4> QED
        BY <4>2, <4>3
    <3> QED
      BY <3>3, <3>4, <3>5 DEF JobOK
  <2>6. PICK w : w = [u EXCEPT !.phase = "read"]
    OBVIOUS
  <2>7. /\ w \in JobType /\ w.phase = "read" /\ w.from = u.from
        /\ w.task = u.task /\ w.dir = u.dir /\ w.got = u.got
    BY <1>3, <2>6, PhaseMoved DEF Phases, Handling
  <2>8. Become(g, w)
    BY <1>1, <1>7, <2>6 DEF Goto
  <2>9. JobOK(g, w)'
    <3>1. Holds(g, w)'
      BY <1>2, <1>3, <1>7, <2>7 DEF JobOK, Holds, HasRead, Opened
    <3>2. ReadOK(w)' /\ KeepOK(w)'
      BY <2>7 DEF ReadOK, KeepOK, HasRead, Making
    <3>3. ~Filed(t) => at["results"][t] = u.dir
      BY <1>2, <1>3, <1>4, <2>2 DEF JobOK, FirstOK, Holds, Opened
    <3>4. FirstOK(w)'
      BY <1>4, <2>1, <2>2, <2>4, <2>7, <3>3 DEF FirstOK, Making
    <3> QED
      BY <3>1, <3>2, <3>4 DEF JobOK
  <2>10. JobsOK' /\ SameGot' /\ agent' \in [Agents -> JobType]
    BY <2>5, <2>7, <2>8, <2>9, JobsStep DEF Making
  <2>11. TypeOK'
    BY <1>5, <1>7, <2>2, <2>10 DEF PackagesInv, TypeOK, JobType, Phases
  <2>12. PlacesOK'
    BY <1>5, <1>6, <1>7, <2>1, MovedPlaces
  <2>13. KeptOK' /\ FiledByOutcome'
    BY <1>5, <2>3 DEF PackagesInv, KeptOK, FiledByOutcome, DeliveredOnce
  <2> QED
    BY <2>10, <2>11, <2>12, <2>13 DEF PackagesInv
<1>8. CASE Leave(g) /\ UNCHANGED at
  BY <1>1, <1>2, <1>5, <1>8, LeaveStep DEF Within
<1> QED
  BY <1>1, <1>4, <1>7, <1>8 DEF Claim

-----------------------------------------------------------------------------
(* The handler *)

LEMMA ReadStep ==
  ASSUME PackagesOK, PackagesInv, NEW g \in Agents, Read(g)
  PROVE  PackagesInv'
<1>1. PICK u : u = agent[g]
  OBVIOUS
<1>2. u.phase = "read" /\ u.phase \in Handling
  BY <1>1 DEF Read, Within, Handling
<1>3. /\ u \in JobType /\ JobOK(g, u)
      /\ u.task \in Tasks /\ u.dir \in Deliveries /\ u.dir.task = u.task
  BY <1>1, <1>2, OpenJob DEF Opened
<1>4. UNCHANGED <<at, due, lock, identity, kept, deaths>>
  BY DEF Read
<1>5. PICK d : d = at["processing"][u.task]
  OBVIOUS
<1>6. d \in Deliveries \union {None}
  BY <1>3, <1>5 DEF PackagesInv, TypeOK, Folders
<1>7. ~Filed(u.task) => d = u.dir /\ d # None
  BY <1>2, <1>3, <1>5 DEF JobOK, FirstOK, Opened, PackagesOK
<1>8. CASE d = None \/ d.content = Malformed
  <2>1. PICK w \in JobType :
          /\ w = [u EXCEPT !.phase = "failed"]
          /\ w.phase = "failed" /\ w.task = u.task /\ w.dir = u.dir /\ w.got = u.got
          /\ ("failed" \in HasRead => w.got \in Contents) => Holds(g, w)
    BY <1>1, <1>2, Handled DEF Handling
  <2>2. Holds(g, w) /\ ReadOK(w) /\ KeepOK(w) /\ w.phase \notin Making
    BY <2>1 DEF HasRead, ReadOK, KeepOK, Making
  <2>3. ~Filed(u.task) => d.content \notin kept[u.task]
    BY <1>3, <1>7, <1>8 DEF PackagesInv, TypeOK, Contents
  <2>4. FirstOK(w)
    BY <1>5, <1>7, <2>1, <2>3 DEF FirstOK, Making
  <2>5. Become(g, w)
    BY <1>1, <1>5, <1>8, <2>1 DEF Read, FileAs, Goto
  <2>6. JobOK(g, w)
    BY <2>2, <2>4 DEF JobOK
  <2> QED
    BY <1>4, <2>2, <2>5, <2>6, OwnStep
<1>9. CASE ~(d = None \/ d.content = Malformed)
  <2>1. PICK w : w = [u EXCEPT !.phase = "look", !.got = d.content]
    OBVIOUS
  <2>2. d.content \in Contents
    BY <1>6, <1>9 DEF Contents
  <2>3. /\ w \in JobType /\ w.phase = "look" /\ w.from = u.from
        /\ w.task = u.task /\ w.dir = u.dir /\ w.got = d.content
    BY <1>3, <2>1, <2>2 DEF JobType, Phases, Handling
  <2>4. Holds(g, w)
    BY <1>2, <1>3, <2>2, <2>3 DEF JobOK, Holds, Handling
  <2>5. FirstOK(w) /\ ReadOK(w) /\ KeepOK(w) /\ w.phase \notin Making
    BY <1>5, <1>7, <1>9, <2>3 DEF FirstOK, ReadOK, KeepOK, Making
  <2>6. Become(g, w)
    BY <1>1, <1>5, <1>9, <2>1 DEF Read
  <2>7. JobOK(g, w)
    BY <2>4, <2>5 DEF JobOK
  <2> QED
    BY <1>4, <2>3, <2>5, <2>6, <2>7, OwnStep
<1> QED
  BY <1>8, <1>9

(* A task without a directory in the archive root has no package in        *)
(* archive/, so all that is read of it is the one in processing/.          *)
LEMMA ReadAlike ==
  ASSUME PackagesInv, NEW g \in Agents, NEW u, u = agent[g], u.phase \in HasRead,
         u.task \notin identity
  PROVE  /\ kept[u.task] = {}
         /\ \A h \in Agents : agent[h].phase \in Making /\ agent[h].task = u.task
                            => agent[h].got = u.got
<1>1. /\ u \in JobType /\ JobOK(g, u) /\ u.task \in Tasks
  BY OpenJob DEF Opened, HasRead, Handling
<1>2. kept[u.task] = {}
  BY <1>1 DEF PackagesInv, KeptOK
<1>3. at["archive"][u.task] = None
  BY <1>1, <1>2 DEF PackagesInv, FiledByOutcome
<1>4. at["processing"][u.task].content = u.got
  BY <1>1, <1>3 DEF JobOK, ReadOK
<1>5. ASSUME NEW h \in Agents, NEW v, v = agent[h], v.phase \in Making, v.task = u.task
      PROVE  v.got = u.got
  <2>1. JobOK(h, v)
    BY <1>5, OpenJob DEF Opened, Making, Handling
  <2>2. at["processing"][v.task].content = v.got
    BY <1>3, <1>5, <2>1 DEF JobOK, ReadOK, HasRead, Making
  <2> QED
    BY <1>4, <1>5, <2>2
<1> QED
  BY <1>2, <1>5

LEMMA LookStep ==
  ASSUME PackagesOK, PackagesInv, NEW g \in Agents, Look(g)
  PROVE  PackagesInv'
<1>1. PICK u : u = agent[g]
  OBVIOUS
<1>2. u.phase = "look" /\ u.phase \in Handling /\ u.phase \in HasRead
  BY <1>1 DEF Look, Within, Handling, HasRead
<1>3. /\ u \in JobType /\ JobOK(g, u)
      /\ u.task \in Tasks /\ u.dir \in Deliveries /\ u.dir.task = u.task
  BY <1>1, <1>2, OpenJob DEF Opened
<1>4. UNCHANGED <<at, due, lock, identity, kept, deaths>>
  BY DEF Look
<1>5. ReadOK(u) /\ u.got \in Contents
  BY <1>2, <1>3 DEF JobOK, Holds
<1>6. ~Filed(u.task) => at["processing"][u.task] = u.dir
  BY <1>2, <1>3 DEF JobOK, FirstOK, Opened
<1>7. ASSUME NEW p \in {"archive", "failed", "make"}
      PROVE  \E w \in JobType :
               /\ w = [u EXCEPT !.phase = p]
               /\ w.phase = p /\ w.task = u.task /\ w.dir = u.dir /\ w.got = u.got
               /\ Holds(g, w) /\ (Goto(g, p) => Become(g, w))
  <2>1. p \in Handling
    BY DEF Handling
  <2>2. PICK w \in JobType :
          /\ w = [u EXCEPT !.phase = p]
          /\ w.phase = p /\ w.task = u.task /\ w.dir = u.dir /\ w.got = u.got
          /\ (p \in HasRead => w.got \in Contents) => Holds(g, w)
    BY <1>1, <1>2, <2>1, Handled
  <2> QED
    BY <1>1, <1>5, <2>2 DEF Goto
<1>8. CASE u.got \in kept[u.task] /\ Goto(g, "archive")
  <2>1. PICK w \in JobType :
          /\ w = [u EXCEPT !.phase = "archive"]
          /\ w.phase = "archive" /\ w.task = u.task /\ w.dir = u.dir /\ w.got = u.got
          /\ Holds(g, w) /\ (Goto(g, "archive") => Become(g, w))
    BY <1>7
  <2>2. FirstOK(w) /\ ReadOK(w) /\ KeepOK(w) /\ w.phase \notin Making
    BY <1>2, <1>5, <1>6, <1>8, <2>1 DEF FirstOK, ReadOK, KeepOK, HasRead, Making
  <2>3. JobOK(g, w) /\ Become(g, w)
    BY <1>8, <2>1, <2>2 DEF JobOK
  <2> QED
    BY <1>4, <2>2, <2>3, OwnStep
<1>9. CASE u.got \notin kept[u.task] /\ u.task \in identity /\ Goto(g, "failed")
  <2>1. PICK w \in JobType :
          /\ w = [u EXCEPT !.phase = "failed"]
          /\ w.phase = "failed" /\ w.task = u.task /\ w.dir = u.dir /\ w.got = u.got
          /\ Holds(g, w) /\ (Goto(g, "failed") => Become(g, w))
    BY <1>7
  <2>2. ~Filed(u.task) => at["processing"][u.task].content = u.got
    BY <1>2, <1>5 DEF ReadOK, Filed
  <2>3. FirstOK(w) /\ ReadOK(w) /\ KeepOK(w) /\ w.phase \notin Making
    BY <1>6, <1>9, <2>1, <2>2 DEF FirstOK, ReadOK, KeepOK, HasRead, Making
  <2>4. JobOK(g, w) /\ Become(g, w)
    BY <1>9, <2>1, <2>3 DEF JobOK
  <2> QED
    BY <1>4, <2>3, <2>4, OwnStep
<1>10. CASE u.task \notin identity /\ Goto(g, "make")
  <2>1. PICK w \in JobType :
          /\ w = [u EXCEPT !.phase = "make"]
          /\ w.phase = "make" /\ w.task = u.task /\ w.dir = u.dir /\ w.got = u.got
          /\ Holds(g, w) /\ (Goto(g, "make") => Become(g, w))
    BY <1>7
  <2>2. /\ kept[u.task] = {}
        /\ \A h \in Agents : agent[h].phase \in Making /\ agent[h].task = u.task
                            => agent[h].got = u.got
    BY <1>1, <1>2, <1>10, ReadAlike
  <2>3. FirstOK(w) /\ ReadOK(w) /\ KeepOK(w)
    BY <1>2, <1>5, <1>6, <2>1, <2>2 DEF FirstOK, ReadOK, KeepOK, HasRead, Making
  <2>4. JobOK(g, w) /\ Become(g, w)
    BY <1>10, <2>1, <2>3 DEF JobOK
  <2>5. \A h \in Agents : agent[h].phase \in Making /\ agent[h].task = w.task
                          => agent[h].got = w.got
    BY <2>1, <2>2
  <2> QED
    BY <1>4, <2>4, <2>5, OwnStep
<1> QED
  BY <1>1, <1>8, <1>9, <1>10 DEF Look, FileAs

LEMMA MakeStep ==
  ASSUME PackagesOK, PackagesInv, NEW g \in Agents, Make(g)
  PROVE  PackagesInv'
<1>1. PICK u : u = agent[g]
  OBVIOUS
<1>2. u.phase = "make" /\ u.phase \in Handling /\ u.phase \in HasRead
  BY <1>1 DEF Make, Within, Handling, HasRead
<1>3. /\ u \in JobType /\ JobOK(g, u)
      /\ u.task \in Tasks /\ u.dir \in Deliveries /\ u.dir.task = u.task
  BY <1>1, <1>2, OpenJob DEF Opened
<1>4. identity' = identity \union {u.task} /\ UNCHANGED <<at, due, lock, kept, deaths>>
  BY <1>1 DEF Make
<1>5. PICK w \in JobType :
        /\ w = [u EXCEPT !.phase = "place"]
        /\ w.phase = "place" /\ w.task = u.task /\ w.dir = u.dir /\ w.got = u.got
        /\ ("place" \in HasRead => w.got \in Contents) => Holds(g, w)
  BY <1>1, <1>2, Handled DEF Handling
<1>6. Become(g, w)
  BY <1>1, <1>5 DEF Make, Goto
<1>7. Holds(g, w) /\ FirstOK(w) /\ ReadOK(w)
  BY <1>2, <1>3, <1>5 DEF JobOK, Holds, FirstOK, ReadOK, HasRead, Making, Opened, Handling
<1>8. KeepOK(w)'
  BY <1>2, <1>3, <1>4, <1>5 DEF JobOK, KeepOK, Making
<1>9. JobOK(g, w)'
  BY <1>4, <1>7, <1>8 DEF JobOK, Holds, FirstOK, ReadOK, Filed
<1>10. ASSUME NEW h \in Agents \ {g}, NEW v \in JobType, v = agent[h] PROVE JobOK(h, v)'
  <2>1. JobOK(h, v)
    BY <1>10 DEF PackagesInv, JobsOK
  <2> QED
    BY <1>4, <2>1 DEF JobOK, Holds, FirstOK, ReadOK, KeepOK, Filed
<1>11. \A h \in Agents : agent[h].phase \in Making /\ agent[h].task = w.task
                        => agent[h].got = w.got
  BY <1>1, <1>2, <1>5 DEF PackagesInv, SameGot, Making
<1>12. JobsOK' /\ SameGot' /\ agent' \in [Agents -> JobType]
  BY <1>6, <1>9, <1>10, <1>11, JobsStep
<1>13. TypeOK'
  BY <1>3, <1>4, <1>12 DEF PackagesInv, TypeOK, JobType, Phases
<1>14. KeptOK' /\ PlacesOK' /\ FiledByOutcome'
  BY <1>4 DEF PackagesInv, KeptOK, PlacesOK, FiledByOutcome
<1> QED
  BY <1>12, <1>13, <1>14 DEF PackagesInv

LEMMA PlaceStep ==
  ASSUME PackagesOK, PackagesInv, NEW g \in Agents, Place(g)
  PROVE  PackagesInv'
<1>1. PICK u : u = agent[g]
  OBVIOUS
<1>2. u.phase = "place" /\ u.phase \in Handling /\ u.phase \in HasRead
  BY <1>1 DEF Place, Within, Handling, HasRead
<1>3. /\ u \in JobType /\ JobOK(g, u)
      /\ u.task \in Tasks /\ u.dir \in Deliveries /\ u.dir.task = u.task
  BY <1>1, <1>2, OpenJob DEF Opened
<1>4. UNCHANGED <<at, due, lock, identity, deaths>>
  BY DEF Place
<1>5. u.got \in Contents /\ ReadOK(u)
  BY <1>2, <1>3 DEF JobOK, Holds
<1>6. /\ u.task \in identity
      /\ \A c \in kept[u.task] : c = u.got
  BY <1>2, <1>3 DEF JobOK, KeepOK, Making
<1>7. ~Filed(u.task) => kept[u.task] = {} /\ at["processing"][u.task] = u.dir
  BY <1>2, <1>3 DEF JobOK, FirstOK, Making, Opened
<1>8. CASE u.got \in kept[u.task]
  <2>1. PICK w \in JobType :
          /\ w = [u EXCEPT !.phase = "failed"]
          /\ w.phase = "failed" /\ w.task = u.task /\ w.dir = u.dir /\ w.got = u.got
          /\ ("failed" \in HasRead => w.got \in Contents) => Holds(g, w)
    BY <1>1, <1>2, Handled DEF Handling
  <2>2. /\ Holds(g, w) /\ FirstOK(w) /\ ReadOK(w) /\ KeepOK(w) /\ w.phase \notin Making
    BY <1>5, <1>7, <1>8, <2>1 DEF FirstOK, ReadOK, KeepOK, HasRead, Making
  <2>3. JobOK(g, w) /\ Become(g, w) /\ UNCHANGED kept
    BY <1>1, <1>8, <2>1, <2>2 DEF JobOK, Place, FileAs, Goto
  <2> QED
    BY <1>4, <2>2, <2>3, OwnStep
<1>9. CASE u.got \notin kept[u.task]
  <2>1. PICK w \in JobType :
          /\ w = [u EXCEPT !.phase = "archive"]
          /\ w.phase = "archive" /\ w.task = u.task /\ w.dir = u.dir /\ w.got = u.got
          /\ ("archive" \in HasRead => w.got \in Contents) => Holds(g, w)
    BY <1>1, <1>2, Handled DEF Handling
  <2>2. Become(g, w) /\ kept' = [kept EXCEPT ![u.task] = @ \union {u.got}]
    BY <1>1, <1>9, <2>1 DEF Place, FileAs, Goto
  <2>3. /\ kept' \in [Tasks -> SUBSET Contents]
        /\ kept'[u.task] = {u.got}
        /\ \A s \in Tasks \ {u.task} : kept'[s] = kept[s]
        /\ kept[u.task] = {}
    BY <1>3, <1>5, <1>6, <1>9, <2>2 DEF PackagesInv, TypeOK
  <2>4. JobOK(g, w)'
    <3>1. Holds(g, w) /\ FirstOK(w) /\ ReadOK(w)
      BY <1>2, <1>5, <1>7, <2>1 DEF FirstOK, ReadOK, HasRead, Making
    <3>2. KeepOK(w)'
      BY <2>1, <2>3 DEF KeepOK, Making
    <3>3. FirstOK(w)'
      BY <1>4, <2>1, <3>1 DEF FirstOK, Filed, Making
    <3> QED
      BY <1>4, <3>1, <3>2, <3>3 DEF JobOK, Holds, ReadOK
  <2>5. ASSUME NEW h \in Agents \ {g}, NEW v \in JobType, v = agent[h] PROVE JobOK(h, v)'
    <3>1. JobOK(h, v)
      BY <2>5 DEF PackagesInv, JobsOK
    <3>2. Holds(h, v)' /\ ReadOK(v)'
      BY <1>4, <3>1 DEF JobOK, Holds, ReadOK
    <3>3. v.phase \in Opened => v.task \in Tasks
      BY <3>1 DEF JobOK, Holds
    <3>4. Making \subseteq Handling /\ HasRead \subseteq Handling /\ Handling \subseteq Opened
      BY DEF Making, HasRead, Handling, Opened
    <3>5. v.phase \in Handling /\ v.task = u.task => Filed(u.task)
      BY <1>1, <1>2, <2>5, OneProcess
    <3>6. FirstOK(v)'
      <4>1. FirstOK(v)
        BY <3>1 DEF JobOK
      <4>2. CASE v.task = u.task
        BY <1>4, <3>4, <3>5, <4>1, <4>2 DEF FirstOK, Filed, Handling
      <4>3. CASE v.task # u.task
        BY <1>4, <2>3, <3>3, <4>1, <4>3 DEF FirstOK, Filed
      <4> QED
        BY <4>2, <4>3
    <3>7. KeepOK(v)'
      <4>1. KeepOK(v)
        BY <3>1 DEF JobOK
      <4>2. CASE v.task = u.task
        <5>1. v.phase \in Making => v.got = u.got
          BY <1>1, <1>2, <2>5, <4>2 DEF PackagesInv, SameGot, Making
        <5> QED
          BY <1>4, <2>3, <4>1, <4>2, <5>1 DEF KeepOK
      <4>3. CASE v.task # u.task
        BY <1>4, <2>3, <3>3, <3>4, <4>1, <4>3 DEF KeepOK, HasRead, Making, Handling, Opened
      <4> QED
        BY <4>2, <4>3
    <3> QED
      BY <3>2, <3>6, <3>7 DEF JobOK
  <2>6. JobsOK' /\ SameGot' /\ agent' \in [Agents -> JobType]
    BY <2>1, <2>2, <2>4, <2>5, JobsStep DEF Making
  <2>7. TypeOK'
    BY <1>4, <2>3, <2>6 DEF PackagesInv, TypeOK, JobType, Phases
  <2>8. PlacesOK'
    BY <1>4 DEF PackagesInv, PlacesOK
  <2>9. KeptOK'
    BY <1>4, <1>6, <2>3 DEF PackagesInv, KeptOK
  <2>10. FiledByOutcome'
    <3>1. \A t \in Tasks : kept[t] \subseteq kept'[t]
      BY <2>3
    <3>2. ASSUME NEW t \in DeliveredOnce, at["failed"][t] # None
          PROVE  at["failed"][t].content \notin kept'[t]
      <4>1. t \in Tasks /\ at["failed"][t].content \notin kept[t]
        BY <3>2 DEF DeliveredOnce, PackagesInv, FiledByOutcome
      <4>2. t # u.task
        <5> SUFFICES ASSUME t = u.task PROVE FALSE
          OBVIOUS
        <5>1. "failed" \in Folders /\ "archive" \in Folders /\ "processing" \in Folders
          BY DEF Folders
        <5>2. at["archive"][t] = None
          BY <3>2, <5>1, OnePlace
        <5>3. at["processing"][t] # None
          BY <1>2, <1>5, <5>2 DEF ReadOK
        <5> QED
          BY <3>2, <5>1, <5>3, OnePlace
      <4> QED
        BY <2>3, <4>1, <4>2
    <3>3. DeliveredOnce' = DeliveredOnce
      BY DEF DeliveredOnce
    <3> QED
      BY <1>4, <3>1, <3>2, <3>3 DEF PackagesInv, FiledByOutcome
  <2> QED
    BY <2>6, <2>7, <2>8, <2>9, <2>10 DEF PackagesInv
<1> QED
  BY <1>8, <1>9

LEMMA FinishStep ==
  ASSUME PackagesOK, PackagesInv, NEW g \in Agents, NEW f \in {"archive", "failed"}, Finish(g, f)
  PROVE  PackagesInv'
<1>1. PICK u : u = agent[g]
  OBVIOUS
<1>2. u.phase = f /\ u.phase \in Handling /\ ~Within(g, "idle")
  BY <1>1 DEF Finish, Within, Handling
<1>3. /\ u \in JobType /\ JobOK(g, u)
      /\ u.task \in Tasks /\ u.dir \in Deliveries /\ u.dir.task = u.task
  BY <1>1, <1>2, OpenJob DEF Opened
<1>4. PICK t : t = u.task
  OBVIOUS
<1>5. Leave(g) /\ UNCHANGED <<due, identity, kept, deaths>>
  BY DEF Finish
<1>6. /\ "processing" \in Folders /\ f \in Folders /\ f # "processing"
      /\ "archive" \in Folders /\ "failed" \in Folders /\ t \in Tasks
  BY <1>3, <1>4 DEF Folders
<1>7. CASE UNCHANGED at
  BY <1>2, <1>5, <1>7, LeaveStep
<1>8. CASE Move(t, "processing", f)
  <2>1. /\ at' \in [Folders -> [Tasks -> Deliveries \union {None}]]
        /\ at["processing"][t] \in Deliveries /\ at["processing"][t] # None /\ at[f][t] = None
        /\ at'["processing"][t] = None /\ at'[f][t] = at["processing"][t]
        /\ \A k \in Folders, s \in Tasks :
             s # t \/ k \notin {"processing", f} => at'[k][s] = at[k][s]
    BY <1>6, <1>8, Moved
  <2>2. Filed(t)' /\ \A s \in Tasks \ {t} : Filed(s)' <=> Filed(s)
    BY <1>6, <2>1 DEF Filed
  <2>3. PICK w \in JobType : /\ w.phase = "scan" /\ w.from \in {"results", "processing"}
                            /\ Become(g, w) /\ Release(g)
    BY <1>2, <1>5, LeftType
  <2>4. /\ lock' \in [Deliveries -> Agents \union {None}]
        /\ \A h \in Agents \ {g}, d \in Deliveries : lock[d] = h => lock'[d] = h
    BY <2>3 DEF Release, PackagesInv, TypeOK
  <2>5. JobOK(g, w)' /\ w.phase \notin Making
    BY <2>3, Resting
  <2>6. ASSUME NEW h \in Agents \ {g}, NEW v \in JobType, v = agent[h] PROVE JobOK(h, v)'
    <3>1. JobOK(h, v)
      BY <2>6 DEF PackagesInv, JobsOK
    <3>2. v.phase \in Opened => v.task \in Tasks /\ v.dir \in Deliveries
      BY <3>1 DEF JobOK, Holds
    <3>3. HasRead \subseteq Handling /\ Handling \subseteq Opened
      BY DEF HasRead, Handling, Opened
    <3>4. Holds(h, v)'
      BY <2>4, <3>1, <3>2 DEF JobOK, Holds, Opened
    <3>5. KeepOK(v)'
      BY <1>5, <3>1 DEF JobOK, KeepOK
    <3>6. FirstOK(v)'
      <4>1. FirstOK(v)
        BY <3>1 DEF JobOK
      <4>2. CASE v.task = t
        BY <2>2, <4>2 DEF FirstOK
      <4>3. CASE v.task # t
        <5>1. v.phase \in Opened => \A k \in Folders : at'[k][v.task] = at[k][v.task]
          BY <2>1, <3>2, <4>3
        <5>2. "results" \in Folders
          BY DEF Folders
        <5> QED
          BY <1>5, <1>6, <2>2, <3>2, <4>1, <4>3, <5>1, <5>2 DEF FirstOK
      <4> QED
        BY <4>2, <4>3
    <3>7. ReadOK(v)'
      <4>1. ReadOK(v)
        BY <3>1 DEF JobOK
      <4>2. CASE v.task = t /\ v.phase \in HasRead
        <5>1. at'["archive"][t] # None
          <6>1. v.phase \in Handling /\ v.task = u.task
            BY <1>4, <3>3, <4>2
          <6>2. Filed(u.task)
            BY <1>1, <1>2, <2>6, <6>1, OneProcess
          <6> QED
            BY <1>4, <1>6, <2>1, <6>2 DEF Filed
        <5> QED
          BY <4>2, <5>1 DEF ReadOK
      <4>3. CASE v.task # t /\ v.phase \in HasRead
        <5>1. v.task \in Tasks
          BY <3>2, <3>3, <4>3
        <5>2. /\ at'["archive"][v.task] = at["archive"][v.task]
              /\ at'["processing"][v.task] = at["processing"][v.task]
          BY <1>6, <2>1, <4>3, <5>1
        <5> QED
          BY <4>1, <5>2 DEF ReadOK
      <4>4. CASE v.phase \notin HasRead
        BY <4>4 DEF ReadOK
      <4> QED
        BY <4>2, <4>3, <4>4
    <3> QED
      BY <3>4, <3>5, <3>6, <3>7 DEF JobOK
  <2>7. JobsOK' /\ SameGot' /\ agent' \in [Agents -> JobType]
    BY <2>3, <2>5, <2>6, JobsStep
  <2>8. TypeOK'
    BY <1>5, <2>1, <2>4, <2>7 DEF PackagesInv, TypeOK, JobType, Phases
  <2>9. PlacesOK' /\ KeptOK'
    <3>1. PlacesOK'
      BY <1>5, <1>6, <1>8, MovedPlaces
    <3> QED
      BY <1>5, <3>1 DEF PackagesInv, KeptOK
  <2>10. FiledByOutcome'
    <3>1. ASSUME NEW s \in Tasks, at'["archive"][s] # None
          PROVE  at'["archive"][s].content \in kept[s]
      <4>1. CASE s = t /\ f = "archive"
        <5>1. at["processing"][t].content = u.got
          BY <1>2, <1>3, <1>4, <2>1, <4>1 DEF JobOK, ReadOK, HasRead
        <5>2. u.got \in kept[t]
          BY <1>2, <1>3, <1>4, <4>1 DEF JobOK, KeepOK
        <5> QED
          BY <2>1, <4>1, <5>1, <5>2
      <4>2. CASE ~(s = t /\ f = "archive")
        <5>1. at'["archive"][s] = at["archive"][s]
          BY <1>6, <2>1, <4>2
        <5> QED
          BY <3>1, <5>1 DEF PackagesInv, FiledByOutcome
      <4> QED
        BY <4>1, <4>2
    <3>2. ASSUME NEW s \in DeliveredOnce, at'["failed"][s] # None
          PROVE  at'["failed"][s].content \notin kept[s]
      <4>1. s \in Tasks
        BY DEF DeliveredOnce
      <4>2. CASE s = t /\ f = "failed"
        <5>1. at["archive"][t] = None
          BY <1>6, <2>1, <3>2, <4>2, OnePlace
        <5>2. ~Filed(t)
          BY <2>1, <4>2, <5>1 DEF Filed
        <5>3. at["processing"][t].content \notin kept[t]
          BY <1>2, <1>3, <1>4, <4>2, <5>2 DEF JobOK, FirstOK, Opened
        <5> QED
          BY <2>1, <4>2, <5>3
      <4>3. CASE ~(s = t /\ f = "failed")
        <5>1. at'["failed"][s] = at["failed"][s]
          BY <1>6, <2>1, <4>1, <4>3
        <5> QED
          BY <3>2, <4>1, <5>1 DEF PackagesInv, FiledByOutcome
      <4> QED
        BY <4>2, <4>3
    <3>3. DeliveredOnce' = DeliveredOnce
      BY DEF DeliveredOnce
    <3> QED
      BY <1>5, <3>1, <3>2, <3>3 DEF FiledByOutcome
  <2> QED
    BY <2>7, <2>8, <2>9, <2>10 DEF PackagesInv
<1> QED
  BY <1>1, <1>4, <1>7, <1>8 DEF Finish

-----------------------------------------------------------------------------
(* The invariant *)

LEMMA PackagesInit ==
  ASSUME PackagesOK, Init
  PROVE  PackagesInv
<1>1. \A g \in Agents : agent[g] = Idle
  BY DEF Init
<1>2. \A f \in Folders, t \in Tasks : at[f][t] = None
  BY DEF Init
<1>3. TypeOK
  <2>1. at \in [Folders -> [Tasks -> Deliveries \union {None}]]
    BY DEF Init
  <2>2. agent \in [Agents -> JobType]
    BY IdleType DEF Init
  <2> QED
    BY <2>1, <2>2 DEF Init, TypeOK, PackagesOK, JobType, Phases
<1>4. JobsOK /\ SameGot
  BY <1>1, IdleType, Resting DEF JobsOK, SameGot
<1>5. PlacesOK
  BY <1>2 DEF Init, PlacesOK, PackagesOK, Tasks
<1>6. KeptOK /\ FiledByOutcome
  BY <1>2 DEF Init, KeptOK, FiledByOutcome, DeliveredOnce, Folders
<1> QED
  BY <1>3, <1>4, <1>5, <1>6 DEF PackagesInv

LEMMA PackagesStep ==
  ASSUME PackagesOK, PackagesInv, [Next]_vars
  PROVE  PackagesInv'
<1>1. CASE UNCHANGED vars
  BY <1>1 DEF vars, PackagesInv, TypeOK, JobsOK, JobOK, Holds, FirstOK, ReadOK, KeepOK,
              Filed, SameGot, PlacesOK, KeptOK, FiledByOutcome, DeliveredOnce
<1>2. CASE \E d \in Deliveries : Deliver(d)
  BY <1>2, DeliverStep
<1>3. ASSUME NEW g \in Agents,
             \/ Start(g, "results") \/ Start(g, "processing")
             \/ Open(g) \/ Exit(g) \/ Lock(g) \/ Claim(g)
             \/ Read(g) \/ Look(g) \/ Make(g) \/ Place(g)
             \/ Finish(g, "archive") \/ Finish(g, "failed")
             \/ Die(g)
      PROVE  PackagesInv'
  BY <1>3, StartStep, OpenStep, ExitStep, LockStep, ClaimStep, ReadStep, LookStep, MakeStep,
     PlaceStep, FinishStep, DieStep
<1> QED
  BY <1>1, <1>2, <1>3 DEF Next

(* The invariant the results rest on. *)
THEOREM PackagesAlways ==
  ASSUME PackagesOK
  PROVE  Spec => []PackagesInv
<1>1. Init => PackagesInv
  BY PackagesInit
<1>2. PackagesInv /\ [Next]_vars => PackagesInv'
  BY PackagesStep
<1> QED
  BY <1>1, <1>2, PTL DEF Spec

(* Every reachable state has the declared shape. *)
THEOREM PackagesTypeCorrect ==
  ASSUME PackagesOK
  PROVE  Spec => []TypeOK
<1>1. PackagesInv => TypeOK
  BY DEF PackagesInv
<1> QED
  BY <1>1, PackagesAlways, PTL

(* _acquire_package_lock and RENAME_NOREPLACE keep a second process from a *)
(* package that was delivered once, be it claimed or recovered.            *)
THEOREM PackagesOneHandler ==
  ASSUME PackagesOK
  PROVE  Spec => []OneHandler
<1>1. ASSUME PackagesInv, NEW t \in DeliveredOnce PROVE Cardinality(Handlers(t)) <= 1
  <2>1. ASSUME NEW g \in Handlers(t)
        PROVE  /\ g \in Agents /\ agent[g].dir \in Deliveries /\ agent[g].dir.task = t
               /\ lock[agent[g].dir] = g
    <3>1. PICK u : u = agent[g]
      OBVIOUS
    <3>2. g \in Agents /\ u.task = t /\ u.phase \in Handling
      BY <3>1 DEF Handlers
    <3>3. JobOK(g, u) /\ u.dir \in Deliveries /\ u.dir.task = u.task
      BY <1>1, <3>1, <3>2, OpenJob DEF Opened
    <3> QED
      BY <3>1, <3>2, <3>3 DEF JobOK, Holds
  <2>2. \A g, h \in Handlers(t) : g = h
    BY <2>1, SameDelivery
  <2>3. CASE Handlers(t) = {}
    BY <2>3, FS_EmptySet
  <2>4. CASE Handlers(t) # {}
    <3>1. PICK g : g \in Handlers(t)
      BY <2>4
    <3>2. Handlers(t) = {g}
      BY <2>2, <3>1
    <3>3. Cardinality({g}) = 1
      BY FS_Singleton
    <3> QED
      BY <3>2, <3>3
  <2> QED
    BY <2>3, <2>4
<1>2. PackagesInv => OneHandler
  BY <1>1 DEF OneHandler
<1> QED
  BY <1>2, PackagesAlways, PTL

(* Whatever dies and recovers in between, archive/ holds packages whose    *)
(* artifact is kept and failed/ packages that left none.                   *)
THEOREM PackagesFiledByOutcome ==
  ASSUME PackagesOK
  PROVE  Spec => []FiledByOutcome
<1>1. PackagesInv => FiledByOutcome
  BY DEF PackagesInv
<1> QED
  BY <1>1, PackagesAlways, PTL

(* ingest_research_artifact keeps one content of a task, though two        *)
(* processes may be at work on two deliveries of it.                       *)
THEOREM PackagesOneArtifact ==
  ASSUME PackagesOK
  PROVE  Spec => []OneArtifact
<1>1. ASSUME PackagesInv, NEW t \in Tasks PROVE Cardinality(kept[t]) <= 1
  <2>1. \A b, c \in kept[t] : b = c
    BY <1>1 DEF PackagesInv, KeptOK
  <2>2. CASE kept[t] = {}
    BY <2>2, FS_EmptySet
  <2>3. CASE kept[t] # {}
    <3>1. PICK c : c \in kept[t]
      BY <2>3
    <3>2. kept[t] = {c}
      BY <2>1, <3>1
    <3>3. Cardinality({c}) = 1
      BY FS_Singleton
    <3> QED
      BY <3>2, <3>3
  <2> QED
    BY <2>2, <2>3
<1>2. PackagesInv => OneArtifact
  BY <1>1 DEF OneArtifact
<1> QED
  BY <1>2, PackagesAlways, PTL
=============================================================================
