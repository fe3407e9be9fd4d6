------------------------- MODULE GovernedReports_proofs -------------------------
(***************************************************************************)
(* Proofs about GovernedReports, for any number of importers, sources and  *)
(* reports.                                                                *)
(*                                                                         *)
(* An archived run never changes, so the key an import reads is the key of *)
(* its run for good.  Only the holder of the lock compares and replaces,   *)
(* so what it has compared with is still there when it replaces it.        *)
(***************************************************************************)
EXTENDS GovernedReports, TLAPS, NaturalsInduction, WellFoundedInduction

JobType == [phase : Phases, dir : Sources \union {None},
            record : Drafts \union {None}, key : Places \union {None}]

Early   == {"stamp", "copy"}
Holding == {"compare", "replace"}
Done    == {"key", "lock", "compare", "replace"}

(* What importer i relies on, given its state w. *)
ImporterOK(i, w) ==
  /\ w.phase # "idle" =>
       /\ w.dir \in Sources /\ source[w.dir] # None
       /\ w.record \in Drafts /\ w.record.validated \in Archivables
  /\ w.phase = "copy" => w.record.at \in Times
  /\ w.phase \notin {"idle"} \union Early => w.record \in Records
  /\ w.phase \in Done =>
       Accepted(w.record) /\ runs[Identity(w.record.validated)] = w.record
  /\ w.phase \in {"lock"} \union Holding => w.key = Key(w.record)
  /\ w.phase \in Holding <=> lock = i
  /\ w.phase = "replace" /\ latest # None => Greater(w.key, latest.key)

ImportersOK == \A i \in Importers : ImporterOK(i, importer[i])

PointerOK == latest # None => latest.key = Key(latest.record)

ReportsInv == TypeOK /\ ImportersOK /\ PointerOK /\ ReportedIsServed

(* What a step leaves to every other importer. *)
Kept ==
  /\ \A s \in Sources : source[s] # None => source'[s] # None
  /\ \A t \in Identities : runs[t] # None => runs'[t] = runs[t]

-----------------------------------------------------------------------------
(* The order of the pointer *)

LEMMA LaterIsGreater ==
  ASSUME NEW k \in Places, NEW l \in Places
  PROVE  Promise!Later(k, l) <=> Greater(k, l)
<1>1. k \in Int \X Int \X Int /\ l \in Int \X Int \X Int
  BY DEF Places
<1>2. DOMAIN k = 1 .. 3
  BY <1>1
<1>3. Promise!Later(k, l) <=>
        \E n \in {1, 2, 3} : k[n] > l[n] /\ \A m \in 1 .. n - 1 : k[m] = l[m]
  BY <1>2 DEF Promise!Later
<1>4. (\A m \in 1 .. 1 - 1 : k[m] = l[m]) <=> TRUE
  OBVIOUS
<1>5. (\A m \in 1 .. 2 - 1 : k[m] = l[m]) <=> k[1] = l[1]
  OBVIOUS
<1>6. (\A m \in 1 .. 3 - 1 : k[m] = l[m]) <=> k[1] = l[1] /\ k[2] = l[2]
  OBVIOUS
<1> QED
  BY <1>3, <1>4, <1>5, <1>6 DEF Greater

LEMMA GreaterTransitive ==
  ASSUME NEW k \in Places, NEW l \in Places, NEW m \in Places, Greater(k, l), Greater(l, m)
  PROVE  Greater(k, m)
BY DEF Greater, Places

LEMMA GreaterTotal ==
  ASSUME NEW k \in Places, NEW l \in Places
  PROVE  Greater(k, l) \/ k = l \/ Greater(l, k)
BY DEF Greater, Places

LEMMA KeyType ==
  ASSUME ReportsOK, NEW x \in Records, x.validated \in Archivables
  PROVE  Key(x) \in Places
<1>1. /\ Contents[x.validated].result.date \in Nat
      /\ Contents[x.validated].result.run \in Nat
  BY DEF Archivables, Archivable, ReportsOK, Readable
<1>2. Contents[x.copied].finished \in Nat \union {None} /\ x.at \in Nat
  BY DEF Records, ReportsOK, Readable, Times
<1> QED
  BY <1>1, <1>2 DEF Key, Places

-----------------------------------------------------------------------------
(* One importer at a time *)

LEMMA ImporterKept ==
  ASSUME ReportsOK, ReportsInv, Kept, NEW j \in Importers, NEW w, ImporterOK(j, w),
         lock' = j <=> lock = j, lock = j => latest' = latest
  PROVE  ImporterOK(j, w)'
<1>1. w.phase # "idle" => source'[w.dir] # None
  BY DEF ImporterOK, Kept
<1>2. w.phase \in Done => runs'[Identity(w.record.validated)] = w.record
  <2> SUFFICES ASSUME w.phase \in Done
               PROVE  runs'[Identity(w.record.validated)] = w.record
    OBVIOUS
  <2>1. w.record.validated \in Archivables /\ w.record \in Records
        /\ runs[Identity(w.record.validated)] = w.record
    BY DEF ImporterOK, Done, Early
  <2>2. Identity(w.record.validated) \in Identities
    BY <2>1 DEF Identities
  <2>3. w.record # None
    BY <2>1 DEF ReportsOK
  <2> QED
    BY <2>1, <2>2, <2>3 DEF Kept
<1> QED
  BY <1>1, <1>2 DEF ImporterOK, Holding

LEMMA JobStep ==
  ASSUME ReportsOK, ReportsInv, Kept, NEW i \in Importers, NEW w \in JobType, Become(i, w),
         ImporterOK(i, w)',
         \A j \in Importers : j # i => /\ lock' = j <=> lock = j
                                       /\ lock = j => latest' = latest
  PROVE  ImportersOK' /\ importer' \in [Importers -> JobType]
<1>1. importer \in [Importers -> JobType] /\ importer' = [importer EXCEPT ![i] = w]
  BY DEF ReportsInv, TypeOK, JobType, Become
<1>2. ASSUME NEW j \in Importers PROVE ImporterOK(j, importer[j])'
  <2>1. CASE j = i
    <3>1. importer'[j] = w
      BY <1>1, <2>1
    <3> QED
      BY <2>1, <3>1
  <2>2. CASE j # i
    <3>1. importer'[j] = importer[j] /\ ImporterOK(j, importer[j])
      BY <1>1, <2>2 DEF ReportsInv, ImportersOK
    <3>2. ASSUME NEW u, u = importer[j] PROVE ImporterOK(j, u)'
      BY <2>2, <3>1, <3>2, ImporterKept
    <3> QED
      BY <3>1, <3>2
  <2> QED
    BY <2>1, <2>2
<1> QED
  BY <1>1, <1>2 DEF ImportersOK

(* A step that changes nothing but its importer. *)
LEMMA QuietJob ==
  ASSUME ReportsOK, ReportsInv, NEW i \in Importers, NEW w \in JobType, Become(i, w),
         ImporterOK(i, w),
         UNCHANGED <<supply, writes, source, runs, latest, lock, reported, stops>>
  PROVE  ReportsInv'
<1>1. Kept /\ ImporterOK(i, w)'
  BY DEF Kept, ImporterOK
<1>2. ImportersOK' /\ importer' \in [Importers -> JobType]
  BY <1>1, JobStep
<1>3. TypeOK'
  BY <1>2 DEF ReportsInv, TypeOK, JobType
<1> QED
  BY <1>2, <1>3 DEF ReportsInv, PointerOK, ReportedIsServed

(* An importer that has nothing to do relies on nothing. *)
LEMMA IdleJob ==
  ASSUME NEW w, w = Idle
  PROVE  w \in JobType /\ w.phase = "idle"
BY DEF Idle, JobType, Phases

LEMMA IdleIsOK ==
  ASSUME NEW i, NEW w, w = Idle, lock # i
  PROVE  ImporterOK(i, w)
BY IdleJob DEF ImporterOK, Early, Done, Holding

LEMMA EndStep ==
  ASSUME ReportsOK, ReportsInv, NEW i \in Importers, Become(i, Idle), lock # i,
         UNCHANGED <<supply, writes, source, runs, latest, lock, reported, stops>>
  PROVE  ReportsInv'
<1>1. PICK w : w = Idle
  OBVIOUS
<1>2. w \in JobType /\ ImporterOK(i, w) /\ Become(i, w)
  BY <1>1, IdleJob, IdleIsOK DEF Become
<1> QED
  BY <1>2, QuietJob

(* The state of an importer at work. *)
LEMMA AtWork ==
  ASSUME ReportsInv, NEW i \in Importers, NEW u, u = importer[i], u.phase # "idle"
  PROVE  /\ ImporterOK(i, u) /\ u \in JobType
         /\ u.dir \in Sources /\ u.record \in Drafts
         /\ u.record.validated \in Archivables
         /\ Identity(u.record.validated) \in Identities
         /\ Target(i) = Identity(u.record.validated)
         /\ source[u.dir] \in [report : Reports, mtime : Times]
         /\ u.phase \notin Holding => lock # i
BY DEF ReportsInv, ImportersOK, ImporterOK, TypeOK, JobType, Identities, Target

LEMMA PhaseMoved ==
  ASSUME NEW u \in JobType, NEW p \in Phases, NEW w, w = [u EXCEPT !.phase = p]
  PROVE  w \in JobType /\ w.phase = p /\ w.dir = u.dir /\ w.record = u.record /\ w.key = u.key
BY DEF JobType

-----------------------------------------------------------------------------
(* The archive *)

LEMMA ProduceStep ==
  ASSUME ReportsOK, ReportsInv, NEW s \in Sources, NEW r \in supply, Produce(s, r)
  PROVE  ReportsInv'
<1>1. PICK n : n = [report |-> r, mtime |-> writes + 1]
  OBVIOUS
<1>2. writes' \in Times /\ n \in [report : Reports, mtime : Times]
  BY <1>1 DEF Produce, ReportsInv, TypeOK, Times, ReportsOK
<1>3. n # None
  BY <1>2 DEF ReportsOK
<1>4. source' = [source EXCEPT ![s] = n]
  BY <1>1 DEF Produce
<1>5. source' \in [Sources -> [report : Reports, mtime : Times] \union {None}]
  BY <1>2, <1>4 DEF ReportsInv, TypeOK
<1>6. UNCHANGED <<supply, runs, latest, lock, reported, stops, importer>>
  BY DEF Produce
<1>7. Kept
  BY <1>3, <1>4, <1>6 DEF Kept, ReportsInv, TypeOK
<1>8. ASSUME NEW j \in Importers PROVE ImporterOK(j, importer[j])'
  <2>1. ASSUME NEW u, u = importer[j] PROVE ImporterOK(j, u)'
    BY <1>6, <1>7, <2>1, ImporterKept DEF ReportsInv, ImportersOK
  <2> QED
    BY <1>6, <2>1
<1>9. TypeOK'
  BY <1>2, <1>5, <1>6 DEF ReportsInv, TypeOK
<1> QED
  BY <1>6, <1>8, <1>9 DEF ReportsInv, ImportersOK, PointerOK, ReportedIsServed

LEMMA ValidateStep ==
  ASSUME ReportsOK, ReportsInv, NEW i \in Importers, NEW s \in Sources, Validate(i, s)
  PROVE  ReportsInv'
<1>1. PICK x : x = Record(source[s].report, None, None)
  OBVIOUS
<1>2. PICK w : w = [Idle EXCEPT !.phase = "stamp", !.dir = s, !.record = x]
  OBVIOUS
<1>3. source[s] # None /\ source[s].report \in Archivables
  BY DEF Validate, Archivables, ReportsInv, TypeOK
<1>4. x \in Drafts /\ x.validated \in Archivables
  BY <1>1, <1>3 DEF Record, Drafts, Archivables
<1>5. w.phase = "stamp" /\ w.dir = s /\ w.record = x /\ w \in JobType
  BY <1>2, <1>4 DEF Idle, JobType, Phases
<1>6. lock # i
  BY DEF Validate, Within, ReportsInv, ImportersOK, ImporterOK, Holding
<1>7. ImporterOK(i, w)
  BY <1>3, <1>4, <1>5, <1>6 DEF ImporterOK, Early, Done, Holding
<1>8. Become(i, w)
  BY <1>1, <1>2 DEF Validate
<1> QED
  BY <1>5, <1>7, <1>8, QuietJob DEF Validate

LEMMA StampStep ==
  ASSUME ReportsOK, ReportsInv, NEW i \in Importers, Stamp(i)
  PROVE  ReportsInv'
<1>1. PICK u : u = importer[i]
  OBVIOUS
<1>2. PICK t : t = source[u.dir].mtime
  OBVIOUS
<1>3. PICK w : w = [u EXCEPT !.phase = "copy", !.record.at = t]
  OBVIOUS
<1>4. u.phase = "stamp"
  BY <1>1 DEF Stamp, Within
<1>5. /\ u \in JobType /\ u.dir \in Sources /\ u.record \in Drafts
      /\ u.record.validated \in Archivables /\ source[u.dir] # None /\ lock # i
      /\ t \in Times
  BY <1>1, <1>2, <1>4, AtWork DEF ImporterOK, Holding
<1>6. /\ w.phase = "copy" /\ w.dir = u.dir
      /\ w.record = [u.record EXCEPT !.at = t] /\ w.key = u.key
  BY <1>3, <1>5 DEF JobType
<1>7. w.record \in Drafts /\ w.record.validated = u.record.validated /\ w.record.at = t
  BY <1>5, <1>6 DEF Drafts
<1>8. w \in JobType
  <2>1. w = [phase |-> "copy", dir |-> u.dir, record |-> w.record, key |-> u.key]
    BY <1>3, <1>5, <1>6 DEF JobType
  <2> QED
    BY <1>5, <1>7, <2>1 DEF JobType, Phases
<1>9. ImporterOK(i, w)
  BY <1>5, <1>6, <1>7 DEF ImporterOK, Early, Done, Holding
<1>10. Become(i, w)
  BY <1>1, <1>2, <1>3 DEF Stamp
<1> QED
  BY <1>8, <1>9, <1>10, QuietJob DEF Stamp

LEMMA CopyStep ==
  ASSUME ReportsOK, ReportsInv, NEW i \in Importers, Copy(i)
  PROVE  ReportsInv'
<1>1. PICK u : u = importer[i]
  OBVIOUS
<1>2. PICK r : r = source[u.dir].report
  OBVIOUS
<1>3. PICK w : w = [u EXCEPT !.phase = "look", !.record.copied = r]
  OBVIOUS
<1>4. u.phase = "copy"
  BY <1>1 DEF Copy, Within
<1>5. /\ u \in JobType /\ u.dir \in Sources /\ u.record \in Drafts
      /\ u.record.validated \in Archivables /\ source[u.dir] # None /\ lock # i
      /\ u.record.at \in Times /\ r \in Reports
  BY <1>1, <1>2, <1>4, AtWork DEF ImporterOK, Holding
<1>6. /\ w.phase = "look" /\ w.dir = u.dir
      /\ w.record = [u.record EXCEPT !.copied = r] /\ w.key = u.key
  BY <1>3, <1>5 DEF JobType
<1>7. /\ w.record \in Drafts /\ w.record \in Records
      /\ w.record.validated = u.record.validated
  BY <1>5, <1>6 DEF Drafts, Records
<1>8. w \in JobType
  <2>1. w = [phase |-> "look", dir |-> u.dir, record |-> w.record, key |-> u.key]
    BY <1>3, <1>5, <1>6 DEF JobType
  <2> QED
    BY <1>5, <1>7, <2>1 DEF JobType, Phases
<1>9. ImporterOK(i, w)
  BY <1>5, <1>6, <1>7 DEF ImporterOK, Early, Done, Holding
<1>10. Become(i, w)
  BY <1>1, <1>2, <1>3 DEF Copy
<1> QED
  BY <1>8, <1>9, <1>10, QuietJob DEF Copy

(* The archive has the importer's record already. *)
LEMMA FoundStep ==
  ASSUME ReportsOK, ReportsInv, NEW i \in Importers, importer[i].phase \in {"look", "rename"},
         runs[Target(i)] = importer[i].record, Found(i),
         UNCHANGED <<supply, writes, source, runs, latest, lock, stops>>
  PROVE  ReportsInv'
<1>1. PICK u : u = importer[i]
  OBVIOUS
<1>2. u.phase \in {"look", "rename"}
  BY <1>1
<1>3. /\ ImporterOK(i, u) /\ u \in JobType /\ u.record \in Records /\ lock # i
      /\ runs[Identity(u.record.validated)] = u.record
  BY <1>1, <1>2, AtWork DEF ImporterOK, Early, Holding
<1>4. CASE Accepted(u.record)
  <2>1. PICK w : w = [u EXCEPT !.phase = "key"]
    OBVIOUS
  <2>2. /\ w \in JobType /\ w.phase = "key"
        /\ w.dir = u.dir /\ w.record = u.record /\ w.key = u.key
    BY <1>3, <2>1, PhaseMoved DEF Phases
  <2>3. ImporterOK(i, w)
    BY <1>2, <1>3, <1>4, <2>2 DEF ImporterOK, Early, Done, Holding
  <2>4. Become(i, w)
    BY <1>1, <1>4, <2>1 DEF Found, Goto
  <2> QED
    BY <2>2, <2>3, <2>4, QuietJob DEF Found
<1>5. CASE ~Accepted(u.record)
  BY <1>1, <1>3, <1>5, EndStep DEF Found
<1> QED
  BY <1>4, <1>5

LEMMA LookStep ==
  ASSUME ReportsOK, ReportsInv, NEW i \in Importers, Look(i)
  PROVE  ReportsInv'
<1>1. PICK u : u = importer[i]
  OBVIOUS
<1>2. u.phase = "look"
  BY <1>1 DEF Look, Within
<1>3. UNCHANGED <<supply, writes, source, runs, latest, lock, stops>>
  BY DEF Look
<1>4. ImporterOK(i, u) /\ u \in JobType /\ u.record \in Records /\ lock # i
  BY <1>1, <1>2, AtWork DEF ImporterOK, Early, Holding
<1>5. CASE Goto(i, "rename") /\ UNCHANGED reported
  <2>1. PICK w : w = [u EXCEPT !.phase = "rename"]
    OBVIOUS
  <2>2. /\ w \in JobType /\ w.phase = "rename"
        /\ w.dir = u.dir /\ w.record = u.record /\ w.key = u.key
    BY <1>4, <2>1, PhaseMoved DEF Phases
  <2>3. ImporterOK(i, w)
    BY <1>2, <1>4, <2>2 DEF ImporterOK, Early, Done, Holding
  <2>4. Become(i, w)
    BY <1>1, <1>5, <2>1 DEF Goto
  <2> QED
    BY <1>3, <1>5, <2>2, <2>3, <2>4, QuietJob
<1>6. CASE runs[Target(i)] = importer[i].record /\ Found(i)
  BY <1>1, <1>2, <1>3, <1>6, FoundStep
<1>7. CASE Conflict(i)
  BY <1>3, <1>4, <1>7, EndStep DEF Conflict
<1> QED
  BY <1>5, <1>6, <1>7 DEF Look

(* The rename that archives a run. *)
Renames(i, t, x) ==
  /\ runs[t] = None
  /\ runs' = [runs EXCEPT ![t] = x]
  /\ IF Accepted(x) THEN Goto(i, "key") ELSE Become(i, Idle)
  /\ UNCHANGED <<supply, writes, source, latest, lock, stops, reported>>

LEMMA RenamesStep ==
  ASSUME ReportsOK, ReportsInv, NEW i \in Importers, NEW u, u = importer[i], u.phase = "rename",
         NEW t, t = Identity(u.record.validated), Renames(i, t, u.record)
  PROVE  ReportsInv'
<1>1. /\ ImporterOK(i, u) /\ u \in JobType /\ u.record \in Records /\ lock # i
      /\ u.record.validated \in Archivables /\ t \in Identities
  BY AtWork DEF ImporterOK, Early, Holding
<1>2. runs' = [runs EXCEPT ![t] = u.record] /\ runs[t] = None
  BY DEF Renames
<1>3. runs' \in [Identities -> Records \union {None}]
  BY <1>1, <1>2 DEF ReportsInv, TypeOK
<1>4. \A j \in Identities : runs'[j] # None => Identity(runs'[j].validated) = j
  BY <1>1, <1>2 DEF ReportsInv, TypeOK
<1>5. Kept
  BY <1>1, <1>2 DEF Kept, Renames, ReportsInv, TypeOK
<1>6. runs'[t] = u.record
  BY <1>1, <1>2 DEF ReportsInv, TypeOK
<1>7. PICK w : w = IF Accepted(u.record) THEN [u EXCEPT !.phase = "key"] ELSE Idle
  OBVIOUS
<1>8. w \in JobType /\ ImporterOK(i, w)'
  <2>1. CASE Accepted(u.record)
    <3>1. /\ w \in JobType /\ w.phase = "key"
          /\ w.dir = u.dir /\ w.record = u.record /\ w.key = u.key
      BY <1>1, <1>7, <2>1, PhaseMoved DEF Phases
    <3>2. Accepted(w.record)'
      BY <2>1, <3>1 DEF Accepted, AcceptedReports
    <3> QED
      BY <1>1, <1>6, <3>1, <3>2 DEF ImporterOK, Early, Done, Holding, Renames
  <2>2. CASE ~Accepted(u.record)
    BY <1>1, <1>7, <2>2, IdleJob DEF ImporterOK, Early, Done, Holding, Renames
  <2> QED
    BY <2>1, <2>2
<1>9. Become(i, w)
  BY <1>7 DEF Renames, Goto
<1>10. ImportersOK' /\ importer' \in [Importers -> JobType]
  BY <1>5, <1>8, <1>9, JobStep DEF Renames
<1>11. TypeOK'
  BY <1>3, <1>4, <1>10 DEF ReportsInv, TypeOK, JobType, Renames
<1> QED
  BY <1>10, <1>11 DEF ReportsInv, PointerOK, ReportedIsServed, Renames

LEMMA RenameStep ==
  ASSUME ReportsOK, ReportsInv, NEW i \in Importers, Rename(i)
  PROVE  ReportsInv'
<1>1. PICK u : u = importer[i]
  OBVIOUS
<1>2. PICK t : t = Identity(u.record.validated)
  OBVIOUS
<1>3. u.phase = "rename" /\ t = Target(i) /\ lock # i
  BY <1>1, <1>2, AtWork DEF Rename, Within, Target, Holding
<1>4. CASE Renames(i, t, u.record)
  BY <1>1, <1>2, <1>3, <1>4, RenamesStep
<1>5. CASE runs[Target(i)] = importer[i].record /\ Found(i) /\ UNCHANGED runs
  BY <1>1, <1>3, <1>5, FoundStep DEF Rename
<1>6. CASE Conflict(i) /\ UNCHANGED runs
  BY <1>3, <1>6, EndStep DEF Conflict, Rename
<1> QED
  BY <1>1, <1>3, <1>4, <1>5, <1>6 DEF Rename, Renames

-----------------------------------------------------------------------------
(* The pointer *)

(* An importer whose run is archived. *)
LEMMA DoneJob ==
  ASSUME ReportsOK, ReportsInv, NEW i \in Importers, NEW u, u = importer[i], u.phase \in Done
  PROVE  /\ ImporterOK(i, u) /\ u \in JobType /\ u.record \in Records
         /\ u.record.validated \in Archivables /\ Accepted(u.record)
         /\ Target(i) = Identity(u.record.validated) /\ Target(i) \in Identities
         /\ runs[Target(i)] = u.record
         /\ Key(u.record) \in Places
BY AtWork, KeyType DEF ImporterOK, Early, Done

LEMMA ReadKeyStep ==
  ASSUME ReportsOK, ReportsInv, NEW i \in Importers, ReadKey(i)
  PROVE  ReportsInv'
<1>1. PICK u : u = importer[i]
  OBVIOUS
<1>2. PICK w : w = [u EXCEPT !.phase = "lock", !.key = Key(u.record)]
  OBVIOUS
<1>3. u.phase = "key"
  BY <1>1 DEF ReadKey, Within
<1>4. /\ ImporterOK(i, u) /\ u \in JobType /\ runs[Target(i)] = u.record
      /\ Key(u.record) \in Places /\ lock # i
  BY <1>1, <1>3, DoneJob, AtWork DEF Done, Holding
<1>5. /\ w \in JobType /\ w.phase = "lock" /\ w.dir = u.dir
      /\ w.record = u.record /\ w.key = Key(u.record)
  BY <1>2, <1>4 DEF JobType, Phases
<1>6. ImporterOK(i, w)
  BY <1>3, <1>4, <1>5 DEF ImporterOK, Early, Done, Holding
<1>7. Become(i, w)
  BY <1>1, <1>2, <1>4 DEF ReadKey
<1> QED
  BY <1>5, <1>6, <1>7, QuietJob DEF ReadKey

LEMMA LockStep ==
  ASSUME ReportsOK, ReportsInv, NEW i \in Importers, Lock(i)
  PROVE  ReportsInv'
<1>1. PICK u : u = importer[i]
  OBVIOUS
<1>2. PICK w : w = [u EXCEPT !.phase = "compare"]
  OBVIOUS
<1>3. u.phase = "lock" /\ lock = None /\ lock' = i /\ i # None
  BY <1>1 DEF Lock, Within, ReportsOK
<1>4. ImporterOK(i, u) /\ u \in JobType
  BY <1>1, <1>3, DoneJob DEF Done
<1>5. /\ w \in JobType /\ w.phase = "compare"
      /\ w.dir = u.dir /\ w.record = u.record /\ w.key = u.key
  BY <1>2, <1>4, PhaseMoved DEF Phases
<1>6. Become(i, w)
  BY <1>1, <1>2 DEF Lock, Goto
<1>7. UNCHANGED <<supply, writes, source, runs, latest, reported, stops>>
  BY DEF Lock
<1>8. ImporterOK(i, w)'
  BY <1>3, <1>4, <1>5, <1>7 DEF ImporterOK, Early, Done, Holding, Accepted
<1>9. \A j \in Importers : j # i => lock # j /\ lock' # j
  BY <1>3 DEF ReportsOK
<1>10. ImportersOK' /\ importer' \in [Importers -> JobType]
  BY <1>5, <1>6, <1>7, <1>8, <1>9, JobStep DEF Kept
<1>11. TypeOK'
  BY <1>3, <1>7, <1>10 DEF ReportsInv, TypeOK, JobType
<1> QED
  BY <1>7, <1>10, <1>11 DEF ReportsInv, PointerOK, ReportedIsServed

(* The holder of the lock gives it back and reports success, with a        *)
(* pointer that serves its key.                                            *)
LEMMA FinishStep ==
  ASSUME ReportsOK, ReportsInv, NEW i \in Importers, NEW k \in Places,
         lock = i, Become(i, Idle), lock' = None, reported' = reported \union {k},
         UNCHANGED <<supply, writes, source, runs, stops>>,
         latest' \in Pointers \union {None}, PointerOK', ReportedIsServed'
  PROVE  ReportsInv'
<1>1. PICK w : w = Idle
  OBVIOUS
<1>2. w \in JobType /\ w.phase = "idle" /\ Become(i, w)
  BY <1>1, IdleJob DEF Become
<1>3. i # None /\ \A j \in Importers : j # None
  BY DEF ReportsOK
<1>4. ImporterOK(i, w)'
  BY <1>2, <1>3 DEF ImporterOK, Early, Done, Holding
<1>5. Kept
  BY DEF Kept
<1>6. ImportersOK' /\ importer' \in [Importers -> JobType]
  BY <1>2, <1>3, <1>4, <1>5, JobStep
<1>7. TypeOK'
  BY <1>6 DEF ReportsInv, TypeOK, JobType
<1> QED
  BY <1>6, <1>7 DEF ReportsInv

LEMMA CompareStep ==
  ASSUME ReportsOK, ReportsInv, NEW i \in Importers, Compare(i)
  PROVE  ReportsInv'
<1>1. PICK u : u = importer[i]
  OBVIOUS
<1>2. u.phase = "compare"
  BY <1>1 DEF Compare, Within
<1>3. /\ ImporterOK(i, u) /\ u \in JobType /\ lock = i
      /\ u.key = Key(u.record) /\ u.key \in Places
  BY <1>1, <1>2, DoneJob DEF Done, Holding, ImporterOK
<1>4. UNCHANGED <<supply, writes, source, runs, latest, stops>>
  BY DEF Compare
<1>5. CASE /\ latest # None => Greater(u.key, latest.key)
           /\ Goto(i, "replace") /\ UNCHANGED <<lock, reported>>
  <2>1. PICK w : w = [u EXCEPT !.phase = "replace"]
    OBVIOUS
  <2>2. /\ w \in JobType /\ w.phase = "replace"
        /\ w.dir = u.dir /\ w.record = u.record /\ w.key = u.key
    BY <1>3, <2>1, PhaseMoved DEF Phases
  <2>3. ImporterOK(i, w)
    BY <1>2, <1>3, <1>5, <2>2 DEF ImporterOK, Early, Done, Holding
  <2>4. Become(i, w)
    BY <1>1, <1>5, <2>1 DEF Goto
  <2> QED
    BY <1>4, <1>5, <2>2, <2>3, <2>4, QuietJob
<1>6. CASE latest # None /\ ~Greater(u.key, latest.key) /\ Finish(i)
  <2>1. latest \in Pointers /\ latest.key \in Places
    BY <1>6 DEF ReportsInv, TypeOK, Pointers
  <2>2. u.key = latest.key \/ Promise!Later(latest.key, u.key)
    BY <1>3, <1>6, <2>1, GreaterTotal, LaterIsGreater
  <2>3. reported' = reported \union {u.key} /\ lock' = None /\ Become(i, Idle)
    BY <1>1, <1>6 DEF Finish
  <2>4. ReportedIsServed'
    BY <1>4, <1>6, <2>2, <2>3 DEF ReportedIsServed, ReportsInv
  <2>5. PointerOK' /\ latest' \in Pointers \union {None}
    BY <1>4, <2>1 DEF PointerOK, ReportsInv, Key
  <2> QED
    BY <1>3, <1>4, <2>3, <2>4, <2>5, FinishStep
<1> QED
  BY <1>1, <1>5, <1>6 DEF Compare

LEMMA ReplaceStep ==
  ASSUME ReportsOK, ReportsInv, NEW i \in Importers, Replace(i)
  PROVE  ReportsInv'
<1>1. PICK u : u = importer[i]
  OBVIOUS
<1>2. u.phase = "replace"
  BY <1>1 DEF Replace, Within
<1>3. /\ ImporterOK(i, u) /\ u.record \in Records /\ lock = i
      /\ u.key = Key(u.record) /\ u.key \in Places /\ runs[Target(i)] = u.record
      /\ latest # None => Greater(u.key, latest.key)
  BY <1>1, <1>2, DoneJob DEF Done, Holding, ImporterOK
<1>4. PICK n : n = [key |-> u.key, record |-> u.record]
  OBVIOUS
<1>5. n \in Pointers /\ n # None /\ n.key = u.key /\ n.record = u.record
  BY <1>3, <1>4 DEF Pointers, ReportsOK
<1>6. /\ latest' = n
      /\ reported' = reported \union {u.key} /\ lock' = None /\ Become(i, Idle)
      /\ UNCHANGED <<supply, writes, source, runs, stops>>
  BY <1>1, <1>3, <1>4 DEF Replace, Finish
<1>7. PointerOK'
  BY <1>3, <1>5, <1>6 DEF PointerOK, Key
<1>8. ReportedIsServed'
  <2>1. ASSUME NEW k \in reported PROVE Promise!Later(u.key, k)
    <3>1. latest # None /\ (k = latest.key \/ Promise!Later(latest.key, k))
      BY DEF ReportsInv, ReportedIsServed
    <3>2. k \in Places /\ latest.key \in Places
      BY <3>1 DEF ReportsInv, TypeOK, Pointers
    <3>3. Greater(u.key, latest.key)
      BY <1>3, <3>1
    <3>4. Greater(u.key, k)
      BY <1>3, <3>1, <3>2, <3>3, GreaterTransitive, LaterIsGreater
    <3> QED
      BY <1>3, <3>2, <3>4, LaterIsGreater
  <2> QED
    BY <1>5, <1>6, <2>1 DEF ReportedIsServed
<1> QED
  BY <1>3, <1>5, <1>6, <1>7, <1>8, FinishStep

LEMMA StopStep ==
  ASSUME ReportsOK, ReportsInv, NEW i \in Importers, Stop(i)
  PROVE  ReportsInv'
<1>1. PICK w : w = Idle
  OBVIOUS
<1>2. w \in JobType /\ w.phase = "idle" /\ Become(i, w)
  BY <1>1, IdleJob DEF Become, Stop
<1>3. lock' = IF lock = i THEN None ELSE lock
  BY DEF Stop
<1>4. UNCHANGED <<supply, writes, source, runs, latest, reported>>
  BY DEF Stop
<1>5. \A j \in Importers : j # None
  BY DEF ReportsOK
<1>6. ImporterOK(i, w)'
  BY <1>2, <1>3, <1>5 DEF ImporterOK, Early, Done, Holding
<1>7. \A j \in Importers : j # i => (lock' = j <=> lock = j)
  BY <1>3, <1>5
<1>8. ImportersOK' /\ importer' \in [Importers -> JobType]
  BY <1>2, <1>4, <1>6, <1>7, JobStep DEF Kept
<1>9. stops' \in 0 .. MaxStops
  BY DEF Stop, ReportsInv, TypeOK, ReportsOK
<1>10. TypeOK'
  BY <1>3, <1>4, <1>8, <1>9 DEF ReportsInv, TypeOK, JobType
<1> QED
  BY <1>4, <1>8, <1>10 DEF ReportsInv, PointerOK, ReportedIsServed, Key

-----------------------------------------------------------------------------
(* The theorems *)

LEMMA ReportsInit ==
  ASSUME ReportsOK, Init
  PROVE  ReportsInv
<1>1. Idle \in JobType /\ Idle.phase = "idle"
  BY IdleJob
<1>2. \A j \in Importers : j # None
  BY DEF ReportsOK
<1>3. TypeOK
  BY <1>1 DEF Init, TypeOK, ReportsOK, Times, JobType
<1>4. ImportersOK
  BY <1>1, <1>2 DEF Init, ImportersOK, ImporterOK, Early, Done, Holding
<1> QED
  BY <1>3, <1>4 DEF Init, ReportsInv, PointerOK, ReportedIsServed

LEMMA ReportsStep ==
  ASSUME ReportsOK, ReportsInv, [Next]_vars
  PROVE  ReportsInv'
<1>1. CASE UNCHANGED vars
  BY <1>1 DEF vars, ReportsInv, TypeOK, ImportersOK, ImporterOK, PointerOK, ReportedIsServed
<1> QED
  BY <1>1, ProduceStep, ValidateStep, StampStep, CopyStep, LookStep, RenameStep, ReadKeyStep,
     LockStep, CompareStep, ReplaceStep, StopStep DEF Next

(* The inductive invariant holds in every reachable state. *)
THEOREM ReportsAlways == Spec => []ReportsInv
<1>1. Init => ReportsInv
  BY ReportsOK, ReportsInit
<1>2. ReportsInv /\ [Next]_vars => ReportsInv'
  BY ReportsOK, ReportsStep
<1> QED
  BY <1>1, <1>2, PTL DEF Spec

(* Every archived run is stored under the identity of its own verdict, and *)
(* the pointer holds a whole record.                                       *)
THEOREM ReportsTypeCorrect == Spec => []TypeOK
BY ReportsAlways, PTL DEF ReportsInv

(* Whatever ended with exit code 0 is served by the pointer, or a later    *)
(* run is, although imports overlap and are killed.                        *)
THEOREM ReportsReportedIsServed == Spec => []ReportedIsServed
BY ReportsAlways, PTL DEF ReportsInv

-----------------------------------------------------------------------------
(* Refinement: Rename archives, Replace advances the pointer *)

LEMMA ArchiveRefines ==
  ASSUME ReportsOK, ReportsInv, NEW i \in Importers, NEW u, u = importer[i],
         u.phase = "rename", NEW t, t = Identity(u.record.validated), Renames(i, t, u.record)
  PROVE  Promise!Next
<1>1. t \in Identities /\ u.record \in Records /\ u.record # None
  BY AtWork DEF ImporterOK, Early, ReportsOK
<1>2. runs'[t] = u.record /\ runs[t] = None /\ runs' = [runs EXCEPT ![t] = u.record]
  BY <1>1 DEF Renames, ReportsInv, TypeOK
<1>3. runs' = [runs EXCEPT ![t] = runs'[t]] /\ runs'[t] # None /\ UNCHANGED latest
  BY <1>1, <1>2 DEF Renames
<1> QED
  BY <1>1, <1>2, <1>3 DEF Promise!Next, Promise!Archive

LEMMA ReplaceRefines ==
  ASSUME ReportsOK, ReportsInv, NEW i \in Importers, Replace(i)
  PROVE  Promise!Next
<1>1. PICK u : u = importer[i]
  OBVIOUS
<1>2. PICK t : t = Target(i)
  OBVIOUS
<1>3. u.phase = "replace"
  BY <1>1 DEF Replace, Within
<1>4. /\ u.record \in Records /\ u.key = Key(u.record) /\ u.key \in Places
      /\ runs[t] = u.record /\ t \in Identities /\ Accepted(u.record)
      /\ latest # None => Greater(u.key, latest.key)
  BY <1>1, <1>2, <1>3, DoneJob DEF Done, Holding, ImporterOK
<1>5. latest' = [key |-> u.key, record |-> u.record] /\ UNCHANGED runs
  BY <1>1, <1>2, <1>4 DEF Replace
<1>6. latest' # None /\ latest'.record = u.record
  BY <1>4, <1>5 DEF Pointers, ReportsOK
<1>7. u.record # None
  BY <1>4 DEF ReportsOK
<1>8. latest # None =>
        /\ latest.record # None
        /\ Promise!Later(Key(u.record), Key(latest.record))
  <2> SUFFICES ASSUME latest # None
               PROVE  /\ latest.record # None
                      /\ Promise!Later(Key(u.record), Key(latest.record))
    OBVIOUS
  <2>1. latest.record \in Records /\ latest.key \in Places /\ latest.key = Key(latest.record)
    BY DEF ReportsInv, TypeOK, Pointers, PointerOK
  <2> QED
    BY <1>4, <2>1, LaterIsGreater DEF ReportsOK
<1> QED
  BY <1>4, <1>5, <1>6, <1>7, <1>8 DEF Promise!Next, Promise!Advance

LEMMA PromiseStep ==
  ASSUME ReportsOK, ReportsInv, [Next]_vars
  PROVE  Promise!Next \/ UNCHANGED <<runs, latest>>
<1>1. ASSUME NEW i \in Importers, Rename(i)
      PROVE  Promise!Next \/ UNCHANGED <<runs, latest>>
  <2>1. PICK u : u = importer[i]
    OBVIOUS
  <2>2. PICK t : t = Identity(u.record.validated)
    OBVIOUS
  <2>3. u.phase = "rename" /\ t = Target(i)
    BY <1>1, <2>1, <2>2 DEF Rename, Within, Target
  <2>4. Renames(i, t, u.record) \/ UNCHANGED <<runs, latest>>
    BY <1>1, <2>1, <2>3 DEF Rename, Renames
  <2> QED
    BY <2>1, <2>2, <2>3, <2>4, ArchiveRefines
<1>2. ASSUME NEW i \in Importers, Replace(i) PROVE Promise!Next
  BY <1>2, ReplaceRefines
<1> QED
  BY <1>1, <1>2 DEF Next, Produce, Validate, Stamp, Copy, Look, ReadKey, Lock, Compare, Stop, vars

(* The archive implements LatestAccepted: archived runs never change, and  *)
(* the pointer names archived accepted runs and moves forward only.        *)
THEOREM ReportsImplementLatest == Spec => ImplementsLatest
<1>1. Init => Promise!Init
  BY DEF Init, Promise!Init
<1>2. ReportsInv /\ [Next]_vars => [Promise!Next]_(Promise!vars)
  BY ReportsOK, PromiseStep DEF Promise!vars
<1> QED
  BY <1>1, <1>2, ReportsAlways, PTL DEF Spec, ImplementsLatest, Promise!Spec

-----------------------------------------------------------------------------
(* From neighbours to the whole.  The verdict compares what is next to     *)
(* each other; the smallest counterexample shows that this is enough.      *)

LEMMA SmallestNumber ==
  ASSUME NEW T, T \subseteq Nat, T # {}
  PROVE  \E x \in T : \A y \in T : x <= y
<1> DEFINE R == {p \in Nat \X Nat : p[1] < p[2]}
<1>1. R = OpToRel(<, Nat)
  BY Zenon DEF OpToRel
<1>2. IsWellFoundedOn(R, Nat)
  BY <1>1, NatLessThanWellFounded, Zenon
<1>3. \E x \in T : \A y \in T : ~(<<y, x>> \in R)
  <2> HIDE DEF R
  <2> QED
    BY <1>2, WFMin, Zenon
<1>4. \A x, y \in T : x <= y \/ <<y, x>> \in R
  OBVIOUS
<1> QED
  BY <1>3, <1>4

LEMMA LargestNumber ==
  ASSUME NEW n \in Nat, NEW T, T \subseteq 0 .. n, T # {}
  PROVE  \E x \in T : \A y \in T : y <= x
<1>1. PICK U : U = {k \in 0 .. n : n - k \in T}
  OBVIOUS
<1>2. U \subseteq Nat /\ U # {}
  <2>1. PICK t : t \in T
    OBVIOUS
  <2>2. n - t \in 0 .. n /\ n - (n - t) = t
    BY <2>1
  <2> QED
    BY <1>1, <2>1, <2>2
<1>3. PICK k \in U : \A l \in U : k <= l
  BY <1>2, SmallestNumber
<1>4. n - k \in T
  BY <1>1, <1>3
<1>5. ASSUME NEW y \in T PROVE y <= n - k
  <2>1. n - y \in 0 .. n /\ n - (n - y) = y
    OBVIOUS
  <2>2. n - y \in U
    BY <1>1, <2>1
  <2> QED
    BY <1>1, <1>3, <2>2
<1> QED
  BY <1>4, <1>5

(* A transitive relation that holds of neighbours holds throughout. *)
LEMMA NeighboursSuffice ==
  ASSUME NEW a \in Nat, NEW n \in Nat, NEW R,
         \A k \in a .. n - 1 : <<k, k + 1>> \in R,
         \A i, j, k \in a .. n : <<i, j>> \in R /\ <<j, k>> \in R => <<i, k>> \in R
  PROVE  \A i, j \in a .. n : i < j => <<i, j>> \in R
<1> SUFFICES ASSUME NEW i \in a .. n, NEW m \in a .. n, i < m, <<i, m>> \notin R
             PROVE  FALSE
  OBVIOUS
<1>1. PICK T : T = {j \in a .. n : i < j /\ <<i, j>> \notin R}
  OBVIOUS
<1>2. PICK j \in T : \A k \in T : j <= k
  <2>1. T \subseteq Nat /\ m \in T
    BY <1>1
  <2> QED
    BY <2>1, SmallestNumber
<1>3. j \in a .. n /\ i < j /\ <<i, j>> \notin R
  BY <1>1, <1>2
<1>4. j - 1 \in a .. n - 1 /\ (j - 1) + 1 = j /\ j - 1 \in a .. n /\ i <= j - 1
  BY <1>3
<1>5. <<j - 1, j>> \in R
  BY <1>4
<1>6. i # j - 1
  BY <1>3, <1>5
<1>7. <<i, j - 1>> \notin R
  BY <1>3, <1>4, <1>5
<1>8. j - 1 \in T
  BY <1>1, <1>4, <1>6, <1>7
<1> QED
  BY <1>2, <1>3, <1>8

-----------------------------------------------------------------------------
(* The verdict *)

LEMMA StageNarrows ==
  ASSUME NEW s, StageHolds(s)
  PROVE  ToSet(s.passed) \subseteq ToSet(s.input)
BY DEF StageHolds

LEMMA StagesNarrow ==
  ASSUME NEW r, Readable(r), StagesHold(r)
  PROVE  \A i, j \in 1 .. Len(r.stages) :
           i <= j => ToSet(r.stages[j].passed) \subseteq ToSet(r.stages[i].input)
<1>1. PICK n \in Nat : n = Len(r.stages)
  BY DEF Readable
<1>2. PICK R : R = {p \in (1 .. n) \X (1 .. n) :
                      ToSet(r.stages[p[2]].input) \subseteq ToSet(r.stages[p[1]].input)}
  OBVIOUS
<1>3. \A i \in 1 .. n : ToSet(r.stages[i].passed) \subseteq ToSet(r.stages[i].input)
  BY <1>1, StageNarrows DEF StagesHold
<1>4. \A i, j \in 1 .. n :
        <<i, j>> \in R <=> ToSet(r.stages[j].input) \subseteq ToSet(r.stages[i].input)
  BY <1>2
<1>5. \A k \in 1 .. n - 1 : <<k, k + 1>> \in R
  <2> SUFFICES ASSUME NEW k \in 1 .. n - 1 PROVE <<k, k + 1>> \in R
    OBVIOUS
  <2>1. k \in 1 .. n /\ k + 1 \in 1 .. n
    OBVIOUS
  <2>2. ToSet(r.stages[k].passed) = ToSet(r.stages[k + 1].input)
    BY <1>1 DEF StagesHold
  <2> QED
    BY <1>3, <1>4, <2>1, <2>2
<1>6. \A i, j, k \in 1 .. n : <<i, j>> \in R /\ <<j, k>> \in R => <<i, k>> \in R
  BY <1>4
<1>7. \A i, j \in 1 .. n : i < j => <<i, j>> \in R
  BY <1>5, <1>6, NeighboursSuffice
<1>8. ASSUME NEW i \in 1 .. n, NEW j \in 1 .. n, i <= j
      PROVE  ToSet(r.stages[j].input) \subseteq ToSet(r.stages[i].input)
  <2>1. CASE i = j
    BY <2>1
  <2>2. CASE i < j
    BY <1>4, <1>7, <2>2
  <2> QED
    BY <1>8, <2>1, <2>2
<1> QED
  BY <1>1, <1>3, <1>8

(* The score that counts is one that was declared. *)
LEMMA ScoreType ==
  ASSUME NEW r, Readable(r), NEW s \in DOMAIN ScoreOf(r)
  PROVE  ScoreOf(r)[s] \in Numbers
<1>1. PICK n \in Nat : n = Len(r.scores)
  BY DEF Readable
<1>2. PICK given : given = {i \in 1 .. n : r.scores[i].sector = s /\ r.scores[i].declared # None}
  OBVIOUS
<1>3. given # {} /\ given \subseteq 0 .. n
  BY <1>1, <1>2 DEF ScoreOf
<1>4. PICK m : m = CHOOSE i \in given : \A j \in given : j <= i
  OBVIOUS
<1>5. m \in given
  BY <1>3, <1>4, LargestNumber
<1>6. ScoreOf(r)[s] = r.scores[m].declared
  BY <1>1, <1>2, <1>4 DEF ScoreOf
<1> QED
  BY <1>1, <1>2, <1>5, <1>6 DEF Readable

LEMMA RankedType ==
  ASSUME NEW r, Readable(r), ScoresHold(r), RankingHolds(r)
  PROVE  /\ Len(r.ranking) \in Nat
         /\ \A k \in 1 .. Len(r.ranking) : RankedScore(r, k) \in Numbers
         /\ \A k \in 1 .. Len(r.ranking) : r.ranking[k].sector \in Nat
<1>1. Len(r.ranking) \in Nat
  BY DEF Readable
<1>2. \A k \in 1 .. Len(r.ranking) : r.ranking[k].sector \in DOMAIN ScoreOf(r)
  BY DEF RankingHolds
<1>3. \A s \in DOMAIN ScoreOf(r) : s \in Nat
  BY DEF ScoreOf, ScoresHold, ScoreHolds, Readable
<1> QED
  BY <1>1, <1>2, <1>3, ScoreType DEF RankedScore

LEMMA NeighboursFollow ==
  ASSUME NEW r, Readable(r), RankingHolds(r),
         NEW k \in 1 .. Len(r.ranking) - 1
  PROVE  /\ ~Exceeds(RankedScore(r, k + 1), RankedScore(r, k), Tie)
         /\ Close(RankedScore(r, k), RankedScore(r, k + 1)) =>
              ~(r.ranking[k + 1].sector < r.ranking[k].sector)
<1>1. MayFollow(r, r.ranking[k].sector, r.ranking[k + 1].sector)
  BY DEF RankingHolds
<1> QED
  BY <1>1 DEF MayFollow, RankedScore

LEMMA ExceedsCases ==
  ASSUME NEW x \in Numbers, NEW y \in Numbers, NEW c
  PROVE  /\ x \in Int /\ y \in Int => (Exceeds(x, y, c) <=> x > y + c)
         /\ ~(x \in Int /\ y \in Int) =>
              (Exceeds(x, y, c) <=> x # NaN /\ y # NaN /\ x # y /\ (x = Infinity \/ y = NegInfinity))
BY Zenon DEF Exceeds

(* Ties add up: a step may exceed the one before it by one more. *)
LEMMA TiesAddUp ==
  ASSUME NEW x \in Numbers, NEW m \in Numbers, NEW y \in Numbers, NEW c \in Nat,
         x # NaN, m # NaN, y # NaN,
         ~Exceeds(m, x, c), ~Exceeds(y, m, Tie)
  PROVE  ~Exceeds(y, x, c + Tie)
<1>1. Tie \in Nat
  BY NumbersOK
<1>2. CASE x \in Int /\ m \in Int /\ y \in Int
  BY <1>1, <1>2, ExceedsCases
<1>3. CASE ~(x \in Int /\ m \in Int /\ y \in Int)
  <2> SUFFICES ASSUME Exceeds(y, x, c + Tie) PROVE FALSE
    OBVIOUS
  <2>1. \A z \in Numbers : z # NaN => z \in Int \/ z = Infinity \/ z = NegInfinity
    BY DEF Numbers, NotFinite
  <2>2. Infinity \notin Int /\ NegInfinity \notin Int /\ Infinity # NegInfinity
    BY NumbersOK DEF NotFinite
  <2>3. CASE y \in Int /\ x \in Int
    BY <1>3, <2>1, <2>2, <2>3, ExceedsCases
  <2>4. CASE ~(y \in Int /\ x \in Int)
    <3>1. y # x /\ (y = Infinity \/ x = NegInfinity)
      BY <2>4, ExceedsCases
    <3>2. CASE y = Infinity
      <4>1. m = Infinity
        BY <2>2, <3>2, ExceedsCases
      <4> QED
        BY <2>2, <3>1, <3>2, <4>1, ExceedsCases
    <3>3. CASE x = NegInfinity
      <4>1. m = NegInfinity
        BY <2>2, <3>3, ExceedsCases
      <4> QED
        BY <2>2, <3>1, <3>3, <4>1, ExceedsCases
    <3> QED
      BY <3>1, <3>2, <3>3
  <2> QED
    BY <2>3, <2>4
<1> QED
  BY <1>2, <1>3

(* By the smallest counterexample: the place before it is none. *)
LEMMA RankingDrifts ==
  ASSUME NEW r, Readable(r), ScoresHold(r), RankingHolds(r),
         NEW i \in 1 .. Len(r.ranking), NEW l \in 1 .. Len(r.ranking), i < l
  PROVE  Descends(r, i, l)
<1> SUFFICES ASSUME ~Descends(r, i, l) PROVE FALSE
  OBVIOUS
<1>1. PICK n \in Nat : n = Len(r.ranking)
  BY RankedType
<1>2. PICK T : T = {j \in 1 .. n : i < j /\ ~Descends(r, i, j)}
  OBVIOUS
<1>3. PICK j \in T : \A k \in T : j <= k
  <2>1. T \subseteq Nat /\ l \in T
    BY <1>1, <1>2
  <2> QED
    BY <2>1, SmallestNumber
<1>4. j \in 1 .. n /\ i < j /\ ~Descends(r, i, j)
  BY <1>2, <1>3
<1>5. PICK d \in Nat : d = j - 1 - i
  BY <1>1, <1>4
<1>6. j - 1 \in 1 .. n - 1 /\ (j - 1) + 1 = j /\ j - 1 \in i .. j /\ j - i = d + 1
  BY <1>1, <1>4, <1>5
<1>7. /\ \A k \in i .. j : RankedScore(r, k) # NaN
      /\ Exceeds(RankedScore(r, j), RankedScore(r, i), (d + 1) * Tie)
  BY <1>4, <1>6 DEF Descends
<1>8. ~Exceeds(RankedScore(r, j), RankedScore(r, j - 1), Tie)
  <2>1. j - 1 \in 1 .. Len(r.ranking) - 1
    BY <1>1, <1>6
  <2> QED
    BY <1>6, <2>1, NeighboursFollow
<1>9. Tie \in Nat /\ d * Tie \in Nat /\ (d + 1) * Tie = d * Tie + Tie
  BY NumbersOK
<1>10. \A k \in {i, j - 1, j} : RankedScore(r, k) \in Numbers /\ RankedScore(r, k) # NaN
  BY <1>1, <1>4, <1>6, <1>7, RankedType
<1>11. CASE j - 1 = i
  <2>1. d = 0 /\ (d + 1) * Tie = Tie
    BY <1>5, <1>9, <1>11
  <2> QED
    BY <1>7, <1>8, <1>11, <2>1
<1>12. CASE j - 1 # i
  <2>1. j - 1 \in 1 .. n /\ i < j - 1 /\ j - 1 < j
    BY <1>1, <1>4, <1>6, <1>12
  <2>2. Descends(r, i, j - 1)
    BY <1>2, <1>3, <2>1
  <2>3. \A k \in i .. j - 1 : RankedScore(r, k) # NaN
    BY <1>4, <1>7
  <2>4. ~Exceeds(RankedScore(r, j - 1), RankedScore(r, i), d * Tie)
    BY <1>5, <2>2, <2>3 DEF Descends
  <2>5. ~Exceeds(RankedScore(r, j), RankedScore(r, i), d * Tie + Tie)
    BY <1>8, <1>9, <1>10, <2>4, TiesAddUp
  <2> QED
    BY <1>7, <1>9, <2>5
<1> QED
  BY <1>11, <1>12

(* Where scores are equal or apart, ties do not add up. *)
LEMMA ApartIsOrdered ==
  ASSUME NEW r, Readable(r), ScoresHold(r), RankingHolds(r),
         NEW i \in 1 .. Len(r.ranking), NEW l \in 1 .. Len(r.ranking), i < l,
         Apart(r, i, l)
  PROVE  InOrder(r, i, l)
<1>1. i \in Nat /\ l \in Nat /\ i .. l \subseteq 1 .. Len(r.ranking) /\ i \in i .. l /\ l \in i .. l
  BY RankedType
<1>2. PICK R : R = {p \in (i .. l) \X (i .. l) : InOrder(r, p[1], p[2])}
  OBVIOUS
<1>3. \A a, b \in i .. l : <<a, b>> \in R <=> InOrder(r, a, b)
  BY <1>2
<1>4. \A k \in i .. l : RankedScore(r, k) \in Int /\ r.ranking[k].sector \in Nat
  BY <1>1, RankedType DEF Apart
<1>5. ASSUME NEW k \in i .. l - 1 PROVE <<k, k + 1>> \in R
  <2>1. k \in i .. l /\ k + 1 \in i .. l /\ k \in 1 .. Len(r.ranking) - 1
    BY <1>1, RankedType
  <2>2. PICK x \in Int : x = RankedScore(r, k)
    BY <1>4, <2>1
  <2>3. PICK y \in Int : y = RankedScore(r, k + 1)
    BY <1>4, <2>1
  <2>4. /\ ~Exceeds(y, x, Tie)
        /\ Close(x, y) => ~(r.ranking[k + 1].sector < r.ranking[k].sector)
    BY <2>1, <2>2, <2>3, NeighboursFollow
  <2>5. y <= x + Tie /\ Tie \in Nat
    BY <2>4, NumbersOK, ExceedsCases DEF Numbers
  <2>6. Close(x, y) => x = y
    BY <2>1, <2>2, <2>3 DEF Apart
  <2>7. x <= y => x = y /\ Close(x, y)
    BY <2>5, <2>6 DEF Close, Distance
  <2>8. CASE x > y
    BY <1>3, <2>1, <2>2, <2>3, <2>8 DEF InOrder
  <2>9. CASE x <= y
    <3>1. x = y /\ ~(r.ranking[k + 1].sector < r.ranking[k].sector)
      BY <2>4, <2>7, <2>9
    <3>2. r.ranking[k].sector <= r.ranking[k + 1].sector
      BY <1>4, <2>1, <3>1
    <3>3. InOrder(r, k, k + 1)
      BY <2>2, <2>3, <3>1, <3>2 DEF InOrder
    <3> QED
      BY <1>3, <2>1, <3>3
  <2> QED
    BY <2>8, <2>9
<1>6. ASSUME NEW a \in i .. l, NEW b \in i .. l, NEW c \in i .. l,
             <<a, b>> \in R, <<b, c>> \in R
      PROVE  <<a, c>> \in R
  <2>1. InOrder(r, a, b) /\ InOrder(r, b, c)
    BY <1>3, <1>6
  <2>2. PICK x, y, z \in Int :
          x = RankedScore(r, a) /\ y = RankedScore(r, b) /\ z = RankedScore(r, c)
    BY <1>4
  <2>3. PICK p, q, s \in Nat :
          /\ p = r.ranking[a].sector
          /\ q = r.ranking[b].sector
          /\ s = r.ranking[c].sector
    BY <1>4
  <2>4. x > y \/ (x = y /\ p <= q)
    BY <2>1, <2>2, <2>3 DEF InOrder
  <2>5. y > z \/ (y = z /\ q <= s)
    BY <2>1, <2>2, <2>3 DEF InOrder
  <2>6. x > z \/ (x = z /\ p <= s)
    BY <2>4, <2>5
  <2>7. InOrder(r, a, c)
    BY <2>2, <2>3, <2>6 DEF InOrder
  <2> QED
    BY <1>3, <2>7
<1>7. <<i, l>> \in R
  BY <1>1, <1>5, <1>6, NeighboursSuffice
<1> QED
  BY <1>1, <1>3, <1>7

(* An accepted report is sound as a whole, whatever report it is. *)
LEMMA AcceptedReportIsSound ==
  ASSUME NEW r, Readable(r), Verdict(r) = "accepted"
  PROVE  Sound(r)
<1>1. FactsHold(r) /\ ~Incomplete(r)
  BY DEF Verdict
<1>2. r.missing = {}
  BY <1>1 DEF Incomplete
<1>3. \A i, j \in 1 .. Len(r.stages) :
        i <= j => ToSet(r.stages[j].passed) \subseteq ToSet(r.stages[i].input)
  BY <1>1, StagesNarrow DEF FactsHold
<1>4. ASSUME NEW i \in 1 .. Len(r.ranking), NEW j \in 1 .. Len(r.ranking), i < j
      PROVE  Descends(r, i, j) /\ (Apart(r, i, j) => InOrder(r, i, j))
  BY <1>1, <1>4, RankingDrifts, ApartIsOrdered DEF FactsHold
<1> QED
  BY <1>2, <1>3, <1>4 DEF Sound

(* What the archive calls accepted is sound throughout, for every report   *)
(* that can be written, if it was not rewritten during its import.         *)
THEOREM ReportsAcceptedIsSound == Spec => []AcceptedIsSound
<1>1. ReportsInv => AcceptedIsSound
  <2> SUFFICES ASSUME ReportsInv, NEW i \in Identities, runs[i] # None,
                      runs[i].validated = runs[i].copied, Accepted(runs[i])
               PROVE  runs[i].copied \in SoundReports
    BY DEF AcceptedIsSound
  <2>1. PICK r : r = runs[i].copied
    OBVIOUS
  <2>2. r \in Reports /\ Verdict(Contents[r]) = "accepted"
    BY <2>1 DEF Accepted, AcceptedReports
  <2>3. Readable(Contents[r])
    BY <2>2, ReportsOK DEF ReportsOK
  <2>4. Sound(Contents[r])
    BY <2>2, <2>3, AcceptedReportIsSound
  <2> QED
    BY <2>1, <2>2, <2>4 DEF SoundReports
<1> QED
  BY <1>1, ReportsAlways, PTL
=============================================================================
