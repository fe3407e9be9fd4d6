---------------------------- MODULE GovernedReports ----------------------------
(***************************************************************************)
(* The governance archive of WorkBuddy's daily reports.  Each call of the  *)
(* import command validates the triplet of a source directory, copies it   *)
(* to a staging directory, renames that to runs/<date>/<run> and, for an   *)
(* accepted run, advances the pointer latest-accepted.json under a lock.   *)
(* Imports are started by hand and overlap; each can fail or be killed at  *)
(* any step.  WorkBuddy may rewrite a source directory at any time.        *)
(*                                                                         *)
(* A source holds a report and one modification time for its three files:  *)
(* it becomes validated_at and so a part of what is archived.              *)
(* A record stands for all files of an archived run, and two records are   *)
(* equal when their manifests list the same hashes.                        *)
(***************************************************************************)
EXTENDS ReportVerdict

CONSTANTS
  Importers,  \* processes that run the import command
  Sources,    \* source directories
  Contents,   \* report -> what its files say, as ReportVerdict takes it
  Supplies,   \* sets of reports: what WorkBuddy may come to write
  MaxWrites,  \* bound: how often sources are written
  MaxStops    \* bound: imports that fail or are killed

Reports == DOMAIN Contents
Times   == 0 .. MaxWrites

(* A run is archived as its verdict names it, unless that is unsafe.       *)
Identity(r)   == <<Contents[r].result.date, Contents[r].result.run>>
Archivable(r) == None \notin {Contents[r].result.date, Contents[r].result.run}
Archivables   == {r \in Reports : Archivable(r)}
Identities    == {Identity(r) : r \in Archivables}

(* validated is the report the verdict is about, copied the one that was   *)
(* copied after it, at the modification time both are stamped with.        *)
Record(validated, copied, at) == [validated |-> validated, copied |-> copied, at |-> at]
Records  == [validated : Reports, copied : Reports, at : Times]
Places   == Nat \X Nat \X Nat
Pointers == [key : Places, record : Records]

ASSUME ReportsOK ==
  /\ MaxWrites \in Nat /\ MaxStops \in Nat
  /\ \A R \in Supplies : R \subseteq Reports
  /\ \A r \in Reports : Readable(Contents[r])
  /\ None \notin Importers \union Sources
  /\ None \notin [report : Reports, mtime : Times] \union Records
  /\ None \notin Pointers

VARIABLES
  supply,    \* the reports of this behaviour
  writes,    \* how often sources were written: the clock of their times
  source,    \* directory -> [report, mtime], or None
  runs,      \* identity -> record in runs/<date>/<run>, or None
  latest,    \* the pointer: [key, record], or None
  lock,      \* importer that holds the pointer's lock, or None
  reported,  \* keys of the imports that ended with exit code 0
  stops,
  importer   \* what each process is doing

vars == <<supply, writes, source, runs, latest, lock, reported, stops, importer>>

AcceptedReports == {r \in Reports : Verdict(Contents[r]) = "accepted"}
Accepted(x)     == x.validated \in AcceptedReports

(* (trade_date, finished_at, workflow_run_id), the second from the copy    *)
Key(x) ==
  <<Contents[x.validated].result.date,
    IF Contents[x.copied].finished = None THEN x.at ELSE Contents[x.copied].finished,
    Contents[x.validated].result.run>>

(* Mutant: the date does not come first. *)
GreaterByTime(k, l) == k[2] > l[2] \/ (k[2] = l[2] /\ k[3] > l[3])

Greater(k, l) ==
  \/ k[1] > l[1]
  \/ k[1] = l[1] /\ k[2] > l[2]
  \/ k[1] = l[1] /\ k[2] = l[2] /\ k[3] > l[3]

Idle == [phase |-> "idle", dir |-> None, record |-> None, key |-> None]

Init ==
  /\ supply \in Supplies
  /\ writes = 0
  /\ source = [s \in Sources |-> None]
  /\ runs = [i \in Identities |-> None]
  /\ latest = None
  /\ lock = None
  /\ reported = {}
  /\ stops = 0
  /\ importer = [i \in Importers |-> Idle]

-----------------------------------------------------------------------------
Within(i, phase) == importer[i].phase = phase
Become(i, w)     == importer' = [importer EXCEPT ![i] = w]
Goto(i, phase)   == Become(i, [importer[i] EXCEPT !.phase = phase])
Target(i)        == Identity(importer[i].record.validated)

(* WorkBuddy writes a triplet, be it the same again. *)
Produce(s, r) ==
  /\ writes < MaxWrites
  /\ writes' = writes + 1
  /\ source' = [source EXCEPT ![s] = [report |-> r, mtime |-> writes + 1]]
  /\ UNCHANGED <<supply, runs, latest, lock, reported, stops, importer>>

(* A report that names no run ends the import here. *)
Validate(i, s) ==
  /\ Within(i, "idle")
  /\ source[s] # None
  /\ Archivable(source[s].report)
  /\ Become(i, [Idle EXCEPT !.phase = "stamp", !.dir = s,
                            !.record = Record(source[s].report, None, None)])
  /\ UNCHANGED <<supply, writes, source, runs, latest, lock, reported, stops>>

Stamp(i) ==
  /\ Within(i, "stamp")
  /\ Become(i, [importer[i] EXCEPT !.phase = "copy",
                                   !.record.at = source[importer[i].dir].mtime])
  /\ UNCHANGED <<supply, writes, source, runs, latest, lock, reported, stops>>

(* The manifest is checked against the copies, not against the verdict.    *)
Copy(i) ==
  /\ Within(i, "copy")
  /\ Become(i, [importer[i] EXCEPT !.phase = "look",
                                   !.record.copied = source[importer[i].dir].report])
  /\ UNCHANGED <<supply, writes, source, runs, latest, lock, reported, stops>>

(* Mutant: only the import that archived a run advances the pointer. *)
FoundDone(i) ==
  /\ Become(i, Idle)
  /\ reported' = IF Accepted(importer[i].record)
                 THEN reported \union {Key(importer[i].record)} ELSE reported

(* The run is archived, by this import or an earlier one. *)
Found(i) ==
  /\ IF Accepted(importer[i].record) THEN Goto(i, "key") ELSE Become(i, Idle)
  /\ UNCHANGED reported

Conflict(i) == Become(i, Idle) /\ UNCHANGED reported

Look(i) ==
  /\ Within(i, "look")
  /\ \/ runs[Target(i)] = None /\ Goto(i, "rename") /\ UNCHANGED reported
     \/ runs[Target(i)] = importer[i].record /\ Found(i)
     \/ runs[Target(i)] \notin {None, importer[i].record} /\ Conflict(i)
  /\ UNCHANGED <<supply, writes, source, runs, latest, lock, stops>>

(* A rename onto a directory that is not empty fails; the manifest of that *)
(* directory decides. *)
Rename(i) ==
  /\ Within(i, "rename")
  /\ \/ /\ runs[Target(i)] = None
        /\ runs' = [runs EXCEPT ![Target(i)] = importer[i].record]
        /\ IF Accepted(importer[i].record) THEN Goto(i, "key") ELSE Become(i, Idle)
        /\ UNCHANGED reported
     \/ runs[Target(i)] = importer[i].record /\ Found(i) /\ UNCHANGED runs
     \/ runs[Target(i)] \notin {None, importer[i].record} /\ Conflict(i) /\ UNCHANGED runs
  /\ UNCHANGED <<supply, writes, source, latest, lock, stops>>

-----------------------------------------------------------------------------
(* The pointer *)

ReadKey(i) ==
  /\ Within(i, "key")
  /\ Become(i, [importer[i] EXCEPT !.phase = "lock", !.key = Key(runs[Target(i)])])
  /\ UNCHANGED <<supply, writes, source, runs, latest, lock, reported, stops>>

Lock(i) ==
  /\ Within(i, "lock")
  /\ lock = None
  /\ lock' = i
  /\ Goto(i, "compare")
  /\ UNCHANGED <<supply, writes, source, runs, latest, reported, stops>>

Finish(i) ==
  /\ Become(i, Idle)
  /\ lock' = None
  /\ reported' = reported \union {importer[i].key}

Compare(i) ==
  /\ Within(i, "compare")
  /\ \/ latest = None /\ Goto(i, "replace") /\ UNCHANGED <<lock, reported>>
     \/ /\ latest # None
        /\ IF Greater(importer[i].key, latest.key)
           THEN Goto(i, "replace") /\ UNCHANGED <<lock, reported>>
           ELSE Finish(i)
  /\ UNCHANGED <<supply, writes, source, runs, latest, stops>>

Replace(i) ==
  /\ Within(i, "replace")
  /\ latest' = [key |-> importer[i].key, record |-> runs[Target(i)]]
  /\ Finish(i)
  /\ UNCHANGED <<supply, writes, source, runs, stops>>

(* An I/O error, or a kill: the staging directory is of no use to others,  *)
(* the lock is released. *)
Stop(i) ==
  /\ ~Within(i, "idle")
  /\ stops < MaxStops
  /\ stops' = stops + 1
  /\ Become(i, Idle)
  /\ lock' = IF lock = i THEN None ELSE lock
  /\ UNCHANGED <<supply, writes, source, runs, latest, reported>>

Next ==
  \/ \E s \in Sources : \E r \in supply : Produce(s, r)
  \/ \E i \in Importers :
       \/ \E s \in Sources : Validate(i, s)
       \/ Stamp(i) \/ Copy(i) \/ Look(i) \/ Rename(i)
       \/ ReadKey(i) \/ Lock(i) \/ Compare(i) \/ Replace(i)
       \/ Stop(i)

Spec == Init /\ [][Next]_vars
-----------------------------------------------------------------------------
Phases == {"idle", "stamp", "copy", "look", "rename", "key", "lock", "compare", "replace"}
Drafts == [validated : Reports, copied : Reports \union {None}, at : Times \union {None}]

TypeOK ==
  /\ supply \subseteq Reports
  /\ writes \in Times
  /\ source \in [Sources -> [report : Reports, mtime : Times] \union {None}]
  /\ runs \in [Identities -> Records \union {None}]
  /\ \A i \in Identities : runs[i] # None => Identity(runs[i].validated) = i
  /\ latest \in Pointers \union {None}
  /\ lock \in Importers \union {None}
  /\ reported \subseteq Places
  /\ stops \in 0 .. MaxStops
  /\ importer \in [Importers -> [phase : Phases, dir : Sources \union {None},
                                 record : Drafts \union {None}, key : Places \union {None}]]

(* Archived runs never change, and the pointer names an archived accepted  *)
(* run and moves forward only, in whichever order overlapping imports of   *)
(* old and new runs get to it (the contract of the pointer, and the tests  *)
(* of concurrent old writers).                                             *)
Promise == INSTANCE LatestAccepted
  WITH Runs <- Identities, latest <- IF latest = None THEN None ELSE latest.record
ImplementsLatest == Promise!Spec

(* Once an import of an accepted run has ended with exit code 0, whoever   *)
(* archived the run and whatever stopped that one, readers of the pointer  *)
(* are shown this run or a later one.                                      *)
ReportedIsServed ==
  \A k \in reported : latest # None /\ (k = latest.key \/ Promise!Later(latest.key, k))

(* What the verdict of the copied report rests on holds for the report as  *)
(* a whole: nothing passes a stage that did not come into all earlier      *)
(* ones, the ranking is in order, no sector without data is used.  Ties    *)
(* within a tolerance add up, so a place may exceed an earlier one by the  *)
(* tolerance of each step between them; the order is that of scores and    *)
(* identifiers if scores that differ differ by more than the tolerance.    *)
(* NaN separates what is before from what is after it: nothing compares     *)
(* the two.                                                                *)
(* A report that was rewritten while it was imported is excluded: the      *)
(* copies are not compared with what was validated.                        *)
RankedScore(r, k) == ScoreOf(r)[r.ranking[k].sector]

Descends(r, i, j) ==
  (\A k \in i .. j : RankedScore(r, k) # NaN) =>
    ~Exceeds(RankedScore(r, j), RankedScore(r, i), (j - i) * Tie)

Apart(r, i, j) ==
  /\ \A k \in i .. j : RankedScore(r, k) \in Int
  /\ \A k, l \in i .. j :
       Close(RankedScore(r, k), RankedScore(r, l)) => RankedScore(r, k) = RankedScore(r, l)

InOrder(r, i, j) ==
  \/ RankedScore(r, i) > RankedScore(r, j)
  \/ RankedScore(r, i) = RankedScore(r, j) /\ r.ranking[i].sector <= r.ranking[j].sector

Sound(r) ==
  /\ \A i, j \in 1 .. Len(r.stages) :
       i <= j => ToSet(r.stages[j].passed) \subseteq ToSet(r.stages[i].input)
  /\ \A i, j \in 1 .. Len(r.ranking) :
       i < j => Descends(r, i, j) /\ (Apart(r, i, j) => InOrder(r, i, j))
  /\ r.missing = {}

SoundReports == {r \in Reports : Sound(Contents[r])}

AcceptedIsSound ==
  \A i \in Identities :
    runs[i] # None => LET x == runs[i] IN
      x.validated = x.copied /\ Accepted(x) => x.copied \in SoundReports
=============================================================================
