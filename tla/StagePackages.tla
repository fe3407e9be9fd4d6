----------------------------- MODULE StagePackages -----------------------------
(***************************************************************************)
(* The research stage of the WorkBuddy exchange.  WorkBuddy delivers       *)
(* packages as results/<task>.ready; passes of a CLI, started by hand and  *)
(* possibly at the same time, lock a package, rename it to                 *)
(* processing/<task>, keep its artifact in an immutable archive root and   *)
(* rename it to archive/<task> or failed/<task>; a recovery pass takes up  *)
(* what a killed one left in processing/.  Renames never replace a target. *)
(*                                                                         *)
(* The lock is a file inside the package: it belongs to the directory that *)
(* was opened, while renames and the handler go by name.  A delivery       *)
(* stands for a directory.  Its content is what result.json and report.md  *)
(* hold, Malformed when they do not pass the checks that need nothing      *)
(* else.  All packages have the one supported schema version.              *)
(***************************************************************************)
EXTENDS Naturals, FiniteSets

CONSTANTS
  Agents,      \* processes that run the CLI
  Deliveries,  \* records [task, content, no]: the directories WorkBuddy makes
  Malformed,   \* a content that is refused
  MaxDeaths,   \* bound: processes killed
  None

Tasks    == {d.task : d \in Deliveries}
Contents == {d.content : d \in Deliveries} \ {Malformed}
Folders  == {"results", "processing", "archive", "failed"}

ASSUME PackagesOK ==
  /\ Tasks \subseteq Nat  \* in the order of their names
  /\ MaxDeaths \in Nat
  /\ IsFiniteSet(Deliveries)
  /\ None \notin Deliveries \union Contents \union Agents
  /\ Malformed # None

VARIABLES
  at,        \* folder -> task -> the directory of that name
  due,       \* deliveries still to come
  lock,      \* directory -> the process that has its lock file locked
  identity,  \* tasks with a directory <root>/<task>/<schema version>
  kept,      \* task -> contents archived below it
  deaths,
  agent      \* what each process is doing

vars == <<at, due, lock, identity, kept, deaths, agent>>

Idle == [phase |-> "idle", from |-> None, left |-> {}, task |-> None, dir |-> None, got |-> None]

Init ==
  /\ at = [f \in Folders |-> [t \in Tasks |-> None]]
  /\ due = Deliveries
  /\ lock = [d \in Deliveries |-> None]
  /\ identity = {}
  /\ kept = [t \in Tasks |-> {}]
  /\ deaths = 0
  /\ agent = [g \in Agents |-> Idle]

-----------------------------------------------------------------------------
Within(g, phase) == agent[g].phase = phase
Become(g, w)     == agent' = [agent EXCEPT ![g] = w]
Goto(g, phase)   == Become(g, [agent[g] EXCEPT !.phase = phase])
Held(g)          == {d \in Deliveries : lock[d] = g}
Release(g)       == lock' = [d \in Deliveries |-> IF lock[d] = g THEN None ELSE lock[d]]

(* The package is done with, whatever became of it. *)
Leave(g) ==
  /\ Become(g, [agent[g] EXCEPT !.phase = "scan", !.task = None, !.dir = None, !.got = None])
  /\ Release(g)

(* renameat2 with RENAME_NOREPLACE *)
CanMove(t, f, h) == at[f][t] # None /\ at[h][t] = None
Move(t, f, h)    == /\ CanMove(t, f, h)
                    /\ at' = [at EXCEPT ![f][t] = None, ![h][t] = at[f][t]]

(* WorkBuddy renames a finished directory to its .ready name. *)
Deliver(d) ==
  /\ d \in due
  /\ at["results"][d.task] = None
  /\ at' = [at EXCEPT !["results"][d.task] = d]
  /\ due' = due \ {d}
  /\ UNCHANGED <<lock, identity, kept, deaths, agent>>

(* process_once lists results/, recover_once lists processing/. *)
Start(g, from) ==
  /\ Within(g, "idle")
  /\ Become(g, [Idle EXCEPT !.phase = "scan", !.from = from,
                            !.left = {t \in Tasks : at[from][t] # None}])
  /\ UNCHANGED <<at, due, lock, identity, kept, deaths>>

Least(left) == CHOOSE t \in left : \A u \in left : t <= u

(* _acquire_package_lock opens the directory of that name, if it is there. *)
Open(g) ==
  /\ Within(g, "scan")
  /\ agent[g].left # {}
  /\ LET t == Least(agent[g].left)
         w == [agent[g] EXCEPT !.left = @ \ {t}]
         d == at[w.from][t]
     IN  Become(g, IF d = None THEN w
                   ELSE [w EXCEPT !.phase = "lock", !.task = t, !.dir = d])
  /\ UNCHANGED <<at, due, lock, identity, kept, deaths>>

Exit(g) ==
  /\ Within(g, "scan")
  /\ agent[g].left = {}
  /\ Become(g, Idle)
  /\ UNCHANGED <<at, due, lock, identity, kept, deaths>>

(* Mutant: recovery does not look at the lock. *)
FreeOrResidue(g) == lock[agent[g].dir] = None \/ agent[g].from = "processing"

(* flock with LOCK_NB: a package locked by somebody else is passed over. *)
Free(g) == lock[agent[g].dir] = None

Lock(g) ==
  /\ Within(g, "lock")
  /\ IF Free(g)
     THEN /\ lock' = [lock EXCEPT ![agent[g].dir] = g]
          /\ Goto(g, IF agent[g].from = "results" THEN "claim" ELSE "read")
     ELSE Leave(g)
  /\ UNCHANGED <<at, due, identity, kept, deaths>>

Claim(g) ==
  LET t == agent[g].task IN
  /\ Within(g, "claim")
  /\ \/ Move(t, "results", "processing") /\ Goto(g, "read") /\ UNCHANGED lock
     \/ ~CanMove(t, "results", "processing") /\ Leave(g) /\ UNCHANGED at
  /\ UNCHANGED <<due, identity, kept, deaths>>

-----------------------------------------------------------------------------
(* The handler: ingest_research_artifact of processing/<task> *)

(* Mutant: whatever is wrong with a package, it counts as ingested. *)
FileAnyhow(g, f) == Goto(g, "archive")

FileAs(g, f) == Goto(g, f)

Read(g) ==
  LET d == at["processing"][agent[g].task] IN
  /\ Within(g, "read")
  /\ IF d = None \/ d.content = Malformed THEN FileAs(g, "failed")
     ELSE Become(g, [agent[g] EXCEPT !.phase = "look", !.got = d.content])
  /\ UNCHANGED <<at, due, lock, identity, kept, deaths>>

(* Mutant: a task may keep several contents. *)
LookByContent(g) ==
  /\ Within(g, "look")
  /\ IF agent[g].got \in kept[agent[g].task] THEN FileAs(g, "archive") ELSE Goto(g, "make")
  /\ UNCHANGED <<at, due, lock, identity, kept, deaths>>

(* A task keeps its first content; the same one again is a success. *)
Look(g) ==
  LET t == agent[g].task IN
  /\ Within(g, "look")
  /\ \/ agent[g].got \in kept[t] /\ FileAs(g, "archive")
     \/ agent[g].got \notin kept[t] /\ t \in identity /\ FileAs(g, "failed")
     \/ t \notin identity /\ Goto(g, "make")
  /\ UNCHANGED <<at, due, lock, identity, kept, deaths>>

(* _atomic_archive makes the directory, then the artifact in it at once. *)
Make(g) ==
  /\ Within(g, "make")
  /\ identity' = identity \union {agent[g].task}
  /\ Goto(g, "place")
  /\ UNCHANGED <<at, due, lock, kept, deaths>>

Place(g) ==
  LET t == agent[g].task
      c == agent[g].got
  IN
  /\ Within(g, "place")
  /\ IF c \in kept[t]
     THEN FileAs(g, "failed") /\ UNCHANGED kept
     ELSE FileAs(g, "archive") /\ kept' = [kept EXCEPT ![t] = @ \union {c}]
  /\ UNCHANGED <<at, due, lock, identity, deaths>>

(* finish: what cannot be moved stays in processing/. *)
Finish(g, f) ==
  LET t == agent[g].task IN
  /\ Within(g, f)
  /\ Move(t, "processing", f) \/ (~CanMove(t, "processing", f) /\ UNCHANGED at)
  /\ Leave(g)
  /\ UNCHANGED <<due, identity, kept, deaths>>

-----------------------------------------------------------------------------
(* The locks of a killed process go with it. *)
Die(g) ==
  /\ ~Within(g, "idle")
  /\ deaths < MaxDeaths
  /\ deaths' = deaths + 1
  /\ Become(g, Idle)
  /\ Release(g)
  /\ UNCHANGED <<at, due, identity, kept>>

Next ==
  \/ \E d \in Deliveries : Deliver(d)
  \/ \E g \in Agents :
       \/ Start(g, "results") \/ Start(g, "processing")
       \/ Open(g) \/ Exit(g) \/ Lock(g) \/ Claim(g)
       \/ Read(g) \/ Look(g) \/ Make(g) \/ Place(g)
       \/ Finish(g, "archive") \/ Finish(g, "failed")
       \/ Die(g)

Spec == Init /\ [][Next]_vars
-----------------------------------------------------------------------------
Handling == {"read", "look", "make", "place", "archive", "failed"}

TypeOK ==
  /\ at \in [Folders -> [Tasks -> Deliveries \union {None}]]
  /\ due \subseteq Deliveries
  /\ lock \in [Deliveries -> Agents \union {None}]
  /\ identity \subseteq Tasks
  /\ kept \in [Tasks -> SUBSET Contents]
  /\ deaths \in 0 .. MaxDeaths
  /\ agent \in [Agents ->
       [phase : {"idle", "scan", "lock", "claim"} \union Handling,
        from : {"results", "processing", None}, left : SUBSET Tasks,
        task : Tasks \union {None}, dir : Deliveries \union {None},
        got : Contents \union {None}]]

Handlers(t)   == {g \in Agents : agent[g].task = t /\ agent[g].phase \in Handling}
DeliveredOnce == {t \in Tasks : Cardinality({d \in Deliveries : d.task = t}) = 1}

(* The lock lets one process handle a package, be it the pass that claimed *)
(* it or a recovery that found it in processing/ (recover_once: a running  *)
(* worker's package is never stolen).  It holds for the first directory    *)
(* of a task: whoever opened it and waited claims a later one unlocked.    *)
OneHandler == \A t \in DeliveredOnce : Cardinality(Handlers(t)) <= 1

(* Where a package ends up tells what became of it, through deaths and     *)
(* recoveries: the artifact of every package in archive/ is in the archive *)
(* root, a package in failed/ left none there.  A package delivered again  *)
(* may be filed as failed though its content is kept.                      *)
FiledByOutcome ==
  \A t \in Tasks :
    /\ at["archive"][t] # None => at["archive"][t].content \in kept[t]
    /\ t \in DeliveredOnce /\ at["failed"][t] # None
         => at["failed"][t].content \notin kept[t]

(* A task keeps one content, however often and by whomever packages of it  *)
(* are taken up ("conflicting delivery").                                  *)
OneArtifact == \A t \in Tasks : Cardinality(kept[t]) <= 1
=============================================================================
