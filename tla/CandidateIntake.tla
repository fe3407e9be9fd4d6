---------------------------- MODULE CandidateIntake ----------------------------
(***************************************************************************)
(* The intake of WorkBuddy candidate packages: scheduled imports, which    *)
(* may overlap and may be killed, claim packages by renaming them, keep    *)
(* the first content of each run in an immutable archive, import it in ONE *)
(* transaction for all packages of the pass, and move each package to its  *)
(* final folder BEFORE that transaction commits.                           *)
(*                                                                         *)
(* A package is a name with a content; a content names the run it is of.   *)
(* Names are numbers in their sorting order.  The rows of an imported run  *)
(* are the content they were made from; what becomes of them afterwards is *)
(* ObservationAdmission.  A directory is read, compared, moved and deleted *)
(* as a whole.                                                             *)
(***************************************************************************)
EXTENDS Naturals

CONSTANTS
  Agents,       \* processes that run the import: schedule ticks, a CLI
  Directories,  \* names of packages delivered as a directory, x.ready
  Files,        \* names of packages delivered as one file
  Contents,     \* records [run, body]: the payloads that parse
  Malformed,    \* a payload that does not
  Waiting,      \* pairs <<name, content>> WorkBuddy delivered, one of a name
  Later,        \* pairs it still delivers, each once
  MaxDeaths,    \* bound: processes killed
  Nothing

Names   == Directories \union Files
RunIds  == {c.run : c \in Contents}
Folders == {"results", "processing", "archive", "failed", "conflict"}

ASSUME IntakeOK ==
  /\ Names \subseteq Nat
  /\ Directories \intersect Files = {}
  /\ Malformed \notin Contents
  /\ Nothing \notin Contents /\ Nothing \notin Names /\ Nothing # Malformed
  /\ Waiting \union Later \subseteq Names \X (Contents \union {Malformed})
  /\ \A p, q \in Waiting : p[1] = q[1] => p = q
  /\ MaxDeaths \in Nat

VARIABLES
  at,      \* folder -> name -> content: the shared directory
  due,     \* deliveries still to come
  kept,    \* the import archive: run -> content of its directory
  rows,    \* committed rows, as the contents they were made from
  lost,    \* contents whose rows were rolled back after a package was moved
  deaths,
  agent    \* the state of each process

intakeVars == <<at, due, kept, rows, lost, deaths, agent>>

Idle == [phase |-> "idle", left |-> {}, pkg |-> Nothing, got |-> Nothing,
         dest |-> Nothing, session |-> {}, broken |-> FALSE]

IntakeTypeOK ==
  /\ at \in [Folders -> [Names -> Contents \union {Malformed, Nothing}]]
  /\ due \subseteq Later
  /\ kept \in [RunIds -> Contents \union {Nothing}]
  /\ rows \subseteq Contents
  /\ lost \subseteq Contents
  /\ deaths \in 0 .. MaxDeaths
  /\ agent \in [Agents ->
       [phase : {"idle", "directories", "files", "read", "place", "look", "insert",
                 "finish", "compare", "discard", "move"},
        left : SUBSET Names, pkg : Names \union {Nothing}, got : Contents \union {Malformed, Nothing},
        dest : Folders \union {Nothing}, session : SUBSET Contents, broken : BOOLEAN]]

IntakeInit ==
  /\ at = [f \in Folders |-> [n \in Names |->
             IF f = "results" /\ \E p \in Waiting : p[1] = n
             THEN (CHOOSE p \in Waiting : p[1] = n)[2] ELSE Nothing]]
  /\ due = Later
  /\ kept = [r \in RunIds |-> Nothing]
  /\ rows = {}
  /\ lost = {}
  /\ deaths = 0
  /\ agent = [g \in Agents |-> Idle]

(* Mutant: a package whose name is being processed is not listed. *)
VisibleFree(names) == {n \in names : at["results"][n] # Nothing /\ at["processing"][n] = Nothing}

-----------------------------------------------------------------------------
Within(g, phase) == agent[g].phase = phase
Become(g, r)     == agent' = [agent EXCEPT ![g] = r]
Store(n, f, c)   == at' = [at EXCEPT ![f][n] = c]
Move(n, f, h)    == at' = [at EXCEPT ![f][n] = Nothing, ![h][n] = at[f][n]]

Visible(names) == {n \in names : at["results"][n] # Nothing}
Least(left)    == CHOOSE n \in left : \A m \in left : n <= m

(* WorkBuddy writes a package; one of that name still there is not touched. *)
Deliver(n, c) ==
  /\ <<n, c>> \in due
  /\ at["results"][n] = Nothing
  /\ Store(n, "results", c)
  /\ due' = due \ {<<n, c>>}
  /\ UNCHANGED <<kept, rows, lost, deaths, agent>>

(* A pass begins: the directories are listed, then claimed one by one. *)
Start(g) ==
  /\ Within(g, "idle")
  /\ Become(g, [Idle EXCEPT !.phase = "directories", !.left = Visible(Directories)])
  /\ UNCHANGED <<at, due, kept, rows, lost, deaths>>

ListFiles(g) ==
  /\ Within(g, "directories")
  /\ agent[g].left = {}
  /\ Become(g, [agent[g] EXCEPT !.phase = "files", !.left = Visible(Files)])
  /\ UNCHANGED <<at, due, kept, rows, lost, deaths>>

(* What a pass imported is lost when it ends without a commit. *)
Rollback(g) ==
  /\ lost' = lost \union agent[g].session
  /\ Become(g, Idle)

(* os.replace into processing/: a file replaces a leftover of its name, a  *)
(* directory cannot, and the error ends the pass; a package claimed by     *)
(* another process meanwhile is skipped.                                   *)
Claim(g) ==
  /\ agent[g].phase \in {"directories", "files"}
  /\ agent[g].left # {}
  /\ LET n == Least(agent[g].left)
         w == [agent[g] EXCEPT !.left = @ \ {n}]
     IN  \/ /\ at["results"][n] = Nothing
            /\ Become(g, w)
            /\ UNCHANGED <<at, lost>>
         \/ /\ at["results"][n] # Nothing
            /\ n \in Files \/ at["processing"][n] = Nothing
            /\ Move(n, "results", "processing")
            /\ Become(g, [w EXCEPT !.phase = "read", !.pkg = n])
            /\ UNCHANGED lost
         \/ /\ at["results"][n] # Nothing
            /\ n \in Directories /\ at["processing"][n] # Nothing
            /\ Rollback(g)
            /\ UNCHANGED at
  /\ UNCHANGED <<due, kept, rows, deaths>>

GoTo(g, phase)  == Become(g, [agent[g] EXCEPT !.phase = phase])
Finishes(w, f)  == [w EXCEPT !.phase = "finish", !.dest = f]

(* A run that is archived already must have been archived with this very   *)
(* content; a new one goes on to be archived.                              *)
Same(c) == kept[c.run] = c

Read(g) ==
  /\ Within(g, "read")
  /\ LET c == at["processing"][agent[g].pkg]
         w == [agent[g] EXCEPT !.got = c]
     IN  \/ /\ c \notin Contents
            /\ Become(g, Finishes(w, "failed"))
         \/ /\ c \in Contents
            /\ Become(g, CASE kept[c.run] = Nothing            -> [w EXCEPT !.phase = "place"]
                            [] Same(c)                         -> [w EXCEPT !.phase = "look"]
                            [] kept[c.run] \notin {Nothing, c} -> Finishes(w, "conflict"))
  /\ UNCHANGED <<at, due, kept, rows, lost, deaths>>

(* Mutant: the archive directory is replaced. *)
PlaceOver(g) ==
  /\ Within(g, "place")
  /\ kept' = [kept EXCEPT ![agent[g].got.run] = agent[g].got]
  /\ GoTo(g, "look")
  /\ UNCHANGED <<at, due, rows, lost, deaths>>

(* The directory is renamed into place, which fails when another process   *)
(* archived the run since it was looked for.                               *)
Place(g) ==
  /\ Within(g, "place")
  /\ LET c == agent[g].got
     IN  \/ /\ kept[c.run] = Nothing
            /\ kept' = [kept EXCEPT ![c.run] = c]
            /\ GoTo(g, "look")
         \/ /\ kept[c.run] # Nothing
            /\ Become(g, Finishes(agent[g], "failed"))
            /\ UNCHANGED kept
  /\ UNCHANGED <<at, due, rows, lost, deaths>>

Seen(g) == {c.run : c \in rows \union agent[g].session}

(* The run and its artifact are looked for; a re-import only resolves      *)
(* instruments.  After a failed statement the session refuses all others.  *)
Look(g) ==
  /\ Within(g, "look")
  /\ Become(g, IF agent[g].broken THEN Finishes(agent[g], "failed")
               ELSE IF agent[g].got.run \in Seen(g) THEN Finishes(agent[g], "archive")
               ELSE [agent[g] EXCEPT !.phase = "insert"])
  /\ UNCHANGED <<at, due, kept, rows, lost, deaths>>

Waits(g, h) ==
  /\ g # h
  /\ Within(g, "insert")
  /\ \E c \in agent[h].session : c.run = agent[g].got.run

Deadlocked(g) ==
  \E cycle \in SUBSET Agents :
    /\ g \in cycle
    /\ \A a \in cycle : (\E b \in cycle : Waits(a, b)) /\ (\E b \in cycle : Waits(b, a))

(* The primary key makes an insert wait for an uncommitted one, fail       *)
(* against a committed one, and fail when the wait is a deadlock.          *)
Insert(g) ==
  /\ Within(g, "insert")
  /\ LET c == agent[g].got
         w == agent[g]
     IN  \/ /\ \A h \in Agents : ~Waits(g, h)
            /\ \A d \in rows : d.run # c.run
            /\ Become(g, Finishes([w EXCEPT !.session = @ \union {kept[c.run]}], "archive"))
         \/ /\ \/ (\A h \in Agents : ~Waits(g, h)) /\ (\E d \in rows : d.run = c.run)
               \/ Deadlocked(g)
            /\ Become(g, Finishes([w EXCEPT !.session = {}, !.broken = TRUE], "failed"))
  /\ lost' = IF agent'[g].broken THEN lost \union agent[g].session ELSE lost
  /\ UNCHANGED <<at, due, kept, rows, deaths>>

(* Mutant: a package of the same name counts as the same package. *)
MatchesName(n, f) == at[f][n] # Nothing

-----------------------------------------------------------------------------
Resumed(w) == [w EXCEPT !.phase = IF w.pkg \in Directories THEN "directories" ELSE "files",
                        !.pkg = Nothing, !.got = Nothing, !.dest = Nothing]

Matches(n, f) == at[f][n] = at["processing"][n]

(* An error on the way to archive/ sends the package to failed/, any other *)
(* error ends the pass and leaves the package in processing/.              *)
Fails(g) ==
  IF agent[g].dest = "archive"
  THEN Become(g, Finishes(agent[g], "failed")) /\ UNCHANGED lost
  ELSE Rollback(g)

(* _finish looks for a package of that name in the final folder, compares  *)
(* the claimed one with it and deletes the claimed one, or moves the       *)
(* claimed one there.  Between any two of these another process may claim  *)
(* the next file of that name over the claimed one, and even be done with  *)
(* it: then it has vanished.                                               *)
Finish(g) ==
  /\ Within(g, "finish")
  /\ GoTo(g, IF at[agent[g].dest][agent[g].pkg] = Nothing THEN "move" ELSE "compare")
  /\ UNCHANGED <<at, due, kept, rows, lost, deaths>>

Compare(g) ==
  /\ Within(g, "compare")
  /\ IF Matches(agent[g].pkg, agent[g].dest)
     THEN GoTo(g, "discard") /\ UNCHANGED lost
     ELSE Fails(g)
  /\ UNCHANGED <<at, due, kept, rows, deaths>>

(* Whatever is there now is deleted. *)
Discard(g) ==
  /\ Within(g, "discard")
  /\ LET n == agent[g].pkg
     IN  \/ /\ at["processing"][n] # Nothing
            /\ Store(n, "processing", Nothing)
            /\ Become(g, Resumed(agent[g]))
            /\ UNCHANGED lost
         \/ /\ at["processing"][n] = Nothing
            /\ Fails(g)
            /\ UNCHANGED at
  /\ UNCHANGED <<due, kept, rows, deaths>>

(* A file replaces one that came there meanwhile, a directory cannot. *)
MoveAway(g) ==
  /\ Within(g, "move")
  /\ LET n == agent[g].pkg
         f == agent[g].dest
         possible == at["processing"][n] # Nothing /\ (n \in Files \/ at[f][n] = Nothing)
     IN  \/ /\ possible
            /\ Move(n, "processing", f)
            /\ Become(g, Resumed(agent[g]))
            /\ UNCHANGED lost
         \/ /\ ~possible
            /\ Fails(g)
            /\ UNCHANGED at
  /\ UNCHANGED <<due, kept, rows, deaths>>

(* The pass is over and the unit of work commits, unless a statement of it *)
(* failed: then the commit raises and everything is rolled back.           *)
Commit(g) ==
  /\ Within(g, "files")
  /\ agent[g].left = {}
  /\ rows' = rows \union agent[g].session
  /\ Become(g, Idle)
  /\ UNCHANGED <<at, due, kept, lost, deaths>>

Die(g) ==
  /\ ~Within(g, "idle")
  /\ deaths < MaxDeaths
  /\ deaths' = deaths + 1
  /\ Rollback(g)
  /\ UNCHANGED <<at, due, kept, rows>>

Step(g) ==
  ListFiles(g) \/ Claim(g) \/ Read(g) \/ Place(g) \/ Look(g) \/ Insert(g) \/ Finish(g)
  \/ Compare(g) \/ Discard(g) \/ MoveAway(g) \/ Commit(g)

IntakeNext ==
  \/ \E n \in Names, c \in Contents \union {Malformed} : Deliver(n, c)
  \/ \E g \in Agents : Start(g) \/ Step(g) \/ Die(g)

(* A running process goes on, and the schedule starts one every five       *)
(* minutes while a package is visible.                                     *)
Fairness ==
  \A g \in Agents : WF_intakeVars(Step(g)) /\ WF_intakeVars(Visible(Names) # {} /\ Start(g))

IntakeSpec == IntakeInit /\ [][IntakeNext]_intakeVars /\ Fairness

-----------------------------------------------------------------------------
(* What is stored about runs, committed or in an open transaction. *)
Stored == rows \union UNION {agent[g].session : g \in Agents}

(* Names under which one content is delivered, once. *)
DeliveredOnce(n) ==
  /\ \A p, q \in Waiting \union Later : p[1] = n /\ q[1] = n => p = q
  /\ \A p \in Waiting \intersect Later : p[1] # n

(* No other package can be claimed over one of this name: a directory      *)
(* cannot replace a directory, and no second file comes.                   *)
Undisturbed(n) == n \in Directories \/ DeliveredOnce(n)

(* What is stored about a run, in the database or in an open transaction,  *)
(* is the content the import archive holds.  A package in archive/ that no *)
(* other can have been claimed over has that content too, and it was       *)
(* imported, is being imported, or its rows were rolled back afterwards    *)
(* (workbuddy_shared_directory.py:194-201 moves it before the commit).     *)
StoresAgree ==
  /\ \A c \in Stored : kept[c.run] = c
  /\ \A n \in Names : Undisturbed(n) /\ at["archive"][n] # Nothing =>
       Same(at["archive"][n]) /\ at["archive"][n] \in Stored \union lost

(* A package never disappears: what was under a name in some folder stays  *)
(* under that name in some folder, or the same name was delivered again    *)
(* and claimed over it.  For a directory always; for a file if at most one *)
(* is delivered after the first: with a third one a pass deletes what it   *)
(* never compared, or replaces a final file that came after it looked      *)
(* (_finish, workbuddy_shared_directory.py:254-269).                       *)
Somewhere(n, c) == \E f \in Folders : at[f][n] = c

Overwritten(n) == at["processing"][n] # Nothing /\ at'["processing"][n] \notin {Nothing, at["processing"][n]}

SeldomDelivered(n) == \A p, q \in Later : p[1] = n /\ q[1] = n => p = q

ContentKept ==
  [][\A n \in Names, c \in Contents \union {Malformed} :
       n \in Directories \/ SeldomDelivered(n) =>
         (Somewhere(n, c) => Somewhere(n, c)' \/ Overwritten(n))]_intakeVars

(* A delivered package is claimed in the end, whatever failed before it,   *)
(* unless a directory waits behind a leftover of its name: that one ends   *)
(* every pass before the files are listed (process_once lists directories  *)
(* first, _claim cannot rename over a directory).                          *)
Blocked == \E n \in Directories : at["results"][n] # Nothing /\ at["processing"][n] # Nothing

InboxDrains ==
  \A n \in Names : at["results"][n] # Nothing ~> (at["results"][n] = Nothing \/ Blocked)
=============================================================================
