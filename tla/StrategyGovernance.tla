-------------------------- MODULE StrategyGovernance --------------------------
(***************************************************************************)
(* Strategy governance: commands that register a draft from an archive,    *)
(* ingest an audit of it, publish an approved version and activate one,    *)
(* run by hand and possibly at the same time.  Files are written before    *)
(* the draft's transaction; every transaction is READ COMMITTED, reads     *)
(* first and then either inserts or updates one row and commits, or fails  *)
(* on a constraint.  Rows become visible when their transaction commits.   *)
(*                                                                         *)
(* An artifact is the content of strategy.json; it holds its own key and   *)
(* version, and it stands for its hash and for the draft of that hash.     *)
(* source.txt and capability-assessment.json are fixed by the hashes in    *)
(* it, so only validation.json may differ between two archives of it.      *)
(***************************************************************************)
EXTENDS Naturals, FiniteSets

CONSTANTS
  Agents,      \* processes that run commands
  Archives,    \* task archives: records [artifact, validation]
  Reports,     \* audit files: records [artifact, task, verdict]
  Decisions,   \* decision files: records [draft, artifact, audit, by, at]
  Authorized,  \* strategy_approver_agent_ids
  MaxTime,     \* bound: the clock
  None

Artifacts   == {d.artifact : d \in Archives}  \* records [key, version, body]
Validations == {d.validation : d \in Archives}
Keys        == {x.key : x \in Artifacts}
Versions    == {x.version : x \in Artifacts}
Tasks       == {u.task : u \in Reports}
Verdicts    == {"pass", "reject"}  \* changes_required is refused like reject

ASSUME GovernanceOK ==
  /\ MaxTime \in Nat
  /\ None \notin Nat
  /\ None \notin Artifacts
  /\ None \notin Validations
  /\ Archives \subseteq [artifact : Artifacts, validation : Validations]
  /\ Reports \subseteq [artifact : Artifacts, task : Tasks, verdict : Verdicts]
  /\ \A c \in Decisions : c.draft \in Artifacts /\ c.at \in Nat

VARIABLES
  files,     \* the artifact root: strategy.json and validation.json of each artifact
  drafts,    \* analytics.strategy_drafts
  audits,    \* analytics.strategy_audits
  versions,  \* analytics.strategy_versions
  now,       \* the clock
  agent      \* the command of each agent

rows == <<drafts, audits, versions>>
vars == <<files, drafts, audits, versions, now, agent>>

(* decision stands for its hash: the decision's file holds all its fields. *)
VersionRows == [artifact : Artifacts, decision : Decisions,
                activated : (0 .. MaxTime) \union {None}]
Activations == [row : Artifacts, version : Versions, at : 0 .. MaxTime]

Idle == [phase |-> "idle", cmd |-> None, got |-> None]
Busy == {"strategy", "validation", "replace", "find", "insert draft", "insert audit",
         "insert version", "update"}

Init ==
  /\ files = [x \in Artifacts |-> [strategy |-> None, validation |-> None]]
  /\ drafts = {}
  /\ audits = {}
  /\ versions = {}
  /\ now = 0
  /\ agent = [a \in Agents |-> Idle]

Free(a)         == agent[a].phase \notin Busy
Start(a, p, c)  == agent' = [agent EXCEPT ![a] = [phase |-> p, cmd |-> c, got |-> None]]
Goto(a, p)      == agent' = [agent EXCEPT ![a].phase = p]
Refuse(a)       == Start(a, "idle", None)
Finish(a)       == Start(a, "idle", None)

Return(a, c, r) == agent' = [agent EXCEPT ![a] = [phase |-> "published", cmd |-> c, got |-> r]]

SamePair(x, y) == x.key = y.key /\ x.version = y.version

-----------------------------------------------------------------------------
(* strategy_draft_cli: register_draft *)

(* Mutant: the row first, the files for whoever comes next. *)
RegisterRowFirst(a, d) ==
  /\ Free(a)
  /\ Start(a, "find", d)
  /\ UNCHANGED <<files, rows, now>>

Register(a, d) ==
  /\ Free(a)
  /\ Start(a, "strategy", d)
  /\ UNCHANGED <<files, rows, now>>

(* The bytes of strategy.json are the ones its directory is named for, so  *)
(* whoever writes it, it is the same file.                                 *)
WriteStrategy(a) ==
  /\ agent[a].phase = "strategy"
  /\ files' = [files EXCEPT ![agent[a].cmd.artifact].strategy = agent[a].cmd.artifact]
  /\ Goto(a, "validation")
  /\ UNCHANGED <<rows, now>>

(* _atomic_immutable looks at the target, writes a temporary file, looks   *)
(* again and replaces; the last look is the one that matters.              *)
LookForValidation(a) ==
  LET d       == agent[a].cmd
      present == files[d.artifact].validation
  IN /\ agent[a].phase = "validation"
     /\ \/ present = None /\ Goto(a, "replace")
        \/ present = d.validation /\ Goto(a, "find")
        \/ present \notin {None, d.validation} /\ Refuse(a)
     /\ UNCHANGED <<files, rows, now>>

ReplaceValidation(a) ==
  LET d == agent[a].cmd
  IN /\ agent[a].phase = "replace"
     /\ files' = [files EXCEPT ![d.artifact].validation = d.validation]
     /\ Goto(a, "find")
     /\ UNCHANGED <<rows, now>>

(* add: a draft of the pair is returned, whatever its validation_result,   *)
(* or it is a conflict.  No other pair can have the hash.                  *)
FindDraft(a) ==
  LET d     == agent[a].cmd
      found == {e \in drafts : SamePair(e.artifact, d.artifact)}
  IN /\ agent[a].phase = "find"
     /\ \/ found = {} /\ Goto(a, "insert draft")
        \/ \E e \in found : e.artifact = d.artifact /\ Finish(a)
        \/ \E e \in found : e.artifact # d.artifact /\ Refuse(a)
     /\ UNCHANGED <<files, rows, now>>

InsertDraft(a) ==
  LET d == agent[a].cmd
  IN /\ agent[a].phase = "insert draft"
     /\ IF \E e \in drafts : SamePair(e.artifact, d.artifact)
        THEN Refuse(a) /\ UNCHANGED drafts
        ELSE drafts' = drafts \union {d} /\ Finish(a)
     /\ UNCHANGED <<files, audits, versions, now>>

-----------------------------------------------------------------------------
(* strategy_audit_cli: ingest_audit *)

SameTask(x, y) == x.artifact = y.artifact /\ x.task = y.task

IngestAudit(a, u) ==
  LET found == {e \in audits : SameTask(e, u)}
  IN /\ Free(a)
     /\ IF \A d \in drafts : d.artifact # u.artifact THEN Refuse(a)
        ELSE \/ found = {} /\ Start(a, "insert audit", u)
             \/ u \in found /\ Finish(a)
             \/ found # {} /\ u \notin found /\ Refuse(a)
     /\ UNCHANGED <<files, rows, now>>

InsertAudit(a) ==
  LET u == agent[a].cmd
  IN /\ agent[a].phase = "insert audit"
     /\ IF \E e \in audits : SameTask(e, u)
        THEN Refuse(a) /\ UNCHANGED audits
        ELSE audits' = audits \union {u} /\ Finish(a)
     /\ UNCHANGED <<files, drafts, versions, now>>

-----------------------------------------------------------------------------
(* StrategyGovernanceService *)

Loads(c) ==
  /\ \E d \in drafts : d.artifact = c.draft
  /\ \E u \in audits : SameTask(u, c.audit)

(* Mutant: _verify_binding without the comparison of audit and draft. *)
BoundToDraft(c) == Loads(c) /\ c.artifact = c.draft

(* _verify_binding: the decision, the draft and the audit are about one    *)
(* artifact.  An audit is stored with the hash of its draft.               *)
Bound(c) == Loads(c) /\ c.artifact = c.draft /\ c.audit.artifact = c.draft

Passed(c)   == \E u \in audits : SameTask(u, c.audit) /\ u.verdict = "pass"
Approves(c) == Bound(c) /\ Passed(c) /\ c.by \in Authorized

(* The row that publication of a decision builds. *)
Built(c) == [artifact |-> c.draft, decision |-> c, activated |-> None]

(* Mutant: an existing row is returned without comparing its payload. *)
AnyPayload(r, c) == r.artifact = c.draft

(* _strategy_version_immutable_payload leaves the activation out. *)
SamePayload(r, c) == r.artifact = c.draft /\ r.decision = c

Publish(a, c) ==
  LET found == {r \in versions : SamePair(r.artifact, c.draft)}
  IN /\ Free(a)
     /\ IF ~Approves(c) THEN Refuse(a)
        ELSE \/ found = {} /\ Start(a, "insert version", c)
             \/ \E r \in found : SamePayload(r, c) /\ Return(a, c, r)
             \/ \E r \in found : ~SamePayload(r, c) /\ Refuse(a)
     /\ UNCHANGED <<files, rows, now>>

InsertVersion(a) ==
  LET c == agent[a].cmd
  IN /\ agent[a].phase = "insert version"
     /\ IF \E r \in versions : SamePair(r.artifact, c.draft)
        THEN Refuse(a) /\ UNCHANGED versions
        ELSE versions' = versions \union {Built(c)} /\ Return(a, c, Built(c))
     /\ UNCHANGED <<files, drafts, audits, now>>

(* The time of an activation is taken before its transaction. *)
Activate(a, row, version) ==
  LET m     == [row |-> row, version |-> version, at |-> now]
      found == {r \in versions : r.artifact = row}
  IN /\ Free(a)
     /\ IF row.version = version /\ \E r \in found : r.activated = None
        THEN Start(a, "update", m) ELSE Refuse(a)
     /\ UNCHANGED <<files, rows, now>>

(* Mutant: without uq_strategy_versions_activated_strategy_key. *)
AnyKeyActive(key) == FALSE

KeyActive(key) == \E r \in versions : r.artifact.key = key /\ r.activated # None

(* UPDATE ... WHERE activated_at IS NULL, the CHECK on the two times and   *)
(* the partial unique index on the key.                                    *)
Accepts(r, at) == r.activated = None /\ r.decision.at <= at /\ ~KeyActive(r.artifact.key)

Update(a) ==
  LET m == agent[a].cmd
  IN /\ agent[a].phase = "update"
     /\ \E r \in versions :
          /\ r.artifact = m.row
          /\ IF Accepts(r, m.at)
             THEN /\ versions' = (versions \ {r}) \union {[r EXCEPT !.activated = m.at]}
                  /\ Finish(a)
             ELSE Refuse(a) /\ UNCHANGED versions
     /\ UNCHANGED <<files, drafts, audits, now>>

-----------------------------------------------------------------------------
(* A command that dies leaves its files and loses its transaction. *)
Die(a) ==
  /\ agent[a].phase \in Busy
  /\ agent' = [agent EXCEPT ![a] = Idle]
  /\ UNCHANGED <<files, rows, now>>

Tick ==
  /\ now < MaxTime
  /\ now' = now + 1
  /\ UNCHANGED <<files, rows, agent>>

Step(a) ==
  \/ \E d \in Archives : Register(a, d)
  \/ WriteStrategy(a)
  \/ LookForValidation(a)
  \/ ReplaceValidation(a)
  \/ FindDraft(a)
  \/ InsertDraft(a)
  \/ \E u \in Reports : IngestAudit(a, u)
  \/ InsertAudit(a)
  \/ \E c \in Decisions : Publish(a, c)
  \/ InsertVersion(a)
  \/ \E row \in Artifacts, version \in Versions : Activate(a, row, version)
  \/ Update(a)
  \/ Die(a)

Next == Tick \/ \E a \in Agents : Step(a)

Spec == Init /\ [][Next]_vars
-----------------------------------------------------------------------------
Commands == Archives \union Reports \union Decisions \union Activations

TypeOK ==
  /\ files \in [Artifacts -> [strategy : Artifacts \union {None},
                              validation : Validations \union {None}]]
  /\ drafts \subseteq Archives
  /\ audits \subseteq Reports
  /\ versions \subseteq VersionRows
  /\ now \in 0 .. MaxTime
  /\ agent \in [Agents -> [phase : Busy \union {"idle", "published"},
                           cmd : Commands \union {None},
                           got : VersionRows \union {None}]]

(* Every registered draft has its files in the artifact root, the strategy *)
(* with the bytes its hash is of: wherever a registration dies or two of   *)
(* them overlap, the API can serve and verify what is registered.          *)
DraftHasItsFiles ==
  \A d \in drafts :
    /\ files[d.artifact].strategy = d.artifact
    /\ files[d.artifact].validation # None

(* A version in the table has a draft, a passing audit of the very same    *)
(* artifact and a decision of an authorized approver about it: no mix of   *)
(* evidence that belongs to different drafts is ever published.            *)
VersionRestsOnItsAudit ==
  \A r \in versions :
    /\ \E d \in drafts : d.artifact = r.artifact
    /\ [artifact |-> r.artifact, task |-> r.decision.audit.task, verdict |-> "pass"] \in audits
    /\ r.decision.draft = r.artifact
    /\ r.decision.by \in Authorized

Approval(r) == [key |-> r.artifact.key, version |-> r.artifact.version,
                body |-> r.artifact.body, decision |-> r.decision]
Approvals   == {Approval(Built(c)) : c \in Decisions}

(* A publication that succeeds returns the row of its own decision, stored *)
(* in the table: of two decisions about one draft only one is published,   *)
(* and the other command is told so.                                       *)
ReturnedVersionIsOwn ==
  \A a \in Agents :
    agent[a].phase = "published" =>
      /\ agent[a].got.decision = agent[a].cmd
      /\ \E r \in versions : Approval(r) = Approval(agent[a].got)

(* The versions are a registry: they never change once approved, and of    *)
(* two activations of versions of one key only one takes effect.           *)
Active(key)  == {r \in versions : r.artifact.key = key /\ r.activated # None}
Approved     == {Approval(r) : r \in versions}
OneOf(found) == IF found = {} THEN None ELSE Approval(CHOOSE r \in found : TRUE)
ActiveOf     == [k \in Keys |-> OneOf(Active(k))]
Registry == INSTANCE StrategyRegistry WITH approved <- Approved, active <- ActiveOf
ImplementsRegistry == Registry!Spec
=============================================================================
