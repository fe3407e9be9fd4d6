------------------------ MODULE StrategyGovernance_proofs ------------------------
(***************************************************************************)
(* Proofs about StrategyGovernance, for any number of agents, archives,    *)
(* reports and decisions.                                                  *)
(*                                                                         *)
(* What a command relies on between its reads and its write was true when  *)
(* it read; it is still true when it writes because files, drafts, audits  *)
(* and versions only grow (Grown).  AgentOK says what each phase relies    *)
(* on; RowsOK says of the rows what the constraints of the tables keep.    *)
(***************************************************************************)
EXTENDS StrategyGovernance, TLAPS

Registering == {"strategy", "validation", "replace", "find", "insert draft"}

(* The stored version of a publication: its row up to the activation. *)
Stored(artifact, decision) ==
  \E r \in versions : r.artifact = artifact /\ r.decision = decision

AgentType == [phase : Busy \union {"idle", "published"}, cmd : Commands \union {None},
              got : VersionRows \union {None}]

AgentOK(w) ==
  /\ w.phase \in Registering => w.cmd \in Archives
  /\ w.phase \in Registering \ {"strategy"} =>
       files[w.cmd.artifact].strategy = w.cmd.artifact
  /\ w.phase \in {"find", "insert draft"} => files[w.cmd.artifact].validation # None
  /\ w.phase = "insert audit" => w.cmd \in Reports
  /\ w.phase = "insert version" => w.cmd \in Decisions /\ Approves(w.cmd)
  /\ w.phase = "update" => w.cmd \in Activations
  /\ w.phase = "published" =>
       /\ w.cmd \in Decisions
       /\ w.got \in VersionRows
       /\ w.got.artifact = w.cmd.draft
       /\ w.got.decision = w.cmd
       /\ Stored(w.cmd.draft, w.cmd)

AgentsOK == \A a \in Agents : AgentOK(agent[a])

(* The keys of strategy_versions: the pair of key and version, and the     *)
(* partial one of activated rows.                                          *)
RowsOK ==
  /\ \A r, s \in versions : SamePair(r.artifact, s.artifact) => r = s
  /\ \A r, s \in versions :
       r.artifact.key = s.artifact.key /\ r.activated # None /\ s.activated # None => r = s

GovernanceInv ==
  TypeOK /\ AgentsOK /\ RowsOK /\ DraftHasItsFiles /\ VersionRestsOnItsAudit

(* What a step leaves to every other agent. *)
Grown ==
  /\ \A x \in Artifacts :
       /\ files[x].strategy = x => files'[x].strategy = x
       /\ files[x].validation # None => files'[x].validation # None
  /\ drafts \subseteq drafts'
  /\ audits \subseteq audits'
  /\ \A r \in versions : \E s \in versions' : s.artifact = r.artifact /\ s.decision = r.decision

-----------------------------------------------------------------------------
(* Growth *)

LEMMA ApprovesGrown ==
  ASSUME Grown, NEW c, Approves(c)
  PROVE  Approves(c)'
BY DEF Grown, Approves, Bound, Loads, Passed

(* What an agent relies on outlives every step of the others. *)
LEMMA AgentGrown ==
  ASSUME GovernanceOK, Grown, NEW w, AgentOK(w)
  PROVE  AgentOK(w)'
<1>1. w.phase \in Registering => w.cmd \in Archives /\ w.cmd.artifact \in Artifacts
  BY DEF AgentOK, Artifacts
<1>2. w.phase = "insert version" => Approves(w.cmd)'
  BY ApprovesGrown DEF AgentOK
<1>3. w.phase = "published" => Stored(w.cmd.draft, w.cmd)'
  BY DEF AgentOK, Grown, Stored
<1>4. w.phase \in Registering \ {"strategy"} => files'[w.cmd.artifact].strategy = w.cmd.artifact
  BY <1>1 DEF AgentOK, Grown
<1>5. w.phase \in {"find", "insert draft"} => files'[w.cmd.artifact].validation # None
  BY <1>1 DEF AgentOK, Grown, Registering
<1> QED
  BY <1>2, <1>3, <1>4, <1>5 DEF AgentOK

(* A step of agent a keeps AgentsOK if its own new state is in order. *)
LEMMA OneAgent ==
  ASSUME GovernanceOK, AgentsOK, Grown, NEW a \in Agents, NEW w,
         agent \in [Agents -> AgentType],
         agent' = [agent EXCEPT ![a] = w], AgentOK(w)'
  PROVE  AgentsOK'
<1>1. ASSUME NEW b \in Agents PROVE AgentOK(agent[b])'
  <2>1. CASE b = a
    BY <2>1
  <2>2. CASE b # a
    <3>1. AgentOK(agent[b])
      BY DEF AgentsOK
    <3>2. agent'[b] = agent[b]
      BY <2>2
    <3>3. ASSUME NEW u, u = agent[b] PROVE AgentOK(u)'
      BY <3>1, <3>3, AgentGrown
    <3> QED
      BY <3>2, <3>3
  <2> QED
    BY <2>1, <2>2
<1> QED
  BY <1>1 DEF AgentsOK

(* A step that only changes one agent. *)
LEMMA QuietStep ==
  ASSUME GovernanceOK, GovernanceInv, UNCHANGED <<files, rows, now>>,
         NEW a \in Agents, NEW w \in AgentType, agent' = [agent EXCEPT ![a] = w], AgentOK(w)
  PROVE  GovernanceInv'
<1>1. Grown
  BY DEF Grown, rows
<1>2. TypeOK'
  BY DEF GovernanceInv, TypeOK, rows, AgentType
<1>3. AgentOK(w)'
  BY <1>1, AgentGrown
<1>4. AgentsOK'
  BY <1>1, <1>3, OneAgent DEF GovernanceInv, TypeOK, AgentType
<1> QED
  BY <1>2, <1>4 DEF GovernanceInv, RowsOK, DraftHasItsFiles, VersionRestsOnItsAudit, rows

LEMMA StartType ==
  ASSUME NEW p \in Busy \union {"idle", "published"}, NEW c \in Commands \union {None},
         NEW g \in VersionRows \union {None}
  PROVE  [phase |-> p, cmd |-> c, got |-> g] \in AgentType
BY DEF AgentType

(* An idle agent relies on nothing. *)
LEMMA RefuseStep ==
  ASSUME GovernanceOK, GovernanceInv, UNCHANGED <<files, rows, now>>,
         NEW a \in Agents, Refuse(a)
  PROVE  GovernanceInv'
<1> DEFINE w == [phase |-> "idle", cmd |-> None, got |-> None]
<1>1. w \in AgentType
  BY StartType
<1>2. AgentOK(w)
  BY DEF AgentOK, Registering
<1>3. agent' = [agent EXCEPT ![a] = w]
  BY DEF Refuse, Start
<1> HIDE DEF w
<1> QED
  BY <1>1, <1>2, <1>3, QuietStep

(* An agent that goes on to another phase with the same command. *)
LEMMA GotoStep ==
  ASSUME GovernanceOK, GovernanceInv, UNCHANGED <<files, rows, now>>,
         NEW a \in Agents, NEW p \in Busy, Goto(a, p),
         AgentOK([agent[a] EXCEPT !.phase = p])
  PROVE  GovernanceInv'
<1>1. PICK w : w = [agent[a] EXCEPT !.phase = p]
  OBVIOUS
<1>2. w \in AgentType
  BY <1>1 DEF GovernanceInv, TypeOK, AgentType
<1>3. agent' = [agent EXCEPT ![a] = w]
  BY <1>1 DEF Goto, GovernanceInv, TypeOK
<1> QED
  BY <1>1, <1>2, <1>3, QuietStep

(* An agent that begins a transaction or a file with a command. *)
LEMMA StartStep ==
  ASSUME GovernanceOK, GovernanceInv, UNCHANGED <<files, rows, now>>,
         NEW a \in Agents, NEW p \in Busy, NEW c \in Commands, Start(a, p, c),
         AgentOK([phase |-> p, cmd |-> c, got |-> None])
  PROVE  GovernanceInv'
<1>1. PICK w : w = [phase |-> p, cmd |-> c, got |-> None]
  OBVIOUS
<1>2. w \in AgentType
  BY <1>1, StartType
<1>3. agent' = [agent EXCEPT ![a] = w]
  BY <1>1 DEF Start
<1> QED
  BY <1>1, <1>2, <1>3, QuietStep

(* A writer: its own new state is in order, and it only adds. *)
LEMMA WriterStep ==
  ASSUME GovernanceOK, GovernanceInv, Grown, NEW a \in Agents, NEW w \in AgentType,
         agent' = [agent EXCEPT ![a] = w], AgentOK(w)',
         files' \in [Artifacts -> [strategy : Artifacts \union {None},
                                   validation : Validations \union {None}]],
         drafts' \subseteq Archives, audits' \subseteq Reports, versions' \subseteq VersionRows,
         now' = now, RowsOK', DraftHasItsFiles', VersionRestsOnItsAudit'
  PROVE  GovernanceInv'
<1>1. TypeOK'
  BY DEF GovernanceInv, TypeOK, AgentType
<1>2. AgentsOK'
  BY OneAgent DEF GovernanceInv, TypeOK, AgentType
<1> QED
  BY <1>1, <1>2 DEF GovernanceInv

(* The state in which a command that has nothing to return ends. *)
LEMMA IdleOK ==
  ASSUME NEW w, w = [phase |-> "idle", cmd |-> None, got |-> None]
  PROVE  w \in AgentType /\ AgentOK(w) /\ AgentOK(w)'
BY StartType DEF AgentOK, Registering

-----------------------------------------------------------------------------
(* Registration *)

LEMMA GovernanceInit ==
  ASSUME GovernanceOK, Init
  PROVE  GovernanceInv
<1>1. TypeOK
  BY DEF Init, TypeOK, GovernanceOK, Idle
<1>2. AgentsOK
  BY DEF Init, AgentsOK, AgentOK, Idle, Registering
<1>3. RowsOK /\ DraftHasItsFiles /\ VersionRestsOnItsAudit
  BY DEF Init, RowsOK, DraftHasItsFiles, VersionRestsOnItsAudit
<1> QED
  BY <1>1, <1>2, <1>3 DEF GovernanceInv

LEMMA RegisterStep ==
  ASSUME GovernanceOK, GovernanceInv, NEW a \in Agents, NEW d \in Archives, Register(a, d)
  PROVE  GovernanceInv'
<1>1. AgentOK([phase |-> "strategy", cmd |-> d, got |-> None])
  BY DEF AgentOK, Registering
<1> QED
  BY <1>1, StartStep DEF Register, Busy, Commands

(* The command of an agent that registers. *)
LEMMA Registration ==
  ASSUME GovernanceOK, GovernanceInv, NEW a \in Agents, agent[a].phase \in Registering
  PROVE  /\ AgentOK(agent[a])
         /\ agent[a].cmd \in Archives
         /\ agent[a].cmd.artifact \in Artifacts
         /\ agent[a].cmd.validation \in Validations
         /\ agent[a] \in AgentType
BY DEF GovernanceInv, AgentsOK, AgentOK, Artifacts, Validations, TypeOK, AgentType

LEMMA WriteStrategyStep ==
  ASSUME GovernanceOK, GovernanceInv, NEW a \in Agents, WriteStrategy(a)
  PROVE  GovernanceInv'
<1>1. PICK w : w = [agent[a] EXCEPT !.phase = "validation"]
  OBVIOUS
<1>2. PICK x : x = agent[a].cmd.artifact
  OBVIOUS
<1>3. x \in Artifacts /\ w.cmd = agent[a].cmd /\ w.cmd \in Archives /\ w.phase = "validation"
  BY <1>1, <1>2, Registration DEF WriteStrategy, Registering, AgentType
<1>4. agent' = [agent EXCEPT ![a] = w] /\ w \in AgentType
  BY <1>1, Registration DEF WriteStrategy, Goto, GovernanceInv, TypeOK, AgentType, Busy, Registering
<1>5. files' = [files EXCEPT ![x].strategy = x] /\ UNCHANGED <<rows, now>>
  BY <1>2 DEF WriteStrategy
<1>6. files' \in [Artifacts -> [strategy : Artifacts \union {None},
                                validation : Validations \union {None}]]
  BY <1>3, <1>5 DEF GovernanceInv, TypeOK
<1>7. Grown
  BY <1>3, <1>5 DEF Grown, GovernanceInv, TypeOK, rows
<1>8. AgentOK(w)'
  BY <1>2, <1>3, <1>5 DEF AgentOK, Registering, GovernanceInv, TypeOK
<1>9. DraftHasItsFiles'
  BY <1>5, <1>7 DEF DraftHasItsFiles, GovernanceInv, Grown, rows, Artifacts, TypeOK
<1>10. RowsOK' /\ VersionRestsOnItsAudit'
  BY <1>5 DEF RowsOK, VersionRestsOnItsAudit, GovernanceInv, rows
<1> QED
  BY <1>4, <1>5, <1>6, <1>7, <1>8, <1>9, <1>10, WriterStep DEF GovernanceInv, TypeOK, rows

LEMMA LookForValidationStep ==
  ASSUME GovernanceOK, GovernanceInv, NEW a \in Agents, LookForValidation(a)
  PROVE  GovernanceInv'
<1>1. AgentOK(agent[a]) /\ agent[a] \in AgentType /\ agent[a].cmd \in Archives
  BY Registration DEF LookForValidation, Registering
<1>2. agent[a].phase = "validation" /\ UNCHANGED <<files, rows, now>>
  BY DEF LookForValidation
<1>3. CASE Goto(a, "replace")
  <2>1. AgentOK([agent[a] EXCEPT !.phase = "replace"])
    BY <1>1, <1>2 DEF AgentOK, Registering, AgentType
  <2> QED
    BY <1>2, <1>3, <2>1, GotoStep DEF Busy
<1>4. CASE files[agent[a].cmd.artifact].validation = agent[a].cmd.validation /\ Goto(a, "find")
  <2>1. files[agent[a].cmd.artifact].validation # None
    BY <1>1, <1>4 DEF Validations, GovernanceOK
  <2>2. AgentOK([agent[a] EXCEPT !.phase = "find"])
    BY <1>1, <1>2, <2>1 DEF AgentOK, Registering, AgentType
  <2> QED
    BY <1>2, <1>4, <2>2, GotoStep DEF Busy
<1>5. CASE Refuse(a)
  BY <1>2, <1>5, RefuseStep
<1> QED
  BY <1>3, <1>4, <1>5 DEF LookForValidation

LEMMA ReplaceValidationStep ==
  ASSUME GovernanceOK, GovernanceInv, NEW a \in Agents, ReplaceValidation(a)
  PROVE  GovernanceInv'
<1>1. PICK w : w = [agent[a] EXCEPT !.phase = "find"]
  OBVIOUS
<1>2. PICK x : x = agent[a].cmd.artifact
  OBVIOUS
<1>3. PICK v : v = agent[a].cmd.validation
  OBVIOUS
<1>4. /\ x \in Artifacts /\ v \in Validations /\ v # None
      /\ w.cmd = agent[a].cmd /\ w.cmd \in Archives /\ w.phase = "find"
      /\ files[x].strategy = x
  BY <1>1, <1>2, <1>3, Registration
     DEF ReplaceValidation, Registering, AgentType, AgentOK, GovernanceOK
<1>5. agent' = [agent EXCEPT ![a] = w] /\ w \in AgentType
  BY <1>1, Registration
     DEF ReplaceValidation, Goto, GovernanceInv, TypeOK, AgentType, Busy, Registering
<1>6. files' = [files EXCEPT ![x].validation = v] /\ UNCHANGED <<rows, now>>
  BY <1>2, <1>3 DEF ReplaceValidation
<1>7. files' \in [Artifacts -> [strategy : Artifacts \union {None},
                                validation : Validations \union {None}]]
  BY <1>4, <1>6 DEF GovernanceInv, TypeOK
<1>8. Grown
  BY <1>4, <1>6 DEF Grown, GovernanceInv, TypeOK, rows
<1>9. AgentOK(w)'
  BY <1>2, <1>4, <1>6 DEF AgentOK, Registering, GovernanceInv, TypeOK
<1>10. DraftHasItsFiles'
  BY <1>6, <1>8 DEF DraftHasItsFiles, GovernanceInv, Grown, rows, Artifacts, TypeOK
<1>11. RowsOK' /\ VersionRestsOnItsAudit'
  BY <1>6 DEF RowsOK, VersionRestsOnItsAudit, GovernanceInv, rows
<1> QED
  BY <1>5, <1>6, <1>7, <1>8, <1>9, <1>10, <1>11, WriterStep DEF GovernanceInv, TypeOK, rows

LEMMA FindDraftStep ==
  ASSUME GovernanceOK, GovernanceInv, NEW a \in Agents, FindDraft(a)
  PROVE  GovernanceInv'
<1>1. AgentOK(agent[a]) /\ agent[a] \in AgentType
  BY Registration DEF FindDraft, Registering
<1>2. agent[a].phase = "find" /\ UNCHANGED <<files, rows, now>>
  BY DEF FindDraft
<1>3. CASE Goto(a, "insert draft")
  <2>1. AgentOK([agent[a] EXCEPT !.phase = "insert draft"])
    BY <1>1, <1>2 DEF AgentOK, Registering, AgentType
  <2> QED
    BY <1>2, <1>3, <2>1, GotoStep DEF Busy
<1>4. CASE Refuse(a)
  BY <1>2, <1>4, RefuseStep
<1> QED
  BY <1>3, <1>4 DEF FindDraft, Finish, Refuse

LEMMA InsertDraftStep ==
  ASSUME GovernanceOK, GovernanceInv, NEW a \in Agents, InsertDraft(a)
  PROVE  GovernanceInv'
<1>1. CASE Refuse(a) /\ UNCHANGED drafts
  BY <1>1, RefuseStep DEF InsertDraft, rows
<1>2. CASE drafts' = drafts \union {agent[a].cmd} /\ Finish(a)
  <2>1. PICK w : w = [phase |-> "idle", cmd |-> None, got |-> None]
    OBVIOUS
  <2>2. PICK d : d = agent[a].cmd
    OBVIOUS
  <2>3. /\ d \in Archives
        /\ files[d.artifact].strategy = d.artifact
        /\ files[d.artifact].validation # None
    BY <2>2, Registration DEF InsertDraft, Registering, AgentOK
  <2>4. agent' = [agent EXCEPT ![a] = w]
    BY <1>2, <2>1 DEF Finish, Start
  <2>5. drafts' = drafts \union {d} /\ UNCHANGED <<files, audits, versions, now>>
    BY <1>2, <2>2 DEF InsertDraft
  <2>6. Grown
    BY <2>5 DEF Grown
  <2>7. DraftHasItsFiles'
    BY <2>3, <2>5 DEF DraftHasItsFiles, GovernanceInv
  <2>8. RowsOK' /\ VersionRestsOnItsAudit'
    BY <2>5 DEF RowsOK, VersionRestsOnItsAudit, GovernanceInv
  <2> QED
    BY <2>1, <2>3, <2>4, <2>5, <2>6, <2>7, <2>8, IdleOK, WriterStep DEF GovernanceInv, TypeOK
<1> QED
  BY <1>1, <1>2 DEF InsertDraft

-----------------------------------------------------------------------------
(* Audits *)

LEMMA IngestAuditStep ==
  ASSUME GovernanceOK, GovernanceInv, NEW a \in Agents, NEW u \in Reports, IngestAudit(a, u)
  PROVE  GovernanceInv'
<1>1. CASE Refuse(a)
  BY <1>1, RefuseStep DEF IngestAudit
<1>2. CASE Start(a, "insert audit", u)
  <2>1. AgentOK([phase |-> "insert audit", cmd |-> u, got |-> None])
    BY DEF AgentOK, Registering
  <2> QED
    BY <1>2, <2>1, StartStep DEF IngestAudit, Busy, Commands
<1> QED
  BY <1>1, <1>2 DEF IngestAudit, Finish, Refuse

LEMMA InsertAuditStep ==
  ASSUME GovernanceOK, GovernanceInv, NEW a \in Agents, InsertAudit(a)
  PROVE  GovernanceInv'
<1>1. CASE Refuse(a) /\ UNCHANGED audits
  BY <1>1, RefuseStep DEF InsertAudit, rows
<1>2. CASE audits' = audits \union {agent[a].cmd} /\ Finish(a)
  <2>1. PICK w : w = [phase |-> "idle", cmd |-> None, got |-> None]
    OBVIOUS
  <2>2. PICK u : u = agent[a].cmd
    OBVIOUS
  <2>3. u \in Reports
    BY <2>2 DEF InsertAudit, AgentOK, AgentsOK, GovernanceInv
  <2>4. agent' = [agent EXCEPT ![a] = w]
    BY <1>2, <2>1 DEF Finish, Start
  <2>5. audits' = audits \union {u} /\ UNCHANGED <<files, drafts, versions, now>>
    BY <1>2, <2>2 DEF InsertAudit
  <2>6. Grown
    BY <2>5 DEF Grown
  <2>7. RowsOK' /\ DraftHasItsFiles' /\ VersionRestsOnItsAudit'
    BY <2>5 DEF RowsOK, DraftHasItsFiles, VersionRestsOnItsAudit, GovernanceInv
  <2> QED
    BY <2>1, <2>3, <2>4, <2>5, <2>6, <2>7, IdleOK, WriterStep DEF GovernanceInv, TypeOK
<1> QED
  BY <1>1, <1>2 DEF InsertAudit

-----------------------------------------------------------------------------
(* Versions *)

LEMMA PublishStep ==
  ASSUME GovernanceOK, GovernanceInv, NEW a \in Agents, NEW c \in Decisions, Publish(a, c)
  PROVE  GovernanceInv'
<1>1. UNCHANGED <<files, rows, now>>
  BY DEF Publish
<1>2. CASE Refuse(a)
  BY <1>1, <1>2, RefuseStep
<1>3. CASE Approves(c) /\ Start(a, "insert version", c)
  <2>1. AgentOK([phase |-> "insert version", cmd |-> c, got |-> None])
    BY <1>3 DEF AgentOK, Registering
  <2> QED
    BY <1>1, <1>3, <2>1, StartStep DEF Busy, Commands
<1>4. ASSUME NEW r \in versions, SamePayload(r, c), Return(a, c, r)
      PROVE  GovernanceInv'
  <2>1. PICK w : w = [phase |-> "published", cmd |-> c, got |-> r]
    OBVIOUS
  <2>2. r \in VersionRows
    BY DEF GovernanceInv, TypeOK
  <2>3. w \in AgentType
    BY <2>1, <2>2, StartType DEF Commands
  <2>4. AgentOK(w)
    BY <1>4, <2>1, <2>2 DEF AgentOK, Registering, SamePayload, Stored
  <2>5. agent' = [agent EXCEPT ![a] = w]
    BY <1>4, <2>1 DEF Return
  <2> QED
    BY <1>1, <2>3, <2>4, <2>5, QuietStep
<1> QED
  BY <1>2, <1>3, <1>4 DEF Publish

(* The evidence of a decision that passes every gate: one audit row of the *)
(* draft itself.                                                           *)
LEMMA ApprovedEvidence ==
  ASSUME GovernanceOK, TypeOK, NEW c \in Decisions, Approves(c)
  PROVE  /\ \E d \in drafts : d.artifact = c.draft
         /\ [artifact |-> c.draft, task |-> c.audit.task, verdict |-> "pass"] \in audits
         /\ c.by \in Authorized
<1>1. PICK u \in audits : SameTask(u, c.audit) /\ u.verdict = "pass"
  BY DEF Approves, Passed
<1>2. u \in [artifact : Artifacts, task : Tasks, verdict : Verdicts]
  BY DEF TypeOK, GovernanceOK
<1>3. u.artifact = c.draft /\ u.task = c.audit.task
  BY <1>1 DEF SameTask, Approves, Bound
<1>4. u = [artifact |-> c.draft, task |-> c.audit.task, verdict |-> "pass"]
  BY <1>1, <1>2, <1>3
<1> QED
  BY <1>4 DEF Approves, Bound, Loads

(* What InsertVersion does when the key is free. *)
InsertsVersion(a, c) ==
  /\ c \in Decisions
  /\ Approves(c)
  /\ \A r \in versions : ~SamePair(r.artifact, c.draft)
  /\ versions' = versions \union {Built(c)}
  /\ Return(a, c, Built(c))
  /\ UNCHANGED <<files, drafts, audits, now>>

LEMMA InsertVersionCases ==
  ASSUME GovernanceInv, NEW a \in Agents, InsertVersion(a)
  PROVE  \/ Refuse(a) /\ UNCHANGED <<files, rows, now>>
         \/ InsertsVersion(a, agent[a].cmd)
BY DEF InsertVersion, InsertsVersion, rows, GovernanceInv, AgentsOK, AgentOK

LEMMA InsertVersionStep ==
  ASSUME GovernanceOK, GovernanceInv, NEW a \in Agents, InsertVersion(a)
  PROVE  GovernanceInv'
<1>1. CASE Refuse(a) /\ UNCHANGED <<files, rows, now>>
  BY <1>1, RefuseStep
<1>2. ASSUME NEW c, InsertsVersion(a, c)
      PROVE  GovernanceInv'
  <2>1. PICK r : r = Built(c)
    OBVIOUS
  <2>2. PICK w : w = [phase |-> "published", cmd |-> c, got |-> r]
    OBVIOUS
  <2>3. /\ c \in Decisions
        /\ Approves(c)
        /\ \A s \in versions : ~SamePair(s.artifact, c.draft)
        /\ versions' = versions \union {r}
        /\ UNCHANGED <<files, drafts, audits, now>>
    BY <1>2, <2>1 DEF InsertsVersion
  <2>4. agent' = [agent EXCEPT ![a] = w]
    BY <1>2, <2>1, <2>2 DEF InsertsVersion, Return
  <2>5. r.artifact = c.draft /\ r.decision = c /\ r.activated = None /\ r \in VersionRows
    BY <2>1, <2>3 DEF Built, VersionRows, GovernanceOK
  <2>6. w \in AgentType
    BY <2>2, <2>3, <2>5, StartType DEF Commands
  <2>7. Grown
    BY <2>3 DEF Grown
  <2>8. AgentOK(w)'
    BY <2>2, <2>3, <2>5 DEF AgentOK, Registering, Stored
  <2>9. RowsOK'
    <3>1. \A s, t \in versions' : SamePair(s.artifact, t.artifact) => s = t
      BY <2>3, <2>5 DEF GovernanceInv, RowsOK, SamePair
    <3>2. \A s, t \in versions' :
            s.artifact.key = t.artifact.key /\ s.activated # None /\ t.activated # None => s = t
      BY <2>3, <2>5 DEF GovernanceInv, RowsOK
    <3> QED
      BY <3>1, <3>2 DEF RowsOK
  <2>10. DraftHasItsFiles'
    BY <2>3 DEF DraftHasItsFiles, GovernanceInv
  <2>11. VersionRestsOnItsAudit'
    BY <2>3, <2>5, ApprovedEvidence DEF VersionRestsOnItsAudit, GovernanceInv
  <2> QED
    BY <2>3, <2>4, <2>5, <2>6, <2>7, <2>8, <2>9, <2>10, <2>11, WriterStep
       DEF GovernanceInv, TypeOK
<1> QED
  BY <1>1, <1>2, InsertVersionCases

LEMMA ActivateStep ==
  ASSUME GovernanceOK, GovernanceInv, NEW a \in Agents, NEW row \in Artifacts,
         NEW version \in Versions, Activate(a, row, version)
  PROVE  GovernanceInv'
<1>1. PICK m : m = [row |-> row, version |-> version, at |-> now]
  OBVIOUS
<1>2. m \in Activations
  BY <1>1 DEF Activations, GovernanceInv, TypeOK
<1>3. CASE Refuse(a)
  BY <1>3, RefuseStep DEF Activate
<1>4. CASE Start(a, "update", m)
  <2>1. AgentOK([phase |-> "update", cmd |-> m, got |-> None])
    BY <1>2 DEF AgentOK, Registering
  <2> QED
    BY <1>2, <1>4, <2>1, StartStep DEF Activate, Busy, Commands
<1> QED
  BY <1>1, <1>3, <1>4 DEF Activate

(* What Update does to a row that it may activate. *)
Activates(a, r, t) ==
  /\ r \in versions
  /\ t \in 0 .. MaxTime
  /\ r.activated = None
  /\ ~KeyActive(r.artifact.key)
  /\ versions' = (versions \ {r}) \union {[r EXCEPT !.activated = t]}
  /\ Finish(a)
  /\ UNCHANGED <<files, drafts, audits, now>>

LEMMA UpdateCases ==
  ASSUME GovernanceInv, NEW a \in Agents, Update(a)
  PROVE  \/ Refuse(a) /\ UNCHANGED <<files, rows, now>>
         \/ \E r \in versions : Activates(a, r, agent[a].cmd.at)
<1>1. agent[a].cmd \in Activations
  BY DEF Update, GovernanceInv, AgentsOK, AgentOK
<1>2. agent[a].cmd.at \in 0 .. MaxTime
  BY <1>1 DEF Activations
<1> QED
  BY <1>2 DEF Update, Activates, Accepts, rows

LEMMA UpdateStep ==
  ASSUME GovernanceOK, GovernanceInv, NEW a \in Agents, Update(a)
  PROVE  GovernanceInv'
<1>1. CASE Refuse(a) /\ UNCHANGED <<files, rows, now>>
  BY <1>1, RefuseStep
<1>2. ASSUME NEW r, NEW t, Activates(a, r, t)
      PROVE  GovernanceInv'
  <2>1. PICK w : w = [phase |-> "idle", cmd |-> None, got |-> None]
    OBVIOUS
  <2>2. PICK s : s = [r EXCEPT !.activated = t]
    OBVIOUS
  <2>3. /\ r \in versions /\ r \in VersionRows /\ t \in 0 .. MaxTime
        /\ r.activated = None
        /\ ~KeyActive(r.artifact.key)
        /\ versions' = (versions \ {r}) \union {s}
        /\ UNCHANGED <<files, drafts, audits, now>>
    BY <1>2, <2>2 DEF Activates, GovernanceInv, TypeOK
  <2>4. agent' = [agent EXCEPT ![a] = w]
    BY <1>2, <2>1 DEF Activates, Finish, Start
  <2>5. /\ s.artifact = r.artifact /\ s.decision = r.decision /\ s.activated = t
        /\ s \in VersionRows
    BY <2>2, <2>3 DEF VersionRows
  <2>6. Grown
    BY <2>3, <2>5 DEF Grown
  <2>7. RowsOK'
    <3>1. \A p, q \in versions' : SamePair(p.artifact, q.artifact) => p = q
      BY <2>3, <2>5 DEF GovernanceInv, RowsOK, SamePair
    <3>2. \A p, q \in versions' :
            p.artifact.key = q.artifact.key /\ p.activated # None /\ q.activated # None => p = q
      BY <2>3, <2>5 DEF GovernanceInv, RowsOK, KeyActive
    <3> QED
      BY <3>1, <3>2 DEF RowsOK
  <2>8. DraftHasItsFiles'
    BY <2>3 DEF DraftHasItsFiles, GovernanceInv
  <2>9. VersionRestsOnItsAudit'
    BY <2>3, <2>5 DEF VersionRestsOnItsAudit, GovernanceInv
  <2> QED
    BY <2>1, <2>3, <2>4, <2>5, <2>6, <2>7, <2>8, <2>9, IdleOK, WriterStep
       DEF GovernanceInv, TypeOK
<1> QED
  BY <1>1, <1>2, UpdateCases

LEMMA DieStep ==
  ASSUME GovernanceOK, GovernanceInv, NEW a \in Agents, Die(a)
  PROVE  GovernanceInv'
BY RefuseStep DEF Die, Idle, Refuse, Start

LEMMA TickStep ==
  ASSUME GovernanceOK, GovernanceInv, Tick
  PROVE  GovernanceInv'
<1>1. now' \in 0 .. MaxTime
  BY DEF Tick, GovernanceInv, TypeOK, GovernanceOK
<1>2. UNCHANGED <<files, rows, agent>>
  BY DEF Tick
<1>3. TypeOK'
  BY <1>1, <1>2 DEF GovernanceInv, TypeOK, rows
<1>4. AgentsOK'
  BY <1>2 DEF GovernanceInv, AgentsOK, AgentOK, Stored, Approves, Bound, Loads, Passed, rows
<1> QED
  BY <1>2, <1>3, <1>4
     DEF GovernanceInv, RowsOK, DraftHasItsFiles, VersionRestsOnItsAudit, rows

LEMMA GovernanceStep ==
  ASSUME GovernanceOK, GovernanceInv, [Next]_vars
  PROVE  GovernanceInv'
<1>1. CASE UNCHANGED vars
  BY <1>1 DEF vars, rows, GovernanceInv, TypeOK, AgentsOK, AgentOK, Stored, Approves, Bound,
     Loads, Passed, RowsOK, DraftHasItsFiles, VersionRestsOnItsAudit
<1>2. CASE Tick
  BY <1>2, TickStep
<1>3. ASSUME NEW a \in Agents, Step(a)
      PROVE  GovernanceInv'
  BY <1>3, RegisterStep, WriteStrategyStep, LookForValidationStep, ReplaceValidationStep,
     FindDraftStep, InsertDraftStep, IngestAuditStep, InsertAuditStep, PublishStep,
     InsertVersionStep, ActivateStep, UpdateStep, DieStep DEF Step
<1> QED
  BY <1>1, <1>2, <1>3 DEF Next

-----------------------------------------------------------------------------
(* Refinement: the two steps that write versions are Approve and Activate. *)

RegistryStutter == UNCHANGED <<Approved, ActiveOf>>

LEMMA QuietRegistry ==
  ASSUME UNCHANGED versions
  PROVE  RegistryStutter
BY DEF RegistryStutter, Approved, ActiveOf, Active

LEMMA InsertedIsApproved ==
  ASSUME GovernanceOK, GovernanceInv, NEW a, NEW c, InsertsVersion(a, c)
  PROVE  Registry!Next
<1>1. PICK r : r = Built(c)
  OBVIOUS
<1>2. PICK v : v = Approval(r)
  OBVIOUS
<1>3. /\ c \in Decisions
      /\ \A s \in versions : ~SamePair(s.artifact, c.draft)
      /\ versions' = versions \union {r}
  BY <1>1 DEF InsertsVersion
<1>4. r.artifact = c.draft /\ r.activated = None
  BY <1>1 DEF Built
<1>5. v \in Approvals
  BY <1>1, <1>2, <1>3 DEF Approvals
<1>6. Approved' = Approved \union {v}
  BY <1>2, <1>3 DEF Approved
<1>7. \A w \in Approved : <<w.key, w.version>> # <<v.key, v.version>>
  BY <1>2, <1>3, <1>4 DEF Approved, Approval, SamePair
<1>8. \A k \in Keys : Active(k)' = Active(k)
  BY <1>3, <1>4 DEF Active
<1>9. UNCHANGED ActiveOf
  BY <1>8 DEF ActiveOf
<1> QED
  BY <1>5, <1>6, <1>7, <1>9 DEF Registry!Next, Registry!Approve

(* The only active row of its key is the one CHOOSE finds. *)
LEMMA UpdatedIsActivated ==
  ASSUME GovernanceOK, GovernanceInv, NEW a, NEW r, NEW t, Activates(a, r, t)
  PROVE  Registry!Next
<1>1. PICK s : s = [r EXCEPT !.activated = t]
  OBVIOUS
<1>2. PICK v : v = Approval(r)
  OBVIOUS
<1>3. PICK k : k = r.artifact.key
  OBVIOUS
<1>4. /\ r \in versions /\ r \in VersionRows /\ t \in 0 .. MaxTime
      /\ r.activated = None
      /\ ~KeyActive(k)
      /\ versions' = (versions \ {r}) \union {s}
  BY <1>1, <1>3 DEF Activates, GovernanceInv, TypeOK
<1>5. s.artifact = r.artifact /\ s.decision = r.decision /\ s.activated = t
  BY <1>1, <1>4 DEF VersionRows
<1>6. t # None
  BY <1>4 DEF GovernanceOK
<1>7. v \in Approved /\ v = Approval(s)
  BY <1>2, <1>4, <1>5 DEF Approved, Approval
<1>8. v \in Approvals /\ v.key = k /\ k \in Keys
  <2>1. r.decision \in Decisions /\ r.decision.draft = r.artifact /\ r.artifact \in Artifacts
    BY <1>4 DEF VersionRows, GovernanceInv, VersionRestsOnItsAudit
  <2>2. v = Approval(Built(r.decision))
    BY <1>2, <2>1 DEF Approval, Built
  <2> QED
    BY <1>2, <1>3, <2>1, <2>2 DEF Approvals, Approval, Keys
<1>9. UNCHANGED Approved
  <2>1. Approved' \subseteq Approved
    BY <1>4, <1>7 DEF Approved
  <2>2. Approved \subseteq Approved'
    <3>1. ASSUME NEW q \in versions PROVE Approval(q) \in Approved'
      <4>1. CASE q = r
        <5>1. Approval(q) = Approval(s)
          BY <1>2, <1>7, <4>1
        <5> QED
          BY <1>4, <5>1 DEF Approved
      <4>2. CASE q # r
        BY <1>4, <4>2 DEF Approved
      <4> QED
        BY <4>1, <4>2
    <3> QED
      BY <3>1 DEF Approved
  <2> QED
    BY <2>1, <2>2
<1>10. Active(k) = {} /\ Active(k)' = {s}
  BY <1>3, <1>4, <1>5, <1>6 DEF Active, KeyActive
<1>11. \A j \in Keys : j # k => Active(j)' = Active(j)
  BY <1>3, <1>4, <1>5 DEF Active
<1>12. ActiveOf[k] = None
  BY <1>8, <1>10 DEF ActiveOf, OneOf
<1>13. ActiveOf' = [ActiveOf EXCEPT ![k] = v]
  <2>1. ActiveOf'[k] = v
    <3>1. ActiveOf'[k] = OneOf({s})
      BY <1>8, <1>10 DEF ActiveOf
    <3>2. (CHOOSE q \in {s} : TRUE) = s
      OBVIOUS
    <3> QED
      BY <1>7, <3>1, <3>2 DEF OneOf
  <2>2. \A j \in Keys : j # k => ActiveOf'[j] = ActiveOf[j]
    BY <1>11 DEF ActiveOf
  <2>3. DOMAIN ActiveOf = Keys /\ DOMAIN ActiveOf' = Keys
    BY DEF ActiveOf
  <2>4. ActiveOf' = [j \in Keys |-> ActiveOf'[j]] /\ ActiveOf = [j \in Keys |-> ActiveOf[j]]
    BY DEF ActiveOf
  <2> QED
    BY <1>8, <2>1, <2>2, <2>3, <2>4
<1> QED
  BY <1>7, <1>8, <1>9, <1>12, <1>13 DEF Registry!Next, Registry!Activate

LEMMA RegistryStep ==
  ASSUME GovernanceOK, GovernanceInv, [Next]_vars
  PROVE  Registry!Next \/ RegistryStutter
<1>1. CASE UNCHANGED versions
  BY <1>1, QuietRegistry
<1>2. ASSUME NEW a \in Agents, InsertVersion(a)
      PROVE  Registry!Next \/ RegistryStutter
  BY <1>2, InsertVersionCases, InsertedIsApproved, QuietRegistry DEF rows
<1>3. ASSUME NEW a \in Agents, Update(a)
      PROVE  Registry!Next \/ RegistryStutter
  BY <1>3, UpdateCases, UpdatedIsActivated, QuietRegistry DEF rows
<1>4. ASSUME NEW a \in Agents, Step(a), ~InsertVersion(a), ~Update(a)
      PROVE  UNCHANGED versions
  BY <1>4 DEF Step, Register, WriteStrategy, LookForValidation, ReplaceValidation, FindDraft,
     InsertDraft, IngestAudit, InsertAudit, Publish, Activate, Die, rows
<1> QED
  BY <1>1, <1>2, <1>3, <1>4 DEF Next, Tick, vars, rows

-----------------------------------------------------------------------------
(* The theorems *)

(* The inductive invariant holds in every reachable state. *)
THEOREM GovernanceAlways == Spec => []GovernanceInv
<1>1. Init => GovernanceInv
  BY GovernanceOK, GovernanceInit
<1>2. GovernanceInv /\ [Next]_vars => GovernanceInv'
  BY GovernanceOK, GovernanceStep
<1> QED
  BY <1>1, <1>2, PTL DEF Spec

(* Rows and commands are only ever built from archives, reports and        *)
(* decisions; an activation time is one the clock has shown.               *)
THEOREM GovernanceTypeCorrect == Spec => []TypeOK
BY GovernanceAlways, PTL DEF GovernanceInv

(* A registered draft has its files: they are written before the row, and  *)
(* what one registration saw or wrote no other takes away.                 *)
THEOREM GovernanceDraftHasItsFiles == Spec => []DraftHasItsFiles
BY GovernanceAlways, PTL DEF GovernanceInv

(* No version without a passing audit of the same artifact and a decision  *)
(* of an authorized approver, although both were read before the insert.   *)
THEOREM GovernanceVersionRestsOnItsAudit == Spec => []VersionRestsOnItsAudit
BY GovernanceAlways, PTL DEF GovernanceInv

(* What a publication returns is the stored version of its own decision,   *)
(* also after another command has activated it.                            *)
THEOREM GovernanceReturnedVersionIsOwn == Spec => []ReturnedVersionIsOwn
<1>1. GovernanceInv => ReturnedVersionIsOwn
  BY DEF GovernanceInv, AgentsOK, AgentOK, Stored, ReturnedVersionIsOwn, Approval
<1> QED
  BY <1>1, GovernanceAlways, PTL

(* The versions implement StrategyRegistry: what is approved stays as it   *)
(* is, and the first activation of a key is its last.                      *)
THEOREM GovernanceImplementsRegistry == Spec => ImplementsRegistry
<1>1. Init => Registry!Init
  BY DEF Init, Registry!Init, Approved, ActiveOf, OneOf, Active
<1>2. GovernanceInv /\ [Next]_vars => [Registry!Next]_(Registry!vars)
  BY GovernanceOK, RegistryStep DEF RegistryStutter, Registry!vars
<1> QED
  BY <1>1, <1>2, GovernanceAlways, PTL DEF Spec, ImplementsRegistry, Registry!Spec
=============================================================================
