------------------------ MODULE MCStrategyGovernance --------------------------
(* An instance of StrategyGovernance for TLC: two versions of one strategy *)
(* and a rival proposal of the first; for the first two archives with      *)
(* different validations, a passing and a rejecting report of one task and *)
(* decisions of two approvers; and decisions that mix the evidence of two  *)
(* drafts or are signed by nobody who may.                                 *)
EXTENDS StrategyGovernance, TLC

CONSTANTS a1, a2

Proposal(version, body) == [key |-> "ranking", version |-> version, body |-> body]

old   == Proposal("2.0.0", "old")
new   == Proposal("2.1.0", "new")
rival == Proposal("2.0.0", "rival")

Archive(x, v)   == [artifact |-> x, validation |-> v]
Report(x, v)    == [artifact |-> x, task |-> "audit", verdict |-> v]
Decision(x, by) == [draft |-> x, artifact |-> x, by |-> by, at |-> 1,
                    audit |-> [artifact |-> x, task |-> "audit"]]

AllArchives  == {Archive(old, "first"), Archive(old, "second"),
                 Archive(new, "first"), Archive(rival, "first")}
AllReports   == {Report(old, "pass"), Report(old, "reject"), Report(new, "pass")}
AllDecisions == {Decision(old, "cia"), Decision(old, "deputy"), Decision(new, "cia"),
                 Decision(old, "other"),
                 [Decision(old, "cia") EXCEPT !.artifact = new],
                 [Decision(old, "cia") EXCEPT !.audit.artifact = new]}

AgentSymmetry == Permutations(Agents)
=============================================================================
