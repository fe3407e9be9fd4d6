SPECIFICATION Spec
CONSTANTS
  q1 = q1
  q2 = q2
  None = None
  Observations <- TwoAgainstOne
  Keys = {"k", "l"}
  Cases <- OneCase
  Importers = {"i1"}
  Workers = {q1, q2}
  Page = 2
  FreshDays = 0
  MaxDay = 1
  MaxCases = 1
SYMMETRY Interchangeable
INVARIANTS
  NoContradiction
  AdmissionKeepsAudit
  EvidenceOnce
\* Requests about observations that are all decided change nothing.
CHECK_DEADLOCK FALSE
