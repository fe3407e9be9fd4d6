SPECIFICATION Spec
CONSTANTS
  c1 = c1
  k1 = k1
  k2 = k2
  w1 = w1
  a1 = a1
  a2 = a2
  s1 = s1
  s2 = s2
  None = None
  Cases = {c1}
  Keys = {k1, k2}
  CaseOf <- OneCase
  Clients = {a1, a2}
  Workers = {w1}
  Serves <- ServesSome
  Sessions = {s1, s2}
  MaxRuns = 2
  Limit = 2
  MaxCrashes = 1
SYMMETRY SessionSymmetry
INVARIANTS
  TypeOK
  SubmittedOnce
  OneVerdict
  ResultOfSucceededRun
  RunningCaseHasRunningRun
PROPERTIES
  ClosedForGood
  ImplementsOutcome
