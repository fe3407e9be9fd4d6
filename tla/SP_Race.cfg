SPECIFICATION Spec
CONSTANTS
  Agents = {g1, g2}
  Deliveries <- Inbox
  Malformed = bad
  MaxDeaths = 1
  None = None
  a = a
  b = b
  bad = bad
SYMMETRY AgentSymmetry
INVARIANTS
  OneHandler
  FiledByOutcome
  OneArtifact
CHECK_DEADLOCK FALSE
