SPECIFICATION Spec
CONSTANTS
  a1 = a1
  a2 = a2
  None = None
  Agents = {a1, a2}
  Archives <- AllArchives
  Reports <- AllReports
  Decisions <- AllDecisions
  Authorized = {"cia", "deputy"}
  MaxTime = 1
SYMMETRY AgentSymmetry
INVARIANTS
  DraftHasItsFiles
  VersionRestsOnItsAudit
  ReturnedVersionIsOwn
PROPERTIES
  ImplementsRegistry
