SPECIFICATION Spec
CONSTANTS
  j1 = j1
  j2 = j2
  None = None
  Jobs = {j1, j2}
  Instruments <- Two
  Contents <- AllContents
  Deliveries <- Answers
  Universes <- OneUniverse
  Policies <- BothPolicies
  MaxRevisions = 2
  MaxActive = 2
CHECK_DEADLOCK FALSE
SYMMETRY JobSymmetry
INVARIANTS
  TypeOK
  ReturnedRunMatches
  LaterRunIsNewer
PROPERTIES
  ImplementsPublications
