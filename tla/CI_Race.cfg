SPECIFICATION IntakeSpec
CONSTANTS
  Nothing = Nothing
  Malformed = Malformed
  Agents = {a1, a2}
  Directories = {1}
  Files = {2, 3, 4}
  Contents <- AllContents
  Waiting <- OnTime
  Later <- Late
  MaxDeaths = 1
INVARIANTS
  StoresAgree
PROPERTIES
  ContentKept
  InboxDrains
