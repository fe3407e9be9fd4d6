SPECIFICATION FairLedgerSpec
CONSTANTS
  d1 = d1
  d2 = d2
  None = None
  Partitions = {d1, d2}
  MaxInvocations = 3
  Faults = TRUE
CHECK_DEADLOCK FALSE
INVARIANTS
  LedgerTypeOK
  OneLiveRow
  RowTellsOutcome
PROPERTIES
  ImplementsRecord
  RunningRowEnds
