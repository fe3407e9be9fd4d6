SPECIFICATION FairSpec
CONSTANTS
  x = x
  y = y
  j1 = j1
  j2 = j2
  j3 = j3
  Missing = Missing
  Primary = akshare
  Fallback = baostock
  Jobs = {j1, j2, j3}
  Instruments <- Universe
  Contents = {x, y}
  Batches <- TwoAnswers
  FallbackEnabled = FALSE
  Page = 1000
  MaxActive = 2
  CanDie = FALSE
CHECK_DEADLOCK FALSE
INVARIANTS
  RequestTellsLastAttempt
PROPERTIES
  ImplementsHistory
  EveryJobEnds
