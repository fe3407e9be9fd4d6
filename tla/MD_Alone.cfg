SPECIFICATION Spec
CONSTANTS
  x = x
  y = y
  j1 = j1
  j2 = j2
  j3 = j3
  Missing = Missing
  Primary = akshare
  Fallback = baostock
  Jobs = {j1, j2, j3}
  Instruments <- Universe
  Contents = {x, y}
  Batches <- SomeAnswers
  FallbackEnabled = TRUE
  Page = 1000
  MaxActive = 1
  CanDie = TRUE
CHECK_DEADLOCK FALSE
SYMMETRY JobSymmetry
INVARIANTS
  RevisionsDiffer
  OwnAnswerIsLatest
