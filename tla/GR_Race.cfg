SPECIFICATION Spec
CONSTANTS
  Importers = {i1, i2}
  Sources = {s1, s2}
  Contents <- Written
  Supplies <- Imported
  MaxWrites = 3
  MaxStops = 1
  None = None
  NaN = NaN
  Infinity = Infinity
  NegInfinity = NegInfinity
  Unit = 300
  Tolerance = 3
  Tie = 1
SYMMETRY ImporterSymmetry
INVARIANTS
  ReportedIsServed
  AcceptedIsSound
PROPERTIES
  ImplementsLatest
CHECK_DEADLOCK FALSE
