SPECIFICATION Spec
CONSTANTS
  c1 = c1
  c2 = c2
  c3 = c3
  a = a
  Inserts <- MCInserts
  Series = {a}
  SeriesOf <- MCSeriesOf
  MemoryLimit = 1
  MaxFunctions = 2
SYMMETRY CallSymmetry
INVARIANTS OvershootIsBounded RestingSeriesIsComplete CalmSampleIsKept
CHECK_DEADLOCK FALSE
