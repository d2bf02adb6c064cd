CONSTANTS
  InvRate = 2
  InitialSize = 2
  InitialWindow = 3
  Windows = {5}
  Times = {2, 3, 5, 6}
  Values = {0, 2}
  MaxInserts = 3
  NaN = NaN
  Queries = {q1}
  SeriesLabels <- MCSeriesLabels
  Requests <- MCRequests
SPECIFICATION Spec
INVARIANTS CoveredAnswersAreExact CountersAgree
PROPERTIES SizeIsBounded QueryEnds ImplementsQueryPromise
CHECK_DEADLOCK FALSE
