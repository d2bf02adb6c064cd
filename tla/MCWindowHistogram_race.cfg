SPECIFICATION Spec
CONSTANTS
  Queries = {q1}
  K = 2
  Window = 4
  MaxLate = 1
  MaxSamples = 7
  Times <- MCTimes
  Intervals <- MCIntervals
INVARIANTS ConcurrentQueryIsSafe
CHECK_DEADLOCK FALSE
