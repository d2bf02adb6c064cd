SPECIFICATION BackfillSpec
CONSTANTS
  a = a
  b = b
  other = other
  Runs = {r1, r2}
  Series <- MCSeries
  Matching <- MCMatching
  MetricOf <- MCMetricOf
  EndTime = 3
  ChunkLength = 2
INVARIANTS CheckpointIsHonest CopiesTheRange
PROPERTIES BackfillEnds
CHECK_DEADLOCK FALSE
