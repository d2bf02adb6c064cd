SPECIFICATION Spec
CONSTANTS
  n1 = n1
  n2 = n2
  c1 = c1
  c2 = c2
  Nodes <- MCNodes
  PNodes <- MCNodes
  Callers <- MCCallers
  Threshold = 1
  TotalPartitions = 2
  PartitionStart <- MCPartitionStart
  PartitionEnd <- MCPartitionEnd
  Score <- MCScore
  PartitionOf <- MCPartitionOf
  Sketched <- MCSketched
  ReplicationFactor = 2
  MaxOutages = 1
  MaxRounds = 1
INVARIANT AckedOnPrimary
PROPERTIES ImplementsPromise
CHECK_DEADLOCK FALSE
