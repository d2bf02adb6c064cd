CONSTANTS
  Paths = {"both", "late", "rates", "batch"}
  Deliverers <- MCDeliverers
  Calls = {"write", "late", "scrape"}
  Http = {"write", "late"}
  Delivered <- MCDelivered
  LabelSets = {"a", "b", "other"}
  Matched = {"a", "b"}
  Hash <- MCHash
  MemoryFor <- MCMemoryFor
  TrackerWindow = 1
  MaxUpdates <- MCMaxUpdates
  TotalPartitions = 2
  PNodes = {"n1", "n2", "n3"}
  PartitionStart <- MCStart
  PartitionEnd <- MCEnd
  Score <- MCScore
  BatchSeries = {"s1", "s2", "s3"}
  BatchPartition <- MCBatchPartition
  BatchMatched = {"s1", "s2"}
  SamplesIn <- MCSamplesIn
  ReplicaCount = 2
SPECIFICATION Spec
INVARIANTS TableServesItsCallers CountsAddUp
PROPERTIES ShutdownEnds
CHECK_DEADLOCK FALSE
