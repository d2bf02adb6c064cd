SPECIFICATION Spec
CONSTANTS
  QueueCap = 2
  BatchSize = 2
  MaxRetries = 2
  MaxCalls = 4
INVARIANTS PipelineIsSound ForwardedIsReceived BackendInOrder NothingHalfway
PROPERTIES AcceptedIsSettled StopEnds
CHECK_DEADLOCK FALSE
