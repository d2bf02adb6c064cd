CONSTANTS
  Nodes = {n1, n2}
  Queries = {q1, q2}
  MaxConcurrentQueries = 1
  MaxCrashes = 1
  Series <- MCSeries
  OwnerOf <- MCOwnerOf
  Requests <- MCRequests
SPECIFICATION Spec
INVARIANTS SlotsAndCountersAgree AnswerIsWholeAndSelected
PROPERTIES QueriesAreSettled ImplementsQueryPromise
CHECK_DEADLOCK FALSE
