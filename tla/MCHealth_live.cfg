SPECIFICATION HealthSpec
CONSTANTS
  Threshold = 2
  Nodes = {n1}
  Callers = {c1, c2}
INVARIANT HealthIsConsistent
PROPERTIES DeadNodeIsSkipped RecoveredNodeIsRouted CircuitCloses
