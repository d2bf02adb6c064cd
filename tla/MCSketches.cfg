CONSTANTS
  StreamValues = {1, 2}
  Keys = {1, 2}
  Gaps = {1, 3}
  MaxSamples = 8
  Structure = {"ehuniv", "runs", "pooled", "smooth"}
  Length <- MCLength
  End <- MCEnd
  Cols = 2
  Position <- MCPosition
  Sign <- MCSign
  TopK = 2
  Layers = 3
  HashBit <- MCHashBit
  XLog2X <- MCXLog2X
  K = 1
  UnivWindow = 8
  max_map_size = 3
  RunK = 1
  RunWindow = 5
  UnivPoolCAP = 1
  SmoothKeep <- MCSmoothKeep
  SmoothWindow = 6
SPECIFICATION Spec
INVARIANTS WindowIsKept SketchesAreExact AnswersErrAtTheEdges RecyclingIsInvisible
INVARIANTS SmoothHistogramsStandFor
CHECK_DEADLOCK FALSE
