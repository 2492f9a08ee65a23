CONSTANTS
  val = val
  east = east
  north = north
  NoVector = NoVector
  NaN = NaN
  Keys <- MCKeys
  Values <- MCValues
  Vectors <- MCVectors
  VecDim <- MCVecDim
  Distance <- MCDistance
  Dim <- MCDim
  KEYSPACE = 2
  WARMUP = 1
  NUM_OPS = 4
  SCAN_SPAN = 1
  K = 1
  Templates <- MCVectors
  KeyLen <- MCKeyLen
  ValueLen <- MCValueLen
  MaxBytes = 2000
SPECIFICATION Spec
\* The bench ends with the trace.
CHECK_DEADLOCK FALSE
INVARIANTS
  ReplaySound
  RecallIsOne
  ReplayAgrees
