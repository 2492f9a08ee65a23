CONSTANTS
  val = val
  east = east
  NoVector = NoVector
  NaN = NaN
  NoBytes = NoBytes
  Keys <- MCKeys
  Values <- MCValues
  Vectors <- MCVectors
  VecDim <- MCVecDim
  Distance <- MCDistance
  Dim <- MCDim
  FirstDocId = 0
  Ranges = {}
  Ks = {}
  KeyLen <- MCKeyLen
  ValueLen <- MCValueLen
  MaxBytes = 1000
  U32 = 8
  FlushedIds = {}
  MaxRows = 7
  MemtableMaxBytes = 100
  MaxTables = 2
SPECIFICATION Spec
\* A third full memtable has nowhere to go within MaxTables.
CHECK_DEADLOCK FALSE
INVARIANTS
  FlushSound
  GloballyUniqueIds
PROPERTIES
  ImplementsEngine
