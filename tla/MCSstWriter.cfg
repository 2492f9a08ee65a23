CONSTANTS
  short = short
  long = long
  east = east
  bad = bad
  NoVector = NoVector
  NaN = NaN
  NoBytes = NoBytes
  Keys <- MCKeys
  Values <- MCValues
  Vectors <- MCVectors
  VecDim <- MCVecDim
  Distance <- MCDistance
  Dim <- MCDim
  KeyLen <- MCKeyLen
  ValueLen <- MCValueLen
  U32 = 4
  FlushedIds <- MCFlushedIds
  MaxRows = 3
SPECIFICATION Spec
\* A writer is used once: after finish there is nothing left to call.
CHECK_DEADLOCK FALSE
INVARIANTS
  RoundTrip
  EveryVectorReferenced
  KeysInOrder
  LayoutSound
