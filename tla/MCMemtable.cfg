CONSTANTS
  short = short
  long = long
  east = east
  north = north
  bad = bad
  odd = odd
  NoVector = NoVector
  NaN = NaN
  Keys <- MCKeys
  Values <- MCValues
  Vectors <- MCVectors
  VecDim <- MCVecDim
  Distance <- MCDistance
  Dim <- MCDim
  FirstDocId = 5
  Ranges <- OrderedRanges
  Ks <- MCKs
  KeyLen <- MCKeyLen
  ValueLen <- MCValueLen
  MaxBytes = 250
SPECIFICATION Spec
INVARIANTS
  WellFormed
  FlushNeverPanics
  OnlyLiveVectors
  EstimateCoversHeldBytes
PROPERTIES
  DocIdsNeverReused
  ImplementsEngine
