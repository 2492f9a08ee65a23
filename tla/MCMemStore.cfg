CONSTANTS
  p1 = p1
  p2 = p2
  k1 = k1
  k2 = k2
  NoObject = NoObject
  Procs <- MCProcs
  ObjKeys <- MCObjKeys
  Requests <- MCRequests
  Byte <- MCByte
  Bufs <- MCBufs
  Garbage <- MCGarbage
  MaxInt64 = 7
  MaxCalls = 3
SPECIFICATION Spec
\* Within MaxCalls the goroutines may all have finished.
CHECK_DEADLOCK FALSE
INVARIANTS
  StoreSound
  NoAliasing
PROPERTIES
  EveryCallReturns
  Linearizable
