CONSTANTS
  PageSize = 2
  MaxU16 = 6
  Pages = {0}
  Images <- MCImages
  SpanLists <- MCSpanLists
  MaxRecords = 2
  MaxFaults = 2
SPECIFICATION Spec
\* A reader that has stopped is done.
CHECK_DEADLOCK FALSE
INVARIANTS
  ReaderSafe
  CleanStreamReadsWhole
  DeltaRoundTrip
