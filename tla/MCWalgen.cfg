CONSTANTS
  Pages <- MCPages
  RECORDS = 3
  BRANCHES = 2
  BRANCH_RECORDS = 2
  FullSize = 3
  DeltaSizes <- MCDeltaSizes
  OldWorkloads <- MCOldWorkloads
SPECIFICATION Spec
\* The generator ends.
CHECK_DEADLOCK FALSE
INVARIANTS
  HistoriesMaterialize
  StreamsSound
  DirectorySound
