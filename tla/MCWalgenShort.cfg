CONSTANTS
  Pages <- MCPages
  RECORDS = 2
  BRANCHES = 1
  BRANCH_RECORDS = 1
  FullSize = 3
  DeltaSizes <- MCDeltaSizes
  OldWorkloads <- MCOldWorkloads
SPECIFICATION Spec
\* The generator ends.
CHECK_DEADLOCK FALSE
INVARIANT
  ForkInsideMain
