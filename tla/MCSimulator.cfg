CONSTANTS
  NReviews = 2
  NProducts = 2
  NCalibReviews = 1
  NCalibProducts = 1
  Aspects = {"battery"}
  Hashes = {0, 9}
  Predicates <- MCPredicates
  Tiers = {"cheap", "bogus"}
  PairTiers = {"frontier"}
  Plans = {"own"}
  Instances <- MCInstances
  Units = {10, 60, 900}
  IdRank <- MCIdRank
  Inputs <- MCInputs
  Pairs <- MCPairs
  FilterRows <- MCFilterRows
  MaxRows = 2
  SmokeRows = 2
  Bases <- MCBases
  Twins <- MCTwins
  MaxRuns = 2
  MaxSteps = 3
SPECIFICATION MCSpec
\* Within MaxSteps every call has been made.
CHECK_DEADLOCK FALSE
INVARIANTS
  AnswersRepeat
  LedgerSound
  CostIsOwn
  QualityCountsErrors
  GoldSound
  RankingSound
  CorpusSound
