SPECIFICATION FairSpec
CONSTANTS
  f1 = f1
  f2 = f2
  f3 = f3
  Files <- MCFiles
  Mirrors <- MCMirrors
  Scenarios <- MCScenarios
CHECK_DEADLOCK FALSE
INVARIANTS TypeOK RoutedInputsCoexisted FirstStageIsEarned OnlyABreakBlocks ContinuationIsAuthorized ProjectionIsHonest
PROPERTIES EveryRequestEnds
