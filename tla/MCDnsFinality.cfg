CONSTANTS
  valA = valA
  valB = valB
  Dags <- MCDags
  Scenarios <- MCScenarios
  Validators <- MCValidators
  VoteSets <- MCVoteSets
  ActiveSets <- MCActiveSets
  EpochLen = 2
  Lag = 1
  Backoff = 0
  Window = 8
  MaxReorgHorizon = 2
  QualityFloor = 6667
  Scale = 2
  RequiredStakeDepth = 2
  RequiredWorkDepth = 0
  WorkMargin = 0
  StakeMargin = 1
  MinActiveValidators = 2
SPECIFICATION Spec
INVARIANTS
  TypeOK
  SinkMissingNeedsAbandonedAnchor
PROPERTIES
  SinkIsTheHeaviestAllowed
  SinkRetreatNeedsAbandonedAnchor
  AnchorIsLeftOnlyForStake
CHECK_DEADLOCK FALSE
