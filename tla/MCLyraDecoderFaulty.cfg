SPECIFICATION FairSpec
CONSTANTS
  NumSamplesPerHop = 2
  ConcealmentDuration = 8
  FadeDuration = 4
  Requests = {1, 3, 4}
  MaxBacklog = 2
  MaxProgress = 8
  QuantizerMayFail = TRUE
INVARIANTS
  EstimatesNeverPileUp
PROPERTIES
  DecodeSamplesReturns
  WholeHopsKeepInStep
  IterationsMakeProgress
