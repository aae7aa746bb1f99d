SPECIFICATION FairSpec
CONSTANTS
  NumSamplesPerHop = 4
  ConcealmentDuration = 16
  FadeDuration = 8
  Requests = {1, 2, 3, 6}
  MaxBacklog = 3
  MaxProgress = 16
  QuantizerMayFail = FALSE
INVARIANTS
  TypeOK
  ProgressTracksLoss
  DecodingNeverFails
  EstimatorHearsReceivedAudio
  FadeTracksLoss
  ComfortNoiseIsFresh
  DecoderInvariant
PROPERTIES
  ConcealsLoss
  DecodeSamplesReturns
  PacketsArePlayed
  SilenceBecomesComfortNoise
