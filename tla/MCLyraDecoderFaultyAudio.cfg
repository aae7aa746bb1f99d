SPECIFICATION FairSpec
CONSTANTS
  NumSamplesPerHop = 2
  ConcealmentDuration = 4
  FadeDuration = 2
  Requests = {1, 3}
  MaxBacklog = 2
  MaxProgress = 5
  QuantizerMayFail = TRUE
PROPERTIES
  AudioAfterUndecodablePackets
