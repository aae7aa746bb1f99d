SPECIFICATION Spec
CONSTANTS
  SampleRates = {8000, 11025, 16000, 24000, 32000, 44100, 48000}
  Channels = {1, 2}
  ModelFiles <- MCModelFiles
  Requests <- MCRequests
  MantissaBits = 10
  MaxPower = 30
INVARIANTS
  NoCheckFails
  PartsFitTogether
  FloatsCountExactly
CHECK_DEADLOCK FALSE
