SPECIFICATION Spec
CONSTANTS
  NumSamplesPerHop = 4
  Features = {f1, f2}
  MaxQueue = 3
INVARIANTS
  ConditionedHop
