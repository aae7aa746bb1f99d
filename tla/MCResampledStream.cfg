SPECIFICATION Spec
CONSTANTS
  Up = 3
  Down = 1
  Requests = {0, 1, 2, 3, 5, 7}
  Period = 24
INVARIANTS
  LeftoverFits
  RequestsAreFilled
  LeftoverIsDue
PROPERTIES
  StreamContinues
