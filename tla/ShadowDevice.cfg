SPECIFICATION Spec
CONSTANTS
  TokenWrap = 3
  MaxVersion = 2
  MaxQueued = 2
  MaxNotified = 1
  Foreign = TRUE
INVARIANT TypeOK
INVARIANT CurrentIsLatest
PROPERTY TakenFromAnswer
CHECK_DEADLOCK FALSE
