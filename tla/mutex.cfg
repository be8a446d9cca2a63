SPECIFICATION Spec
CONSTANTS
  iter = 3
  Rounds = 3
INVARIANT NothingLost
PROPERTY Finishes
CHECK_DEADLOCK FALSE
