SPECIFICATION CleanupSpec
CONSTANTS
  MaxScopes = 3
  MaxObjects = 4
INVARIANT CleanedUpInReverse
CHECK_DEADLOCK FALSE
