SPECIFICATION Spec
CONSTANTS
  NumBuckets = 3
  MaxBlips = 1
INVARIANTS
  RetriedBootIsPublic
CHECK_DEADLOCK FALSE
