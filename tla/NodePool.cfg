SPECIFICATION FairSpec
CONSTANTS
  n1 = n1
  n2 = n2
  Nodes <- MCNodes
  Videos <- MCVideos
  NumFiles = 2
  MaxAttempts = 3
  MaxTroubles = 1
INVARIANTS
  TypeOK
  OneNodePerJob
  ServedFromOneEncode
PROPERTIES
  StatusesInOrder
  JobsAreTakenOver
CHECK_DEADLOCK FALSE
