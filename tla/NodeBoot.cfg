SPECIFICATION FairNodeSpec
CONSTANTS
  NumBuckets = 2
  MaxBlips = 3
  MaxHangs = 1
  MaxChanges = 1
INVARIANTS
  TypeOK
  ReadyHasBuckets
  ReadyIsPublic
  BlipsTolerated
  NodeTypeOK
  JobsMeetBuckets
  EncoderWorks
  LiveHasBest
PROPERTIES
  NodeComesUp
CHECK_DEADLOCK FALSE
