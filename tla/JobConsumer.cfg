SPECIFICATION ConsumerSpec
CONSTANTS
  Messages <- MCMessages
  Queues <- MCQueues
  QueueOf <- MCQueueOf
  Malformed <- MCMalformed
  MaxDeliveries = 5
  MaxDisconnects = 1
  MaxCrashes = 1
INVARIANTS
  ConsumerTypeOK
  SettledByOwnRun
  OneAtATime
  CompletedOnce
  SettlementsBacked
CHECK_DEADLOCK FALSE
