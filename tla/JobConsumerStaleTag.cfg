SPECIFICATION ConsumerSpec
CONSTANTS
  Messages <- MCMessages
  Queues <- MCQueues
  QueueOf <- MCQueueOf
  Malformed <- MCMalformed
  MaxDeliveries = 4
  MaxDisconnects = 1
  MaxCrashes = 0
INVARIANTS
  FailedIsNotAcked
CHECK_DEADLOCK FALSE
