SPECIFICATION FairConsumerSpec
CONSTANTS
  Messages <- MCOnePerQueue
  Queues <- MCQueues
  QueueOf <- MCQueueOfOnePerQueue
  Malformed <- MCMalformed
  MaxDeliveries = 7
  MaxDisconnects = 1
  MaxCrashes = 0
PROPERTIES
  ConsumeEverything
CHECK_DEADLOCK FALSE
