SPECIFICATION VideoSpec
CONSTANTS
  Messages <- MCTwoMessages
  Queues <- MCQueues
  QueueOf <- MCQueueOf
  Malformed <- MCSecondMalformed
  Subs <- MCSubs
  SubsOf <- MCThreeSubs
  NameOf <- MCNameOf
  MaxDeliveries = 3
  MaxDisconnects = 0
  MaxCrashes = 1
  MaxFaults = 0
  MaxRepeats = 0
INVARIANTS
  ReportClaim
CHECK_DEADLOCK FALSE
