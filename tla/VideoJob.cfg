SPECIFICATION VideoSpec
CONSTANTS
  Messages <- MCTwoMessages
  Queues <- MCQueues
  QueueOf <- MCQueueOf
  Malformed <- MCSecondMalformed
  Subs <- MCSubs
  SubsOf <- MCThreeSubs
  NameOf <- MCNameOf
  MaxDeliveries = 3
  MaxDisconnects = 0
  MaxCrashes = 1
  MaxFaults = 1
  MaxRepeats = 1
INVARIANTS
  VideoTypeOK
  DoneIsPlayable
  AckedIsReported
  DeadIsUnreported
  ActiveJobIsInFlight
PROPERTIES
  EndIsFinal
  ImplementsFeed
CHECK_DEADLOCK FALSE
