SPECIFICATION FairVideoSpec
CONSTANTS
  Messages <- MCThreeMessages
  Queues <- MCQueues
  QueueOf <- MCQueueOfThree
  Malformed <- MCFirstMalformed
  Subs <- MCNoLanguage
  SubsOf <- MCNoSubs
  NameOf <- MCNoName
  MaxDeliveries = 4
  MaxDisconnects = 1
  MaxCrashes = 0
  MaxFaults = 0
  MaxRepeats = 0
PROPERTIES
  EveryJobEnds
  ImplementsFeed
CHECK_DEADLOCK FALSE
