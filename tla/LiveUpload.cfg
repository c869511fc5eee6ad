SPECIFICATION FairSpec
CONSTANTS
  MaxSegments = 2
  MaxSize = 2
  MaxFaults = 1
  MaxCrashes = 0
INVARIANTS
  TypeOK
  ReplayIntact
  PartialIntact
PROPERTIES
  PlaylistOnlyGrows
  JobAnswers
  ListedArrives
