SPECIFICATION Spec
CONSTANTS
  MaxSegments = 2
  MaxSize = 1
  MaxFaults = 1
  MaxCrashes = 1
INVARIANTS
  ReplayIntact
  PartialIntact
