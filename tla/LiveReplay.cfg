SPECIFICATION Spec
CONSTANTS
  MaxSegments = 2
  MaxSize = 1
  MaxFaults = 0
  MaxCrashes = 0
INVARIANTS
  ReplayClaim
