SPECIFICATION Spec
CONSTANTS
  None = None
  Steps = {s1}
  Mutating = {s1}
  Tracked = {}
  Verifs = {v1}
  MaxRenews = 0
  MaxFinishes = 1
  MaxReconciles = 0
  MaxFaults = 0
  MaxCrashes = 0
INVARIANT LaterWritesInvalidate
CHECK_DEADLOCK FALSE
