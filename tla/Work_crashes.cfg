SPECIFICATION CrashesSpec
CONSTANTS
  None = None
  Steps = {s1}
  Mutating = {s1}
  Tracked = {s1}
  Verifs = {v1}
  MaxRenews = 0
  MaxFinishes = 1
  MaxReconciles = 2
  MaxFaults = 1
  MaxCrashes = 1
INVARIANTS UncertainRemembered BackendOperations
CHECK_DEADLOCK FALSE
