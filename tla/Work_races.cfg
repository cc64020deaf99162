SPECIFICATION RacesSpec
CONSTANTS
  None = None
  Steps = {s1, s2}
  Mutating = {s1, s2}
  Tracked = {s1}
  Verifs = {v1}
  MaxRenews = 1
  MaxFinishes = 1
  MaxReconciles = 0
  MaxFaults = 1
  MaxCrashes = 0
INVARIANTS CompletionStands Healthy
PROPERTIES NoEffectPastDoubt QuietAfterShutdown
CHECK_DEADLOCK FALSE
