SPECIFICATION Spec
CONSTANTS
  None = None
  Steps = {s1}
  Mutating = {s1}
  Tracked = {s1}
  Verifs = {}
  MaxRenews = 1
  MaxFinishes = 0
  MaxReconciles = 0
  MaxFaults = 1
  MaxCrashes = 0
PROPERTY FailedRenewalStopsAdmissions
CHECK_DEADLOCK FALSE
