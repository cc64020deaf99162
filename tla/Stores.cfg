CONSTANTS
  Procs = {p1, p2}
  Attempts = {a1, a2}
  Executions = {e1, e2}
  Sizes = {2}
  MaxGrants = 2
  MaxClock = 1
  MaxAttempts = 1
  MaxActions = 1
  MaxOutput = 3
  MaxDuration = 1
  None = None
  Ghost = Ghost
  Cells = {1}
  Contents = {1}
  MaxUpsets = 1
  MaxWrites = 2
  MaxFaults = 1
  MaxPools = 2
SPECIFICATION MCSpec
SYMMETRY Symmetry
INVARIANTS
  Budgets
  NothingAfterRevocation
PROPERTIES
  NoLostUpdate
  Vouched
CHECK_DEADLOCK FALSE
