SPECIFICATION Spec
CONSTANTS
  None = None
  t1 = t1
  t2 = t2

  Threads = {t1, t2}
  First = t1
  Calls = {1, 2}
  MaxRounds = 2
  MaxMessages = 4
  Budgets <- Plans
INVARIANTS WellFormed Truthful ContinuationRestored MemoryFollows
PROPERTIES EffectsRetained
CHECK_DEADLOCK FALSE
