SPECIFICATION Spec
CONSTANTS
  None = None
  t1 = t1
  t2 = t2

  Threads = {t1, t2}
  First = t1
  Calls = {1}
  MaxRounds = 2
  MaxMessages = 5
  Budgets <- OneCrash
INVARIANTS Reopens
CHECK_DEADLOCK FALSE
