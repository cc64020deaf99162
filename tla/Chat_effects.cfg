SPECIFICATION FairSpec
CONSTANTS
  None = None
  t1 = t1
  t2 = t2

  Threads = {t1, t2}
  First = t1
  Calls = {1}
  MaxRounds = 2
  MaxMessages = 6
  Budgets <- OneCrash
PROPERTIES EffectsSurvive
CHECK_DEADLOCK FALSE
