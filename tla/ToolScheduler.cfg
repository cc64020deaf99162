CONSTANTS
  Calls = {c1, c2, c3}
  MaxParallel = 2
  NoParent = NoParent
SPECIFICATION LiveSpec
INVARIANTS
  TypeOK
  SlotAccounting
  NoLostWakeup
  ExclusiveIsolation
PROPERTIES
  OrderlySteps
  EveryCallAnswered
CHECK_DEADLOCK FALSE
