CONSTANTS
  Procs = {p1, p2, p3}
  Serials = {s1, s2}
  MaxCrashes = 2
  None = None
  Ops = {1, 2, 3, 4}
  Kinds <- MixedKinds
  MaxDisconnects = 2
SPECIFICATION MCSpec
INVARIANTS
  Consistent
  OneTurn
PROPERTIES
  ImplementsExclusiveOwner
  DeadOwnerCleared
  EveryoneServed
CHECK_DEADLOCK FALSE
