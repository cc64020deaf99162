CONSTANTS
  Invocations = {i1, i2}
  Alone = i3
  Sinks <- TwoSinks
  Policies <- OnePolicy
  MaxParallel = 2
  MaxRefs = 1
  MaxFaults = 2
  Nothing = Nothing
SPECIFICATION MCSpec
SYMMETRY Symmetry
INVARIANTS
  EffectHasIntent
  ToldIsTrue
  SomeoneGoes
PROPERTIES
  ObservedBeforeNext
  AuthorityCovers
CHECK_DEADLOCK FALSE
