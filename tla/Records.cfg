CONSTANTS
  Procs = {q1, q2}
  MaxRecords = 3
  Kernels = {k1, k2}
  MaxAppends = 4
  MaxUpsets = 2
  MaxTurns = 3
  Members = 2
  Rounds <- TwoRounds
  MaxCalls <- TwoRounds
  MaxIterations = 2
  Modes = {"sequential", "parallel", "settled", "ralph"}
  Keys = {openai, xai}
  Models = {m1, m2}
  MaxMessages = 6
  MaxLosses = 2
  MaxVersions = 2
  MaxSnapshots = 3
  MaxDrops = 1
  Pages = 2
  MaxChanges = 2
  MaxRefreshes = 2
  Tasks = {t1}
  Methods = {"oracle"}
  Coverage = {"item"}
  Policies <- IndependentOracle
  MaxAttempts = 2
  MaxBundles = 2
  MaxDecisions = 1
  None = None
  Ghost = Ghost
  Garbage = Garbage
SPECIFICATION MCSpec
SYMMETRY Symmetry
INVARIANTS
  Durable
  NeverForks
  RunsTellAll
  SeesTheHistory
  Evidence
  CurrentTools
  Earned
PROPERTIES
  ImplementsAppendLog
  NoErasure
CHECK_DEADLOCK FALSE
