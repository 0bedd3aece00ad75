SPECIFICATION FairSpec
CONSTANTS
  Target = 2
  MinInterval = 1
  Patience = 1
  Cooling = 50
  Iterations = 2
  StartCounts <- TwoSpheres
  EarlyStopping = TRUE
  VerboseFrequency = 1
  ConvergencePatience = 1
  DensityEnabled = FALSE
  PruneContained = TRUE
  NoStep = NoStep
  Threads = {t1, t2}
  NoThread = NoThread
  MaxCalls = 3
  MaxPromises = 2
  NetCalls = 2
  NetIterations = 1
  CanPanic = TRUE
CHECK_DEADLOCK FALSE
INVARIANTS
  ClaimIsExclusive
  NoLockAcrossGil
  SessionComesBack
  ReadsAreWhole
PROPERTIES
  OutcomesAreTrue
  ImplementsProgress
  EveryCallReturns
