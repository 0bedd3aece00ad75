SPECIFICATION FairSpec
CONSTANTS
  Target = 2
  MinInterval = 1
  Patience = 1
  Cooling = 50
  Iterations = 3
  StartCounts <- TwoSpheres
  EarlyStopping = TRUE
  VerboseFrequency = 1
  ConvergencePatience = 1
  DensityEnabled = FALSE
  PruneContained = TRUE
  NoStep = NoStep
  Threads = {t1, t2}
  NoThread = NoThread
  MaxCalls = 2
  CanPanic = TRUE
  Mutators <- AllMutators
CHECK_DEADLOCK FALSE
INVARIANTS
  OneRun
  SnapshotIsCurrent
  CancelStopsRun
  NoUseAfterRelease
PROPERTIES
  PoisonFreezesSnapshot
  ImplementsProgress
  CallsReturn
