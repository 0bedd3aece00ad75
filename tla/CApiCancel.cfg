SPECIFICATION Spec
CONSTANTS
  Target = 2
  MinInterval = 1
  Patience = 1
  Cooling = 50
  Iterations = 2
  StartCounts <- TwoSpheres
  EarlyStopping = FALSE
  VerboseFrequency = 1
  ConvergencePatience = 1
  DensityEnabled = FALSE
  PruneContained = TRUE
  NoStep = NoStep
  Threads = {t1, t2}
  NoThread = NoThread
  MaxCalls = 2
  CanPanic = FALSE
  Mutators <- NoMutators
CHECK_DEADLOCK FALSE
PROPERTIES
  RunConsumesCancels
