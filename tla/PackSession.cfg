SPECIFICATION MCSpec
CONSTANTS
  Target = 3
  MinInterval = 1
  Patience = 2
  Cooling = 50
  Iterations = 5
  StartCounts <- Starts
  EarlyStopping = TRUE
  VerboseFrequency = 3
  ConvergencePatience = 2
  DensityEnabled = TRUE
  PruneContained = TRUE
  NoStep = NoStep
  Length = 10
  InsideEnds = {10}
  InsideSamples <- Samples
  MinRadius = 2
  Weights <- SomeWeights
  Threshold = 5
  MaxIterations = 4
  Epsilon = 1
  FirstBalls <- Lines
  Moves <- SomeMoves
  NoBalls = NoBalls
INVARIANTS
  MomentsMatchSpheres
  PassNeverOverdue
  GradientsAreDerivatives
PROPERTIES
  PruningChangesNoMetric
  ImplementsSession
  PassesCullEveryBadSphere
  ImplementsProgress
