SPECIFICATION FairSpec
CONSTANTS
  Iterations = 2
  CanConverge = TRUE
  CanFail = FALSE
  ObjectKey = object
  linkA = linkA
  linkB = linkB
  RobotKeys <- TwoLinks
  NoKey = NoKey
  NotPolled = NotPolled
  MaxJobs = 1
  MaxDocs = 1
  MaxVersion = 5
INVARIANTS
  StopsPromptly
PROPERTIES
  CancelEndsJob
