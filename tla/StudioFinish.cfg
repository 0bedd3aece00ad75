SPECIFICATION Spec
CONSTANTS
  Iterations = 2
  CanConverge = FALSE
  CanFail = FALSE
  ObjectKey = object
  linkA = linkA
  linkB = linkB
  RobotKeys <- OneLink
  NoKey = NoKey
  NotPolled = NotPolled
  MaxJobs = 1
  MaxDocs = 1
  MaxVersion = 0
INVARIANTS
  FinishIsKept
