SPECIFICATION FairSpec
CONSTANTS
  Iterations = 1
  CanConverge = FALSE
  CanFail = TRUE
  ObjectKey = object
  linkA = linkA
  linkB = linkB
  RobotKeys <- OneLink
  NoKey = NoKey
  NotPolled = NotPolled
  MaxJobs = 2
  MaxDocs = 1
  MaxVersion = 0
PROPERTIES
  EndIsShown
