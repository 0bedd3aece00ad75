SPECIFICATION StudioSpec
CONSTANTS
  Iterations = 1
  CanConverge = FALSE
  CanFail = TRUE
  ObjectKey = object
  linkA = linkA
  linkB = linkB
  RobotKeys <- TwoLinks
  NoKey = NoKey
  NotPolled = NotPolled
  MaxJobs = 2
  MaxDocs = 2
  MaxVersion = 0
  DeskKeys <- OneLink
  DeskOptions = {1, 2}
  DeskLoads = 2
  DeskPacks = 2
  DeskVersion = 3
INVARIANTS
  DocumentStaysUnderJob
  PicksUpEachPackOnce
  ScreenIsCurrent
  OffersAreCurrent
