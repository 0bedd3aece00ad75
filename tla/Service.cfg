SPECIFICATION PlanSpec
CONSTANTS
  ready = ready
  fresh = fresh
  NoSession = NoSession
  Sessions <- Both
  Loaded <- Ready
  Links = {"arm", "leg"}
  Requests = {1, 2, 3}
  Sockets = {"tab"}
  TTL = 0
  MaxTime = 1
  MaxFrames = 2
INVARIANTS
  DiskMatchesStore
  AssembleIsComplete
PROPERTIES
  LiveFramesAreNew
  SocketsKeepUp
CHECK_DEADLOCK FALSE
