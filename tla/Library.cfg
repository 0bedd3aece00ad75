SPECIFICATION LibrarySpec
CONSTANTS
  NoPath = NoPath
  Drive = Drive
  Uploads <- AllUploads
  Docs <- AllDocs
  References <- AllReferences
  SphereSets = {1, 2}
  NoReport = NoReport
  Meshes <- AllMeshes
  MaxPrepared = 1
  U64Max = 2047
  Ints <- AllInts
  Halves <- AllHalves
  Strings = {"cpu", "cuda", "tpu"}
  Documents <- AllDocuments
  MaxAsked = 2
  UpdateLists <- AllUpdates
  PackRequests <- AllPackRequests
  Commands <- AllCommands
  Robots <- AllRobots
  Refused = Refused
  NoName = NoName
CHECK_DEADLOCK FALSE
INVARIANTS
  NoCollisionIsLost
  MemoryAgreesWithDisk
  SessionsRunWhatWasAsked
  PreparedMeshIsSound
  SpheresSitWhereTheyWerePacked
