SPECIFICATION FairSpec
CONSTANTS
  Err = 1
  Tol = 2
  Big = 100
  Samples <- OneAndTwo
  Sessions = {s1, s2}
  Raw <- Enumerated
  Requests <- Asked
  AllowSoftware = FALSE
  Queries <- SomeQueries
  NoQuery = NoQuery
  InitialPairs = 1
  MaxQueries = 2
CHECK_DEADLOCK FALSE
INVARIANTS
  StagingIsFree
  FallbackIsExplained
PROPERTIES
  ImplementsCpuSearch
  QueriesAreAnswered
