SPECIFICATION FairSpec
CONSTANTS
  N = 3
  MaxThreads = 4
  MaxIteration = 3
  MaxCrashes = 2
  Programs = {"checkpoint"}
INVARIANTS
  TypeOK
  HeaderMatchesRows
  NoIterationSkipped
  CleanExitMeansComplete
PROPERTIES
  AtomicCheckpointing
  RunEnds
