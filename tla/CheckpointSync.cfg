SPECIFICATION FairSpec
CONSTANTS
  N = 2
  Parts = 2
  MaxThreads = 3
  MaxIterations = 2
  MaxFaults = 2
  Programs = {"plain", "fsync", "optimized", "sync0", "sync1", "sync2"}
INVARIANTS
  TypeOK
  IterationDurable
  FileOneIterationApart
  AllBytesCounted
PROPERTIES
  RunEnds
CHECK_DEADLOCK FALSE
