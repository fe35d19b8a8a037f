SPECIFICATION FairSpec
CONSTANTS
  N = 3
  MaxThreads = 2
  MaxIteration = 2
  MaxCrashes = 2
  Programs = {"checkpoint", "parallel"}
INVARIANTS
  HeaderBehindRows
  NoIterationSkipped
  RowsLostForAReason
PROPERTIES
  CheckpointAdvancesByOne
