SPECIFICATION FairSpec
CONSTANTS
  MaxTeam = 3
  MaxIterations = 2
  Counts = {0, 1, 2}
  Batch = 1
  Draws <- TwoDraws
  MaxFaults = 1
INVARIANTS
  TypeOK
  SameRound
  PhasesApart
  FailuresExplained
  NothingLeft
PROPERTIES
  RunEnds
CHECK_DEADLOCK FALSE
