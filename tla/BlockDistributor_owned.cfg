SPECIFICATION Spec
CONSTANTS
  W = 8
  NumGroups = 4
  NumStarts = 2
  Files = {f1, f2}
  f1 = f1
  f2 = f2
  Sizes = {1, 5, 8, 11, 20}
  MaxCalls = 5
INVARIANTS
  BlockOwnedByOne
CHECK_DEADLOCK FALSE
