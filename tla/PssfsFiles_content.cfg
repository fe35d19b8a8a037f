SPECIFICATION Spec
CONSTANTS
  Threads = {t1, t2}
  Files = {f1}
  Dir = dir
  MaxSize = 4
  Writes <- Pieces
  Reads <- PiecesRead
  SizeSpace = 100
  Truncations = {1, 2}
  Outcomes = {"extend", "append", "deny"}
  MaxCalls = 5
INVARIANTS
  ReadsInPlace
CHECK_DEADLOCK FALSE
