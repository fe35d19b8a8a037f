SPECIFICATION Spec
CONSTANTS
  Threads = {t1, t2}
  Files = {f1, f2}
  Dir = dir
  MaxSize = 2
  Writes <- GrowOnce
  Reads <- WholeFile
  SizeSpace = 100
  Truncations = {1}
  Outcomes = {"extend", "append"}
  MaxCalls = 2
INVARIANTS
  DistributorAlone
CHECK_DEADLOCK FALSE
