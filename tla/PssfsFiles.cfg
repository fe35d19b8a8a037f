SPECIFICATION FairSpec
CONSTANTS
  Threads = {t1, t2}
  Files = {f1, f2}
  Dir = dir
  MaxSize = 2
  Writes <- GrowOnce
  Reads <- SecondBlock
  SizeSpace = 100
  Truncations = {1}
  Outcomes = {"extend", "append"}
  MaxCalls = 4
INVARIANTS
  TypeOK
  NodeExclusive
  DeviceCurrent
PROPERTIES
  CallsEnd
CHECK_DEADLOCK FALSE
