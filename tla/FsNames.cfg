SPECIFICATION Spec
CONSTANTS
  Programs = {"dummyfs", "memoryfs", "pssfs"}
  Threads = {t1, t2}
  Names = {a, b}
  MaxDepth = 3
  MetaBlocks = 4
  MaxChildren = 3
  MaxFile = 4
  Budget = 6
  EntrySize = 1
  KeySize = 1
  Sizes = {1, 3, 5}
  MaxCalls = 4
SYMMETRY Symmetry
INVARIANTS
  TypeOK
  PathsAgree
  CountersAgree
  ImageCurrent
  ContentsBacked
  BusyHeldOrDenied
  FaultExplained
PROPERTIES
  ChangesOneEntry
CHECK_DEADLOCK FALSE
