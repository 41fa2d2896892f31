SPECIFICATION Spec
CONSTANTS
  Strategies = {"DEFAULT", "ORACLE", "PROFILE"}
  HEAP_BASE = 16
  HEAP_0_SIZE = 48
  HEAP_1_SIZE = 64
  Word = 512
  Sizes = {12, 20}
  Counts = {43}
  Foreign = {8}
  MaxLive = 3
INVARIANTS TypeOK LogMatchesHeaps AccessesAttributed
PROPERTY ImplementsOneHeap
CHECK_DEADLOCK FALSE
