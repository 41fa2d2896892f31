SPECIFICATION Spec
CONSTANTS
  Strategies = {"ORACLE"}
  HEAP_BASE = 16
  HEAP_0_SIZE = 80
  HEAP_1_SIZE = 64
  Word = 512
  Sizes = {12, 48}
  Counts = {1}
  Foreign = {8}
  MaxLive = 3
INVARIANT ReallocBreaksNothing
CHECK_DEADLOCK FALSE
