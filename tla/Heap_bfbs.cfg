SPECIFICATION Spec
CONSTANTS
  heap_base = 16
  heap_max_size = 120
  Word = 512
  MaxLive = 4
  Requests = {12, 16, 28, 250, 505}
INVARIANT BiggestBlockKnown
