SPECIFICATION Spec
CONSTANTS
  heap_base = 16
  heap_max_size = 1208
  Word = 8192
  MaxLive = 3
  Requests = {260, 500, 508}
INVARIANTS FreeChunksFiled LargeBlocksKnown
