SPECIFICATION Spec
CONSTANTS
  PAGE_SIZE = 8
  HEAP_NORMAL_BLOCK = 16
  HEAP_LARGE_BLOCK = 32
  HEAP_STANDARD_ALIGN = 4
  MEMORY_LOCATION_HEAP = 64
  MEMORY_STATIC_OFFSET = 128
  BLOCK_HEADER = 3
  NODE_HEADER = 2
  SIZE_MOD = 1024
  MASK = 2
  MaxDrift = 8
  Holders = {h1, h2, h3}
  None = None
  Requests <- MixedRequests
SYMMETRY HolderSymmetry
CHECK_DEADLOCK FALSE
INVARIANTS HeapInv NoOverlap PagesAligned FreeBytesCounted FreeBlockWhole HeldIsValid FreeFindsNode
