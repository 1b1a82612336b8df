SPECIFICATION VmSpec
CONSTANTS
  PAGE_SIZE = 4
  BITS = 4
  LOW_WORDS = 8
  LOW_MASK = 2
  MemoryBlocks = 40
  ADDR_MOD = 256
  MemoryMaps <- Maps
  SpecialFrames = {0, 2}
  SystemRegions <- KernelRegions
  Masks = {1, 4}
  Kernel = "kernel"
  Holders = {"tables", "pages"}
  Outside = Outside
  NoFrame = NoFrame
  MaxFailed = 2
  PAGES_PER_TABLE = 16
  HEAP = 32
  HEAP_END = 64
  VIDEO = 64
  RESERVED = 96
  VIDEO_FRAME = 56
  VideoPages = 20
  MEMORY_INIT_MASK = 1
  AnyMask = 4
  HeapPages = {34, 35, 56}
  HeaderPages = 1
  OtherPages = {160, 161}
  PageCounts = {1}
  Spare = 1
  None = None
CHECK_DEADLOCK FALSE
INVARIANTS TablesReachable FramesNotAliased PagesBacked
PROPERTIES MappingsStay ImplementsFrames MapReturns
