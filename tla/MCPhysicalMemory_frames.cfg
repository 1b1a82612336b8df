SPECIFICATION Spec
CONSTANTS
  PAGE_SIZE = 4
  BITS = 4
  LOW_WORDS = 4
  LOW_MASK = 2
  MemoryBlocks = 20
  ADDR_MOD = 128
  MemoryMaps <- Maps
  SpecialFrames = {0, 2}
  SystemRegions <- Regions
  Masks = {1, 4}
  Kernel = kernel
  Holders = {h1, h2}
  Outside = Outside
  NoFrame = NoFrame
  MaxFailed = 2
CHECK_DEADLOCK FALSE
INVARIANTS FramesExclusive FramesAccounted AvailableOnly
PROPERTIES RefusedWhenFull
