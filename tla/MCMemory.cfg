\* Pages: as many frames as the areas are apart, and page tables of two entries.
\* Pool: sizes that split, fill and outgrow a chunk.
CONSTANTS
  POOL_HDR = 3
  POOL_ALIGN = 2
  POOL_GUARD = 2
  POOL_MIN_PAYLOAD = 2
  POOL_GROW_CHUNK = 16
  PAGE_SIZE = 8
  Sizes = {1, 4, 13, 19}
  Memory = 7
  RamFrames = {1, 2, 3, 4, 5, 6, 7, 8, 9, 10, 11}
  Areas = {"pool", "user", "thread"}
  Base <- FarApart
  FANOUT = 2
  MaxPages = 2
SPECIFICATION Spec
INVARIANTS
  FramesOwned
  PoolSound
  BlocksOwned
  AreasApart
PROPERTIES
  GivenStays
CHECK_DEADLOCK FALSE
