CONSTANTS
  Header = 3
  PageSize = 8
  HeapStart = 8
  InitialEnd = 24
  Step = 8
  MaxExpansion = 40
  Frames = 7
  Sizes = {1, 4, 13}
SPECIFICATION FairSpec
INVARIANTS
  ChunksDisjoint
  PayloadsInHeap
  NoFreeNeighbours
  HeapUsedExact
  HeadersMappedUntilExpanded
PROPERTIES
  HeapIsAllocator
  CallsReturn
CHECK_DEADLOCK FALSE
