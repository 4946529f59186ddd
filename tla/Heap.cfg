SPECIFICATION HeapSpec
CONSTANTS
  HEAP_SIZE = 15
  HEADER = 2
  Sizes <- SmallSizes
INVARIANTS
  BlocksTile
  FreeIsJoined
PROPERTIES
  IsAllocator
