CONSTANTS
  SL_INDEX_COUNT_LOG2 = 2
  FL_INDEX_MAX = 8
  MemWords = 48
  Pools <- MCPools
  Sizes <- MCSizes
  Aligns <- MCAligns
  ReallocSizes <- MCReallocSizes
  Owners = {o1, o2, o3}
  o1 = o1
  o2 = o2
  o3 = o3
SPECIFICATION TlsfSpec
INVARIANTS
    HeapIsSound
PROPERTIES
    IsAllocator
VIEW MCView
SYMMETRY MCSymmetry
