SPECIFICATION FairSpec
CONSTANTS
  HEAP_SIZE = 208
  HDR = 24
  Sizes = {0, 20, 57, 250}
INVARIANT Tiling
INVARIANT Coalesced
INVARIANT OwnedInUse
INVARIANT NoUnderflow
PROPERTY FailsOnlyWhenNothingFits
PROPERTY Returns
PROPERTY AllocatorSpec
