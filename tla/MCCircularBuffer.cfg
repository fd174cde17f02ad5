SPECIFICATION FairSpec
CONSTANTS
  BUFFER_SIZE = 4
  Sample = {s1, s2}
INVARIANT NoSlotConflict
PROPERTY FifoSpec
PROPERTY Drained
