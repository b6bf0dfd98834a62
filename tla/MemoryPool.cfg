\* Three threads, two chunks of two blocks: the list runs empty, grows, and
\* memory runs out.
CONSTANTS
  Threads = {t1, t2, t3}
  NoThread = NoThread
  POOL_MAX_SIZE = 2
  MAX_CHUNKS = 2
  Null = Null
  Garbage = Garbage
SPECIFICATION Spec
SYMMETRY ThreadSymmetry
CHECK_DEADLOCK FALSE
INVARIANTS
  SingleOwner
  NoBlockLost
  FreeListIntact
