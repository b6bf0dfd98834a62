\* What the remaining bytes of a connection are worth to the next one.
CONSTANTS
  Slots = {s1}
  Workers = {w1, w2}
  NoSlot = NoSlot
  MAX_LEFT = 1
  MAX_SENDS = 0
  MAX_FAILED = 0
SPECIFICATION Spec
INVARIANT LeftBytesAreKept
CHECK_DEADLOCK FALSE
