\* Two threads on a queue of two elements (three slots): every interleaving
\* of pushes, pops, emptiness tests and flag switches. Beside it the client:
\* two packets, three reliable sends, a counter that wraps after them.
CONSTANTS
  QUEUE_LENGTH = 3
  Data = {d1, d2}
  Null = Null
  Threads = {t1, t2}
  NoThread = NoThread
  Garbage = Garbage
  NoResult = NoResult
  Packets = {p1, p2}
  NoPacket = NoPacket
  HALF = 3
  MAX_SENDS = 3
SPECIFICATION MCSpec
INVARIANTS
  LockDiscipline
  OnlyPushedData
  ConsecutiveNumbers
PROPERTIES
  Linearizable
  DestroyReturns
