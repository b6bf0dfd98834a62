\* Two packets of two transmissions each through a queue of one packet.
CONSTANTS
  p0 = p0  p1 = p1
  Data = {p0, p1}
  Null = Null
  QUEUE_LENGTH = 2
  Packets <- TwoPackets
  REPEAT = 2
  HALF = 4
  MAX_FAILURES = 1
SPECIFICATION FairSpec
CHECK_DEADLOCK FALSE
INVARIANTS
  DeliveryWithoutGaps
  AckMeansReceived
  NewestLast
  HeapIntactWithoutTimeout
PROPERTY SendingEnds
