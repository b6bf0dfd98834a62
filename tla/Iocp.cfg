\* Three workers serve one slot: two sends may be pending, two may fail. Two
\* threads write three buffers of two bytes to a send queue of two, which two
\* workers settle.
CONSTANTS
  Slots = {s1}
  Workers = {w1, w2, w3}
  NoSlot = NoSlot
  MAX_LEFT = 1
  MAX_SENDS = 2
  MAX_FAILED = 2
  QUEUE_LENGTH = 3
  Data = {b1, b2, b3}
  Null = Null
  Writers = {u1, u2}
  Settlers = {h1, h2}
  Length <- MCLength
SPECIFICATION MCSpec
INVARIANTS
  OneUserPerSlot
  NoSlotForgotten
  BuffersLive
  WireIsTheStream
PROPERTY SlotAcceptsAgain
\* The server stops serving when every slot has met an ignored error, and
\* a behaviour of the send queue when every buffer was used.
CHECK_DEADLOCK FALSE
