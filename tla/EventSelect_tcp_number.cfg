\* A packet is sent by SendTo and then by Send, with the number of the first.
SPECIFICATION ClientSpec
CONSTANTS
  Packets = {p1, p2}
  NoPacket = NoPacket
  HALF = 3
  MAX_SENDS = 3
INVARIANT TcpHasAlwaysZero
CHECK_DEADLOCK FALSE
