\* A packet without payload is left in the buffer although it has come.
CONSTANTS
  u = u  t = t
  a = a  b = b
  a0 = a0  a0again = a0again  a1 = a1  a2 = a2  b0 = b0
  t0 = t0  t1 = t1  t2 = t2
  Null = Null
  Main = Main
  NoOwner = NoOwner
  QUEUE_LENGTH = 3
  Data = {a0, a0again, a1, a2, b0, t0, t1, t2}
  Receivers = {u, t}
  UdpReceivers = {u}
  Peers = {a, b}
  NoPeer = NoPeer
  Peer <- Senders
  Streams <- ShortStreams
  Number <- Numbers
  Size <- Sizes
  Known = {a0, a0again, a1, a2, b0, t0}
  HEADER_SIZE = 1
  MAX_CHUNK = 3
  HALF = 2
  LOOP_COUNT = 2
SPECIFICATION Spec
INVARIANT NoPacketLeftBehind
