\* One caller, two workers, a job queue of one, three jobs: the queue fills,
\* nodes are used again.
CONSTANTS
  QUEUE_LENGTH = 2
  Data = {j1, j2, j3}
  Null = Null
  Nodes = {h1, h2, n1, n2, n3}
  NoNode = NoNode
  StockHead = h1
  ProcessingHead = h2
  Callers = {c1}
  Workers = {w1, w2}
SPECIFICATION FairSpec
CHECK_DEADLOCK FALSE
INVARIANTS
  ResultsKept
  WalkStaysOnList
PROPERTIES
  QueuedIsCollected
  DestructorReturns
