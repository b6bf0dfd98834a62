\* Three threads and at most four connections: two made by the constructor, two
\* on demand, of both classes, with every connect and every setSchema free to
\* fail. A table of up to three columns that is altered. Texts of six lines.
SPECIFICATION MCSpec
CONSTANTS
  Threads = {t1, t2, t3}
  NoThread = NoThread
  MaxConnections = 4
  Tables <- MCTables
  Nothing = Nothing
  Lines <- MCLines
  Untitled = ""
  Comma = ","
  MAX_LINES = 6
INVARIANTS
  ExclusiveUse
  NoConnectionLost
  ValuesKeepTheirColumn
  InsertsAreTaken
  HeadersDescribeBlocks
  ConstructorsInitialise
CHECK_DEADLOCK FALSE
