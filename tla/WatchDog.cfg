\* Up to three programs, four processes, one request in the queue.
CONSTANTS
  Threads = {"main", "worker"}
  NoThread = NoThread
  RequestLimit = 1
  Programs <- Configurations
  Restarted = {"login", "chat"}
  Numbers <- FourNumbers
  MaxWait = 2
SPECIFICATION FairSpec
INVARIANTS
  ListsAgree
PROPERTIES
  EndIsHandled
  RequestsAreTaken
CHECK_DEADLOCK FALSE
