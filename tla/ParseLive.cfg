SPECIFICATION FairSpec
CONSTANTS
  Calls = {c1, c2}
  NoCall = NoCall
  Workers = {w1, w2}
  Requests <- Fetched
  Configured = {"pdf", "libreoffice", "calamine", "xml", "vlm"}
  QueueCapacity = 1
  FetchLimit = 1
  PoolSize = 1
  BudgetLimit = 3
  RequestBytes = 1
  FetchedBytes = 1
  Messages = 1
  MayStop = TRUE
  MayFail = {"factory"}
PROPERTY EveryCallAnswered
INVARIANT DrainedBeforeExit
