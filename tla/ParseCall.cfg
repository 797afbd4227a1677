SPECIFICATION Spec
CONSTANTS
  Calls = {c1, c2}
  NoCall = NoCall
  Workers = {w1, w2}
  Requests <- Mixed
  Configured = {"pdf", "libreoffice", "calamine", "xml", "vlm"}
  QueueCapacity = 1
  FetchLimit = 1
  PoolSize = 1
  BudgetLimit = 3
  RequestBytes = 1
  FetchedBytes = 1
  Messages = 1
  MayStop = FALSE
  MayFail = {"options", "fetch", "decode", "collector", "recognition", "factory", "structure", "shape", "delivery", "embedding", "write"}
INVARIANTS ResourcesConserved AnsweredOnce OKCarriesPlan OverlayIsCv
SYMMETRY CallSymmetry
