SPECIFICATION FairSpec
CONSTANTS
  DocPages = 3
  PageWindow = 2
  Plans <- EveryPlan
  Projections = {0, 2}
  MaxChunks = 2
  MaxDocumentBytes = 2
  BadUploads = TRUE
  MayCancel = TRUE
  MayFail = TRUE
  MayBreach = TRUE
INVARIANTS WireInOrder ChargeConserved OKMeansServed BufferMatchesCredits NoOrphanRun
PROPERTY EveryCallEnds
