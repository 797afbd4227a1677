SPECIFICATION Spec
CONSTANTS
  DocPages = 1
  PageWindow = 2
  Plans <- CvAndLeg
  Projections = {0, 2}
  MaxChunks = 1
  MaxDocumentBytes = 1
  BadUploads = FALSE
  MayCancel = FALSE
  MayFail = FALSE
  MayBreach = TRUE
INVARIANTS NoWriteAfterFinish
