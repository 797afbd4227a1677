SPECIFICATION Spec
CONSTANTS
  Jobs <- MCJobs
  LineSlack = 4
  MaxHeaderBandRows = 4
INVARIANTS
  FoldKeepsTree
  FoldComplete
  ReadsAsLaidOut
CHECK_DEADLOCK FALSE
