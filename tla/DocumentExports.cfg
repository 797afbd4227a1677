SPECIFICATION Spec
CONSTANTS
  Documents <- MCDocuments
  OptionSets <- MCOptionSets
  Families = {"nested", "floats", "tables", "misplaced", "transcripts"}
  MaxGridPositions = 5
  DocumentPositions = 5
  RepeatPositions = 2
  RepeatBytes = 2
  MaxNestingLevel = 1
INVARIANTS
  RenderedWhole
  RenderedInOrder
  SideTablesHold
  LoadKeepsTree
CHECK_DEADLOCK FALSE
