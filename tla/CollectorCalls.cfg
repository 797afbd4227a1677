SPECIFICATION FairSpec
CONSTANTS
  Legs <- MCLegs
  StorageMore = 4
  Words <- MCWords
  FrameWindow = 1
  AnswerWindow = 1
  Dialers = {d1, d2}
  BookByteCap = 12
  TextLimit = 8
  RuleOrder <- MCRuleOrder
  JsonRules = {"j"}
  PayloadLimit = 3
  MaxDepth = 6
  MaxColumns = 4
  MaxSpan = 3
  MaxGridCells = 8
  InlineImageCap = 3
  InlineTotalCap = 5
  ClaimRank <- MCClaimRank
INVARIANTS
  OutcomeTruthful
  AnswersFolded
  StorageKept
PROPERTIES
  LegEnds
CHECK_DEADLOCK FALSE
