SPECIFICATION Spec
CONSTANTS
  Lexicon <- MCLexicon
  VowelWords <- MCVowelWords
  NumberOf <- MCNumberOf
  ClaimRank <- MCClaimRank
  Inputs <- MCInputs
  Families = {"flow", "structure", "headings", "recognized", "columns", "merge", "chunks"}
  MinimumCapsWords = 2
  MinimumParagraphWords = 3
  FragmentWords = 2
  LongParagraphWords = 3
  MaximumHeadingWords = 3
  GeometryCollectors = {"pdf"}
  LineJoinedCollectors = {"pdf", "grparse"}
  MinimumRepeatPages = 2
  MaximumFurnitureWords = 3
  MaximumMerges = 2
INVARIANTS ContentKept RepairsHold ReadsDown ClientHoldsDocument MergeHolds
           ChunksHoldDocument
