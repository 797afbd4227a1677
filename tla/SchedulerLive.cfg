SPECIFICATION FairSpec
CONSTANTS
  Docs = {d1}
  NoDoc = NoDoc
  Openers = {o1}
  Renderers = {r1}
  Recognizers = {i1}
  Assemblers = {a1}
  MaxPage = 3
  OpenSpans <- Ranged
  PageWindow = 1
  MaxActiveDocuments = 2
  DocumentCapacity = 1
  RenderCapacity = 1
  InferenceCapacity = 1
  AssemblyCapacity = 1
  Consumers = {"accept", "cancel"}
  MayThrow = TRUE
  MayStop = TRUE
PROPERTY EveryDocumentFinishes
