SPECIFICATION Spec
CONSTANTS
  Docs = {d1}
  NoDoc = NoDoc
  Openers = {o1}
  Renderers = {r1}
  Recognizers = {i1}
  Assemblers = {a1, a2}
  MaxPage = 3
  OpenSpans <- Ranged
  PageWindow = 2
  MaxActiveDocuments = 2
  DocumentCapacity = 1
  RenderCapacity = 1
  InferenceCapacity = 1
  AssemblyCapacity = 1
  Consumers = {"release", "cancel"}
  MayThrow = TRUE
  MayStop = TRUE
INVARIANTS TypeOK PagesAccounted CancelReachesSource
PROPERTY ImplementsDelivery
SYMMETRY WorkerSymmetry
