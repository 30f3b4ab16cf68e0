SPECIFICATION Spec
CONSTANTS
  N = 2
  Cap = 1
  MaxChunks = 2
  Unruly = {1}
  Kids = {"holding", "detached", "escaped"}
  OsFaults = {"pgidErr", "zeroId", "sinkErr"}
  MayCancel = TRUE
  MaxTroubles = 1
CONSTRAINT FewTroubles
INVARIANTS
  CompleteCapture
  IInv
  ErrorAgreesWithResults
PROPERTIES
  ImplementsJoin
CHECK_DEADLOCK FALSE
