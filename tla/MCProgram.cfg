SPECIFICATION FairProgram
CONSTANTS
  N = 1
  Cap = 1
  MaxChunks = 2
  Unruly = {1}
  Kids = {"holding", "detached", "escaped"}
  OsFaults = {"sinkErr"}
  MayCancel = TRUE
  Sizes = {1, 2}
  TtyCap = 1
  TtyMax = 2
INVARIANTS
  PtyTypeOK
  NothingRunsAtReturn
  OutputEndsFirst
  NothingLeftBehind
  AllShown
PROPERTIES
  TimeoutEndsProgram
  LastSizeWins
  
