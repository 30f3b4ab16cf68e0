SPECIFICATION ProgramSpec
CONSTANTS
  N = 1
  Cap = 1
  MaxChunks = 2
  Unruly = {1}
  Kids = {"holding", "detached", "escaped"}
  OsFaults = {"sinkErr"}
  MayCancel = TRUE
  Sizes = {1}
  TtyCap = 1
  TtyMax = 1
INVARIANT GroupDiesWithContext
