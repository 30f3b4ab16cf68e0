SPECIFICATION FairExecute
CONSTANTS
  Commands = {a, b, c}
  Nil = nil
  MaxLen = 3
  N = 2
  Cap = 1
  MaxChunks = 1
  Unruly = {1}
  Kids = {"holding", "detached", "escaped"}
  OsFaults = {}
  MayCancel = TRUE
CONSTRAINT QuietIfCancelled
INVARIANTS
  WiredInOrder
  EveryEndIsClosed
  PipeEndsClosedLate
  
  NoEarlyEof
PROPERTIES
  FailFast
  NoMutualWait
  NoSurvivors
