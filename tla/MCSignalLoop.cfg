SPECIFICATION FairSpec
CONSTANTS
  Handlers = {h1, h2}
  MaxCancels = 3
INVARIANT SignalTypeOK
PROPERTIES
  SignalIsAnswered
  CancelReturns
