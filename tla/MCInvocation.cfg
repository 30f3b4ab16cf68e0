SPECIFICATION Spec
INVARIANTS
  TypeOK
  RunOnlyOnValidInput
  TokenHasOneOrigin
  StatusTellsOutcome
