SPECIFICATION WiringSpec
CONSTANTS
  Commands = {a, b, c}
  Nil = nil
  MaxLen = 3
INVARIANT NilIsAnError
