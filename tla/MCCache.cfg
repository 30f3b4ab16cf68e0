SPECIFICATION Spec
CONSTANTS
  Procs = {p1, p2}
  Requests <- RoleRequests
  Sts <- RoleRequests
  Lives = {}
  Ttls = {0, 2}
  DefaultLife = 3
  Early = 1
  MaxLatency = 1
  Sizes = {1, 2}
  MaxTime = 2
  MaxRuns = 3
INVARIANTS
  TypeOK
  HitIsOwn
PROPERTIES
  HitIsLive
  BrokenUntilSkip
SYMMETRY Symmetry
CHECK_DEADLOCK FALSE
