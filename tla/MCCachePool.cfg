SPECIFICATION Spec
CONSTANTS
  Procs = {p1, p2}
  Requests <- PoolRequests
  Sts = {}
  Lives = {4}
  Ttls = {3}
  DefaultLife = 4
  Early = 1
  MaxLatency = 1
  Sizes = {1, 2}
  MaxTime = 4
  MaxRuns = 3
INVARIANT HitIsOwn
CHECK_DEADLOCK FALSE
