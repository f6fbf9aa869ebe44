SPECIFICATION FairSpec
CONSTANTS
  e1 = e1
  e2 = e2
  d1 = d1
  d2 = d2
  w1 = w1
  w2 = w2
  p1 = p1
  p2 = p2
  Nil = Nil
  Events = {e1}
  Dispatchers = {d1}
  Workers = {w1}
  Inliners = {}
  Batch = 1
  MaxAttempts = 2
  LeasePosts = 0
  MaxEndpoints = 1
  Faults <- CrashFaults
PROPERTY EveryEventRetired
CHECK_DEADLOCK FALSE
