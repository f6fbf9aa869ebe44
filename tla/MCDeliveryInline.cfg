SPECIFICATION FairSpec
CONSTANTS
  e1 = e1
  e2 = e2
  d1 = d1
  d2 = d2
  w1 = w1
  w2 = w2
  p1 = p1
  p2 = p2
  Nil = Nil
  Events = {e1, e2}
  Dispatchers = {}
  Workers = {}
  Inliners = {p1, p2}
  Batch = 2
  MaxAttempts = 2
  LeasePosts = 3
  MaxEndpoints = 1
  Faults <- QuietFaults
 
PROPERTIES  EveryEventRetired
CHECK_DEADLOCK FALSE
