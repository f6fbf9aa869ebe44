SPECIFICATION FairSpec
CONSTANTS
  q1 = q1
  q2 = q2
  Requests = {q1, q2}
  MaxSessions = 2
  MaxTokens = 6
  Faults <- AllFaults
INVARIANTS TypeOK OwnData
PROPERTIES StaysSignedIn  EveryQueryEnds
CHECK_DEADLOCK FALSE
