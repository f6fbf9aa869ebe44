SPECIFICATION FairSpec
CONSTANTS
  c1 = c1
  c2 = c2
  c3 = c3
  k1 = k1
  create = create
  move = move
  Nil = Nil
  Calls = {c1, c2, c3}
  Keys = {k1}
  Creations = {create}
  Moves = {move}
  Slow = {c3}
  Faults <- AllFaults
INVARIANTS TypeOK OneExecutionAtATime ReplayIsOriginal
PROPERTIES  KeyNeverWedged
CHECK_DEADLOCK FALSE
