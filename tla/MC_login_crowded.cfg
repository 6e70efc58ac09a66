SPECIFICATION Spec
CONSTANTS
  c1 = c1
  c2 = c2
  c3 = c3
  c4 = c4
  Client = {c1, c2, c3, c4}
  Port = {1}
  MaxSlots = 2
  Soft = 1
  Hard = 2
  Worlds <- TwoNeighbours
  MaxSession = 4
INVARIANTS KickedAreCrowded
CHECK_DEADLOCK FALSE
