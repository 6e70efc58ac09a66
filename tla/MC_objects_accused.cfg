SPECIFICATION Spec
CONSTANTS
  Server = Server
  c1 = c1
  c2 = c2
  Client = {c1, c2}
  NoNode = NoNode
  Id = {i1}
  MaxMade = 2
  Budgets <- BackOnly
INVARIANTS
  NoFalseAccusation
CHECK_DEADLOCK FALSE
