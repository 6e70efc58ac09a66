SPECIFICATION Spec
CONSTANTS
  Server = Server
  c1 = c1
  c2 = c2
  Client = {c1, c2}
  NoNode = NoNode
  Prefetch = 8
  FirstFill = 3
  MinLimit = 12
  MaxLimit = 14
  Increase = 2
  Keep = 1
  Share = 20
  Budgets <- ShortAndLong
INVARIANTS
  TypeOK
  IdsAreOwned
  Accounted
  NoDeadWait
PROPERTIES
  NotReusedSoon
CHECK_DEADLOCK FALSE
