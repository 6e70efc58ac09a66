SPECIFICATION FairSpec
CONSTANTS
  c1 = c1
  c2 = c2
  c3 = c3
  c4 = c4
  Client = {c1, c2, c3}
  Port = {1, 2}
  MaxSlots = 3
  Soft = 1
  Hard = 2
  Worlds <- SharedFullAndBack
  MaxSession = 3
INVARIANTS TypeOK OneSlotEach OnlyOwnAccept AckedByOwner SameIPBounded NobodyElseLogsOut
PROPERTIES EventuallyAgree
CHECK_DEADLOCK FALSE
