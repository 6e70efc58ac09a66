CONSTANTS
  Server = s
  Client = {c1}
  MaxRound = 2
  MaxExpiry = 1
  MaxLogin = 1
  MaxBarrier = 1
  MaxReports = 2
  MaxNews = 2
SPECIFICATION Spec
INVARIANT TypeOK StaysInStep NeverAhead
PROPERTY InStepOnlyIntoGrid
CHECK_DEADLOCK FALSE
