CONSTANTS
  Server = server
  Client = client
  IdSpace = 16
  Reserved = 1
  NewWindow = 5
  AckBack = 5
  MaxNoAck = 2
  AckWords = 1
  TimeoutPacketLimit = 0
  Lag = 3
  AckLag = 4
  Gap = 4
  Start <- StartStraddling
  MaxMissing = 0
  Limit <- LimitStraddling
SPECIFICATION Spec
INVARIANT SurelyNewIsNew
CHECK_DEADLOCK FALSE
