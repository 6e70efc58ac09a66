CONSTANTS
  Server = server
  Client = client
  IdSpace = 8
  Reserved = 1
  NewWindow = 4
  AckBack = 3
  MaxNoAck = 1
  AckWords = 1
  TimeoutPacketLimit = 0
  Lag = 2
  Gap = 2
  AckLag = 2
  Start <- StartWrapping
  MaxMissing = 1
  Limit <- LimitWrapping
SPECIFICATION Spec
INVARIANTS TypeOK AckWindow HandledAtMostOnce NothingLost SurelyNewIsNew
PROPERTY ChannelSpec
CHECK_DEADLOCK FALSE
