CONSTANTS
  Server = server
  Client = client
  IdSpace = 16
  Reserved = 1
  NewWindow = 8
  AckBack = 5
  MaxNoAck = 1
  AckWords = 1
  TimeoutPacketLimit = 0
  Lag = 3
  AckLag = 4
  Gap = 4
  Start <- StartFresh
  MaxMissing = 0
  Limit <- LimitEach
SPECIFICATION LiveSpec
PROPERTIES EventuallySettled EventuallyAcknowledged
CHECK_DEADLOCK FALSE
