CONSTANTS
  BitsPerByte = 2
  Seq <- SeqDef
  TotalOf <- TotalOfDef
  Incoming <- IncomingDef
  AckSendInterval = 1
  StaleBestEffort = 1
  StaleKey = 2
  StaleKeyExpiring = 4
  StaleComplete = 3
SPECIFICATION ReceiverSpec
INVARIANTS
  ReceiverTypeOK
  NoFullSetWaits
  CompleteAckMeansDelivered
  AcksAreExact
PROPERTIES
  NoCopyWhileRemembered
