CONSTANTS
  Seq <- SeqDef
  BitsPerByte = 2
  MaxFragmentInnerSize = 2
  MaxFragmentsInMessage = 3
  CipherOverhead = 1
  MaxMessages = 1
  Outgoing <- AsyncMessages
  AckSendInterval = 1
  ResendDelay = 2
  Expiration = 1
  CleanupDelay = 2
  StaleBestEffort = 1
  StaleKey = 2
  StaleKeyExpiring = 5
  StaleComplete = 3
  MaxLosses = 0
  MaxDups = 1
  MaxIdle = 2
  Prompt = FALSE
  EarlySend = FALSE
SPECIFICATION Spec
INVARIANTS
  ReceivedMeansDelivered
  IntactDelivery
  KeptUntilDelivered
PROPERTIES
  PromiseSafe
