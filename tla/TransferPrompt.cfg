CONSTANTS
  Seq <- SeqDef
  BitsPerByte = 8
  MaxFragmentInnerSize = 2
  MaxFragmentsInMessage = 3
  CipherOverhead = 1
  MaxMessages = 1
  Outgoing <- SoundMessages
  AckSendInterval = 1
  ResendDelay = 3
  Expiration = 3
  CleanupDelay = 4
  StaleBestEffort = 12
  StaleKey = 16
  StaleKeyExpiring = 18
  StaleComplete = 17
  MaxLosses = 3
  MaxDups = 1
  MaxIdle = 2
  Prompt = TRUE
  EarlySend = TRUE
SPECIFICATION FairSpec
INVARIANTS
  TypeOK
  ReceivedMeansDelivered
  IntactDelivery
PROPERTIES
  NoCopyOnceKnown
  PromiseKept
  DeliveryIsLearnt
