CONSTANTS
  Seq <- SeqDef
  BitsPerByte = 8
  MaxFragmentInnerSize = 2
  MaxFragmentsInMessage = 3
  CipherOverhead = 1
  MaxMessages = 1
  Outgoing <- TwoEncryptedFragments
  AckSendInterval = 1
  ResendDelay = 3
  Expiration = 3
  CleanupDelay = 4
  StaleBestEffort = 4
  StaleKey = 5
  StaleKeyExpiring = 7
  StaleComplete = 6
  MaxLosses = 1
  MaxDups = 0
  MaxIdle = 1
  Prompt = TRUE
  EarlySend = FALSE
SPECIFICATION Spec
INVARIANTS
  IntactDelivery
