CONSTANTS
  HeartbeatDelay = 1
  TimeoutDelay = 5
  SynDelay = 3
  ClearDelay = 2
  MaxIdle = 1
  MaxLosses = 1
  MaxDups = 0
  MaxSends = 0
  MaxEnds = 1
  MaxLate = 1
  ListenerDrains = FALSE
SPECIFICATION FairSpec
PROPERTIES
  DisagreementEnds
