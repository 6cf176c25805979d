CONSTANTS
  HeartbeatDelay = 1
  TimeoutDelay = 3
  SynDelay = 2
  ClearDelay = 1
  MaxIdle = 1
  MaxLosses = 0
  MaxDups = 1
  MaxSends = 1
  MaxEnds = 1
  MaxLate = 1
  ListenerDrains = TRUE
SPECIFICATION Spec
INVARIANTS
  TypeOK
  DataFollowsConnected
PROPERTIES
  FinishedIsFinal
  RemovalIsAnnounced
