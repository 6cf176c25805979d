CONSTANTS
  HeartbeatDelay = 2
  TimeoutDelay = 10
  SynDelay = 6
  ClearDelay = 4
  MaxIdle = 2
  MaxLosses = 1
  MaxDups = 0
  MaxSends = 1
  MaxEnds = 1
  MaxLate = 0
  ListenerDrains = FALSE
SPECIFICATION FairSpec
PROPERTIES
  NoSpuriousTimeout
  HandshakeResolves
  GhostsVanish
