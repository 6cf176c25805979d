CONSTANTS
  SeqIdBound = 8
  HeartbeatInterval = 1
  TimeoutDelay = 4
  MaxDial = 4
  MaxIdle = 1
  MaxLate = 0
  MaxSends = 0
  MaxSendsMixed = 0
  MaxEnds = 1
  MaxFaults = 0
SPECIFICATION FairSpec
PROPERTIES
  NoSpuriousTimeout
  BothEndsLearn
CHECK_DEADLOCK FALSE
