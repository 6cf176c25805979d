CONSTANTS
  SeqIdBound = 3
  HeartbeatInterval = 1
  TimeoutDelay = 1
  MaxDial = 1
  MaxIdle = 1
  MaxLate = 0
  MaxSends = 4
  MaxSendsMixed = 1
  MaxEnds = 1
  MaxFaults = 1
SPECIFICATION Spec
INVARIANTS
  TypeOK
  DataIsWhatWasSent
  EndComesLast
PROPERTIES
  OverIsFinal
  RemovalIsAnnounced
CHECK_DEADLOCK FALSE
