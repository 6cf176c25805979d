CONSTANTS
  Protocols <- ProtocolsDef
  PingWindows <- PingWindowsDef
  PostEndIters = 2
  PingsLen = 2
  PingPatience = 0
  PingClamp = 2
  MaxWindow = 1
  MaxActivity = 3
SPECIFICATION FairSpec
INVARIANTS
  TypeOK
  NoEventLostOrReordered
  StatusIsTold
  VerdictIsDeserved
  PingsAreTrue
PROPERTIES
  StopTerminates
  EventsReachOwner
  ConnectorDecides
