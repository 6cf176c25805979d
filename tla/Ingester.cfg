CONSTANTS
  MaxMsgLen = 2
  Outgoing <- OutgoingDef
  MaxWrites = 3
SPECIFICATION Spec
INVARIANTS
  TypeOK
  FramingKept
  OnlyEmptyMessagesWait
CHECK_DEADLOCK FALSE
