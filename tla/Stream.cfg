SPECIFICATION FairSpec
CONSTANTS
  Payload <- TwoPayloads
  MaxReceive = 1
  MaxSent = 3
  MaxPartial = 1
INVARIANTS
  TypeOK
  StreamIntact
PROPERTIES
  ImplementsChannel
  IntactMessagesArrive
CHECK_DEADLOCK FALSE
