SPECIFICATION FairSpec
CONSTANTS
  Payload <- TwoPayloads
  MaxReceive = 1
  MaxSent = 2
  MaxPartial = 1
PROPERTY
  EveryMessageArrives
CHECK_DEADLOCK FALSE
