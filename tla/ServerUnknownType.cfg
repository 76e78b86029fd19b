SPECIFICATION ServerSpec
CONSTANTS
  c1 = c1
  c2 = c2
  NoConn = NoConn
  Conn = {c1, c2}
  UnknownTypes = {c2}
  MaxEntityId = 3
  MaxAccept = 1
  MaxQueued = 1
  BackPressure = FALSE
PROPERTY
  EveryConnectionRead
