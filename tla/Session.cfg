SPECIFICATION FairSessionSpec
CONSTANTS
  c1 = c1
  c2 = c2
  NoConn = NoConn
  Conn = {c1, c2}
  Fragile = {c2}
  MaxEntityId = 3
  MaxAccept = 1
  MaxQueued = 0
  ClientQueued = 1
  BackPressure = FALSE
  UnknownTypes = {}
PROPERTIES
  ClientsAreKept
  ClientIsServed
  ClientGoneNoticed
  ServerGoneNoticed
