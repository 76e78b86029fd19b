SPECIFICATION ClientSpec
CONSTANTS
  c1 = c1
  c2 = c2
  NoConn = NoConn
  Conn = {c1, c2}
  UnknownTypes = {}
  MaxEntityId = 1
  MaxAccept = 1
  MaxQueued = 1
  BackPressure = FALSE
INVARIANT
  NotConnectedHoldsNoSocket
CHECK_DEADLOCK FALSE
