SPECIFICATION FairSpec
CONSTANTS
  t1 = t1
  d1 = d1
  NoThread = NoThread
  Invalid = Invalid
  Thread = {t1}
  Descriptor = {d1}
  Addresses = 2
  Calls = {"bindSocket", "listenSocket"}
PROPERTIES
  ListenReturns
CHECK_DEADLOCK FALSE
