SPECIFICATION FairSocketSpec
CONSTANTS
  t1 = t1
  t2 = t2
  d1 = d1
  d2 = d2
  NoThread = NoThread
  Invalid = Invalid
  Thread = {t1, t2}
  Descriptor = {d1, d2}
  Addresses = 2
  Calls = {"connectTo", "bindSocket", "listenSocket", "acceptSocket", "sendData", "receiveData", "setBlocking", "getPort", "shutdownSocket", "closeSocket"}
INVARIANTS
  TypeOK
  DescriptorOwned
  NoHalfOpenSocket
PROPERTY
  LockReleased
CHECK_DEADLOCK FALSE
