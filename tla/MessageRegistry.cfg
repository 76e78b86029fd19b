SPECIFICATION Spec
CONSTANTS
  server = server
  client = client
  Chat = Chat
  Move = Move
  Ping = Ping
  Twin = Twin
  Other = Other
  NoType = NoType
  Program = {server, client}
  Type <- Types
  Declared <- TypesDeclared
  Fields <- FieldKinds
  TypeHash <- Hashes
  Word <- Words
  String <- Strings
INVARIANTS
  TypeOK
  TypesAreWhole
  MessagesSurvive
  ReadsStayInside
  UnknownTypesThrow
CHECK_DEADLOCK FALSE
