SPECIFICATION Spec
CONSTANTS
  c1 = c1
  c2 = c2
  h1 = h1
  h2 = h2
  p1 = p1
  TcpClients = {c1, c2}
  HttpClients = {h1, h2}
  PgClients = {p1}
  Sessions = {c1, c2, h1, h2, p1}
  JsonDiffers = {3}
  KeyOrder <- TextOrder
  MaxFaults = 1
  NoSQL = NoSQL
  MaxReplies = 4
  MaxConnections = 1
  PgMaxConns = 1
  Loads <- MCLoads
INVARIANTS
  ServerTypeOK
  PgAnswers
  StorageClosedLast
  SchedulersEnd
PROPERTIES
  AckedIsDone
  FailedLosesNone
  StopEnds
CHECK_DEADLOCK FALSE
