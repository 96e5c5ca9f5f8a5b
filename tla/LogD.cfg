SPECIFICATION Spec
CONSTANTS
  HDR = 2
  RELAY_BUF = 4
  MaxRec = 4
  Hosts = {"a"}
  NFds = 2
  NConns = 2
  MaxRecs = 2
  Breakers = {2}
  Stops = TRUE
INVARIANTS
  RoomToRead
  LoggedAtClose
PROPERTIES
  RefinesRecordLog
  EventuallyLogged
CHECK_DEADLOCK FALSE
