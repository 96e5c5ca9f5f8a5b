SPECIFICATION Spec
CONSTANTS
  VBUFSIZE = 3
  MaxNeed = 3
  Reselect = FALSE
  MaxLen = 2
  MaxSent = 5
  MaxConns = 2
INVARIANTS
  TypeOK
  BufAsserts
  PpAligned
  NoLostWakeup
  ReadyIsReal
PROPERTIES
  IsolatedReads
  RefinesByteStream
  Delivered
CHECK_DEADLOCK FALSE
