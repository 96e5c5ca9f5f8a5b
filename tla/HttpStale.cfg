SPECIFICATION HttpSpec
CONSTANTS
  VBUFSIZE = 9
  HDR = 3
  ReqBodies = {0}
  Bodies = {0, 1}
  Kinds = {"length", "close", "none"}
  LargestWrite = 9
  Cuts = TRUE
  MaxMsgs = 2
INVARIANTS
  OffsetInBuffer
CHECK_DEADLOCK FALSE
