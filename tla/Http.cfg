SPECIFICATION HttpSpec
CONSTANTS
  VBUFSIZE = 9
  HDR = 2
  ReqBodies = {0}
  Bodies = {0, 1, 2}
  Kinds = {"length", "close"}
  LargestWrite = 9
  Cuts = FALSE
  MaxMsgs = 3
INVARIANTS
  Survives
  HeardBeforeServed
  HeardResponses
PROPERTIES
  IsolatedRequests
CHECK_DEADLOCK FALSE
