SPECIFICATION FramingSpec
CONSTANTS
  Sides = {"psqlc", "psqls", "mysql", "fcgi"}
  HDR = 2
  STARTUP = 3
  BYTE = 8
  UINT = 4096
  Types <- MCTypes
  Sizes <- MCSizes
  Splits = {"psqlc", "psqls", "mysql"}
  MaxMsgs = 3
  MaxWrite = 4
INVARIANTS
  HeardAll
  InStep
  NothingPending
CHECK_DEADLOCK FALSE
