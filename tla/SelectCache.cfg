SPECIFICATION Spec
CONSTANTS
  a = a
  b = b
  None = None
  Threads <- MCThreads
  Own <- MCOwn
  Buffered <- MCBuffered
  Shared <- MCShared
  Asks <- MCAsks
  MaxLeft = 1
  MaxEvents = 2
INVARIANTS
  NoLostWakeup
  ReadyIsReal
  ConnectSeen
PROPERTIES
  Served
