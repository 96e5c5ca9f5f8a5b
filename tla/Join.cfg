SPECIFICATION Spec
CONSTANTS
  Www = {w1, w2}
  Children = {h}
  Front = F
  Back = B
  DbConn = c
  MaxReqs = 3
  Cases = {}
INVARIANTS
  Attributed
  InFlight
CHECK_DEADLOCK FALSE
