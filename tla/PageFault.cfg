SPECIFICATION Spec
CONSTANTS
  Pids = {p, q}
  BigPids = {q}
  Tids = {t, u}
  Threshold = 1
  RelayCap = 2
  MaxTime = 3
  MaxStarts = 2
  MaxLoads = 2
  MaxFaults = 2
INVARIANTS
  TrueFaults
  OwnStatus
  Untracked
SYMMETRY Symmetry
CHECK_DEADLOCK FALSE
