SPECIFICATION Spec
CONSTANTS
  PIPE_BUF = 4
  Programs <- MCPrograms
  NTasks = 3
  NProcs = 2
  NConns = 2
INVARIANTS
  TypeOK
  Conserved
  ForkOrder
  NothingLeft
  WholeRecords
  Unharmed
CHECK_DEADLOCK FALSE
