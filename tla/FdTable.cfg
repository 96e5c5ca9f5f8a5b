SPECIFICATION Spec
CONSTANTS
  Threads = {t1, t2}
  MaxFd = 2
  Servers = {https}
  Clients = {psqlc, httpc}
  Stateless = {httpc}
  Objs = {o1, o2}
  MaxCalls = 6
  Nil = Nil
SYMMETRY Symmetry
INVARIANTS
  OwnState
  Followed
  NotMisfollowed
  
CHECK_DEADLOCK FALSE
