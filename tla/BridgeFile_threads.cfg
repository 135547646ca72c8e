SPECIFICATION Spec
CONSTANTS
  Threads = {t1, t2, t3}
  Files = {f1, f2}
  MaxFds = 2
  NULL = NULL
INVARIANTS
  TypeOK
  ExclusiveOpen
  UsersAccounted
CHECK_DEADLOCK FALSE
