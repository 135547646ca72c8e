SPECIFICATION Spec
CONSTANTS
  Threads = {t1, t2}
  Files = {f1, f2}
  MaxFds = 2
  NULL = NULL
INVARIANT NeverBug
