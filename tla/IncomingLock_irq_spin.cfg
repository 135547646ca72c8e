SPECIFICATION Spec
CONSTANTS
  CPUs = {p1, p2}
  Readers = {r1}
  NULL = NULL
PROPERTY
  HandlerReturns
CHECK_DEADLOCK FALSE
