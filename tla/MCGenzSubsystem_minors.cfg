SPECIFICATION Spec
CONSTANTS
  Callers = {c1}
  Slots = {0}
  MAXBUSES = 254
  GENZ_MINORBITS = 14
  MaxInterface = 1
  Majors = {1}
  Faults = {}
  NULL = NULL
INVARIANT
  RoomForAll
CHECK_DEADLOCK FALSE
