SPECIFICATION Spec
CONSTANTS
  Callers = {c1, c2}
  Slots <- SlotsOfEachKind
  MAXBUSES = 1
  GENZ_MINORBITS = 2
  MaxInterface = 1
  Majors = {1, 2}
  Faults = {"root", "device"}
  NULL = NULL
INVARIANTS
  TypeOK
  DevTUnique
  BitsAreRegions
  WholeOrNothing
  ParentListed
  InitAllOrNothing
PROPERTIES
  CallsReturn
CHECK_DEADLOCK FALSE
