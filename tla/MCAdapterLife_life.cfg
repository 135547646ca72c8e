SPECIFICATION Spec
CONSTANTS
  Devices = {d1, d2}
  Adapters = {a1, a2}
  Cores = {c1, c2}
  nClients = 1
  nEvents = 3
  OnlySlots = {NULL, d1, d2}
  MaxSema = 2
  Faults = {"send", "probe_signal", "exit_signal", "noslot", "unplug", "chrdev"}
  NULL = NULL
SYMMETRY Symmetry
INVARIANTS
  TypeOK
  IsrSafe
  AllOrNothing
  ReleasedOnce
  ListedLive
  ListExclusive
  
  BridgeGone
CHECK_DEADLOCK FALSE
