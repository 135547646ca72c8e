SPECIFICATION Spec
CONSTANTS
  Devices = {d1, d2}
  Adapters = {a1, a2}
  Cores = {c1, c2}
  nClients = 1
  nEvents = 3
  OnlySlots = {NULL, d1, d2}
  MaxSema = 2
  Faults = {}
  NULL = NULL
SYMMETRY Symmetry
INVARIANT
  CoreLive
