SPECIFICATION Spec
CONSTANTS
  w1 = w1
  w2 = w2
  r1 = r1
  r2 = r2
  a1 = a1
  nClients = 1
  server_id = 2
  Writers = {}
  Readers = {r1, r2}
  Admins = {a1}
  Traffic <- LoneTraffic
  ServerTraffic <- SwitchTraffic
  Gcids = {0, 1}
SYMMETRY Symmetry
INVARIANTS
  BusyAccounted
  LockDiscipline
