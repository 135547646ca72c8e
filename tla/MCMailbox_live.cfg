SPECIFICATION FairSpec
CONSTANTS
  w1 = w1
  w2 = w2
  r1 = r1
  r2 = r2
  a1 = a1
  nClients = 1
  server_id = 2
  Writers = {w1}
  Readers = {r1}
  Admins = {}
  Traffic <- LoneTraffic
  ServerTraffic <- ServerPing
  Gcids = {0}
INVARIANTS
  LockDiscipline
PROPERTIES
  SlotDrains
  WriteReturns
