SPECIFICATION Spec
CONSTANTS
  w1 = w1
  w2 = w2
  r1 = r1
  r2 = r2
  a1 = a1
  nClients = 3
  server_id = 4
  Writers = {w1}
  Readers = {r1}
  Admins = {}
  Traffic <- GatherTraffic
  ServerTraffic = {}
  Gcids = {0}
INVARIANTS
  ReleaseFreesSender
