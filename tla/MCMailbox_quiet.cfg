SPECIFICATION Spec
CONSTANTS
  w1 = w1
  w2 = w2
  r1 = r1
  r2 = r2
  a1 = a1
  nClients = 3
  server_id = 4
  Writers = {w1, w2}
  Readers = {r1}
  Admins = {}
  Traffic <- DataTraffic
  ServerTraffic = {}
  Gcids = {0}
SYMMETRY Symmetry
INVARIANTS
  TypeOK
  SoleReaderNeverOops
  ReadStable
  HandshakeExclusive
  WriteIntact
  BusyAccounted
PROPERTIES
  ImplementsLetterbox
