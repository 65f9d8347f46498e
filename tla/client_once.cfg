SPECIFICATION Spec
CONSTANTS
  Apps = {a1, a2}
  a1 = a1
  a2 = a2
  Clients = {c1, c2}
  TlsClients = {c2}
  c1 = c1
  c2 = c2
  None = None
  MaxIds = 2
  Rcbs = {r1}
  r1 = r1
  Once = TRUE
INVARIANTS ReportToLatest NoTableRace DestroyedOnce TlsOutlivesConnection OwnHandler TableClean
PROPERTIES Notified
