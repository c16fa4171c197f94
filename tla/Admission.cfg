SPECIFICATION Spec
CONSTANTS
  Star = Star
  QMark = QMark
  Slash = Slash
  None = None
  Https = Https
  Http = Http
  SchemeSep = SchemeSep
  Malformed = Malformed
  www = www
  tenant = tenant
  x = x
  com = com
  d1 = d1
  p = p
  q = q
  app = app
  rsa1 = rsa1
  rsa2 = rsa2
  rsa3 = rsa3
  Configs <- MCConfigs
  Links <- MCLinks
  Visits <- MCVisits
  PublicHosts <- MCPublicHosts
  MaxTime = 3
  MaxSwaps = 1
INVARIANTS OnlyAuthorisedEnter IssuedLinksWork HostIsServedByOwner FirstMatchServes
CHECK_DEADLOCK FALSE
