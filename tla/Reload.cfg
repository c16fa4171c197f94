SPECIFICATION FairSpec
CONSTANTS
  MaxGen = 4
  None = None
  ExpiryDuringReload = FALSE
INVARIANTS
  ServedIsOpen
  GraceHonoured
  LeakBound
  ExitReleases
  NoDoubleClose
PROPERTIES
  PromiseKept
  SupersededAreClosed
CHECK_DEADLOCK FALSE
