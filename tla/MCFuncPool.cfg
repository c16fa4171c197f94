SPECIFICATION FairSpec
CONSTANTS
  c1 = c1  c2 = c2  c3 = c3
  k1 = k1  k2 = k2
  r1 = r1  r2 = r2  r3 = r3
  Callers <- MCCallers
  Closers <- MCClosers
  Runtimes <- MCRuntimes
  MaxIdle = 2
  NoRuntime = NoRuntime
INVARIANTS
  Exclusive
  NoOrphan
  ClosedPoolIsEmpty
  NoTaintedReuse
PROPERTIES
  ClosedPoolDrains
CHECK_DEADLOCK FALSE
