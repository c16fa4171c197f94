SPECIFICATION Spec
CONSTANTS
  MaxGen = 3
  None = None
  ExpiryDuringReload = TRUE
INVARIANTS
  GraceHonoured
CHECK_DEADLOCK FALSE
