SPECIFICATION Spec
CONSTANTS
  r1 = r1
  r2 = r2
  Requests <- MCRequests
  Configs <- MCConfigs
  MaxGen = 1
  OriginStatuses <- MCStatuses
  FnStatuses <- MCFnStatuses
  None = None
SYMMETRY Symmetry
INVARIANTS StreamsAreClosed OneAnswer FunctionsAreThere ErrorsAreLabelled LogLinesAreWhole
CHECK_DEADLOCK FALSE
