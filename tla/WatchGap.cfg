SPECIFICATION Spec
CONSTANTS
  template = template
  seed = seed
  here = here
  there = there
  Templates <- MCTemplates
  Seeds <- MCSeeds
  Dirs <- MCDirs
  DirOf <- MCDirOf
  None = None
  Noise = Noise
  debounceInterval = 2
  QueueCap = 4
  MaxSaves = 3
  MaxNoise = 1
INVARIANTS EveryChangeIsLoaded
CHECK_DEADLOCK FALSE
