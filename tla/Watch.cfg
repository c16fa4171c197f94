SPECIFICATION FairSpec
CONSTANTS
  template = template
  seed = seed
  here = here
  there = there
  Templates <- MCTemplates
  Seeds <- MCSeeds
  Dirs <- MCDirs
  DirOf <- MCDirOf
  None = None
  Noise = Noise
  debounceInterval = 2
  QueueCap = 2
  MaxSaves = 3
  MaxNoise = 1
INVARIANTS QuietMeansCurrent OneReloadPerBurst
PROPERTIES Converges
CHECK_DEADLOCK FALSE
