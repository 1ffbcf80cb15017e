SPECIFICATION Spec
CHECK_DEADLOCK FALSE
CONSTANTS
  MaxExperiments = 2
  MemoryEnabled = TRUE
  MaxCrashesInRow = 3
  MaxSessions = 1
  MaxGitErrors = 0
INVARIANT KeptStays
