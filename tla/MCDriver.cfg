CONSTANTS
  WORD = 4
  kbest = 2
  maxsamples = 3
  EPSILON = 1
  RECORDTHRESH = 1
  USEC = 4
  MAX_ETIME = 8
  ALIGNMENT = 2
  MAX_HEAP = 6
  CHARS = 4
  NULL = NULL
  Addresses <- MCAddresses
  Increments <- MCIncrements
  Runs <- MCRuns
  MaxIndex = 1
  Timers = {"fcyc", "itimer", "gettod"}
  Durations = {2, 3, 5}
  Counts = {3, 14}
  Events <- MCEvents
  TimedRuns = 2
  MaxElapsed = 4
SPECIFICATION FairSpec
INVARIANTS
  BadAllocatorIsCaught
  UtilizationIsRight
PROPERTIES
  GoodAllocatorIsNotBlamed
  TimeIsRight
  DriverEnds
CHECK_DEADLOCK FALSE
