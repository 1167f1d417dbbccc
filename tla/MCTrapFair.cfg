SPECIFICATION FairSpec
CONSTANTS
  MAX_THREADS = 3
  MaxSleep = 2
  TICKS_MAX = 7
  MaxCreate = 0
  Started <- MCBothStarted
  Faulting <- MCNoFaults
  HeapMayFail = FALSE
PROPERTIES
  ImplementsThreads
  NoStarvation
