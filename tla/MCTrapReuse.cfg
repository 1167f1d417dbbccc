SPECIFICATION Spec
CONSTANTS
  MAX_THREADS = 3
  MaxSleep = 2
  TICKS_MAX = 7
  MaxCreate = 1
  Started <- MCBothStarted
  Faulting <- MCNoFaults
  HeapMayFail = FALSE
INVARIANTS
  StackFreesAreLegal
