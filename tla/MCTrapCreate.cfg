SPECIFICATION FairSpec
CONSTANTS
  MAX_THREADS = 3
  MaxSleep = 2
  TICKS_MAX = 7
  MaxCreate = 2
  Started <- MCNoneStarted
  Faulting <- MCFirstFaults
  HeapMayFail = TRUE
INVARIANTS
  TypeOK
  CurrentIsRunning
  OnlyLiveThreadsRun
  InterruptsAreRestored
  NoThreadSkipped
  SleepersCanWake
  CreatedSlotIsDead
PROPERTIES
  ContextIsOwn
  SleepersWake
