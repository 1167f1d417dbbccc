SPECIFICATION FairSpec
CONSTANTS
  SIZE_MOD = 1024
  StackTop <- MCStackTop
  HeapSizes <- MCHeapSizes
  Requests <- MCRequests
INVARIANTS
  TypeOK
  WellLinked
  Tiled
  Coalesced
  OwnedIsUsable
  AllFreedIsWhole
  BusyIsExact
  NullMeansFull
PROPERTIES
  KmallocReturns
  ImplementsAllocator
