SPECIFICATION FairSpec
CONSTANTS
  ta = ta
  tb = tb
  Threads <- MCThreads
  fb_size = 3
  MaxDraws = 3
INVARIANTS
  TypeOK
  QuietIsCurrent
PROPERTIES
  DrawnIsShown
