SPECIFICATION FairSpec
CONSTANTS
  WORD = 65536
  Calls <- MCCalls
INVARIANTS PrintsWhatIsMeant
PROPERTIES StopsAtTerminator
