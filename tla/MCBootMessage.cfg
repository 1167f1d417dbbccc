SPECIFICATION BootSpec
CONSTANTS
  SIZE_MOD <- MCSizeMod
  StackTop <- MCStackTop
  Directories <- MCDirectories
  Leftovers <- MCLeftovers
  MayFail = TRUE
INVARIANTS SuccessIsReported
