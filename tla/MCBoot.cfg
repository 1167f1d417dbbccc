SPECIFICATION BootFairSpec
CONSTANTS
  SIZE_MOD <- MCSizeMod
  StackTop <- MCStackTop
  Directories <- MCDirectories
  Leftovers <- MCLeftovers
  MayFail = TRUE
INVARIANTS BootTypeOK FrameOutlivesTransfer FindsFile PanicsOnlyWithoutScreen
           FrameIsApart HeapIsBalanced
PROPERTIES KernelGoesOn
