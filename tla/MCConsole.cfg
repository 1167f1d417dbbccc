SPECIFICATION Spec
CONSTANTS
  FB_WIDTH = 1280
  FB_HEIGHT = 720
  ASCII_FONT_WIDTH = 10
  ASCII_FONT_HEIGHT = 19
  boot = boot
  other = other
  Start <- MCStart
  Calls <- MCCalls
  Threads <- MCThreads
  Main = boot
INVARIANTS
  TypeOK
  GlyphsOnScreen
