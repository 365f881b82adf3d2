SPECIFICATION USpec
CONSTANTS
  HeaderSize = 16
  NALLOC = 8
  Base = 10
  Requests = {0, 16, 32, 128}
  Mems = {1, 2, 11}
INVARIANTS
  SoundlyTiled
  BaseStaysApart
PROPERTIES
  SoundCallsReturn
CHECK_DEADLOCK FALSE
