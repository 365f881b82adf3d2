SPECIFICATION Spec
CONSTANTS
  HeaderSize = 16
  NALLOC = 4
  Base = 0
  Requests = {0, 16, 64}
  FirstBrk = 2
  LastBrk = 12
  Gaps = {0, 1}
INVARIANTS
  Tiled
  RingSorted
  Coalesced
  GrowsInNeed
PROPERTIES
  HeapSpec
  CallsReturn
