SPECIFICATION MCSpec
CONSTANTS
  NPTE = 2
  MAX_PROCS = 3
  TLB_SIZE = 2
  Names = {Gusty, Coletta}
  NoName = NoName
  Offsets = {0}
  Accesses = {2}
  Pages = {x, y}
  Coletta = Coletta
  Gusty = Gusty
  x = x
  y = y
SYMMETRY
  Symmetric
INVARIANTS
  FramesDisjoint
  OneRunning
  TlbAgrees
  TlbNeverDangles
PROPERTIES
  SpacesSpec
CHECK_DEADLOCK FALSE
