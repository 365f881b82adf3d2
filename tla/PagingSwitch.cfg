SPECIFICATION Spec
CONSTANTS
  NPTE = 2
  MAX_PROCS = 3
  TLB_SIZE = 2
  Names = {Gusty, Coletta}
  NoName = NoName
  Offsets = {0}
  Accesses = {3}
  Pages = {x}
  Coletta = Coletta
  Gusty = Gusty
  x = x
PROPERTIES
  TlbInvalidatedOnSwitch
CHECK_DEADLOCK FALSE
