SPECIFICATION Spec
CONSTANTS
  NPROC = 3
  Pids = {0, 1, 2, 3, 4}
  Chans = {9}
  Prios = {1024}
  MaxPid = 4
INVARIANTS
  TypeOK
  PidsUnique
  Parented
  NoLostWakeup
PROPERTIES
  OnlyZombiesLeave
  PoolSpec
  LostSlotsStayLost
CHECK_DEADLOCK FALSE
