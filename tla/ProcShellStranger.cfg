SPECIFICATION ShellSpec
CONSTANTS
  NPROC = 3
  Pids = {1, 2, 3, 4, 5}
  Chans = {9}
  Prios = {1024}
  MaxPid = 5
  MaxQuantums = 2
PROPERTIES
  WaitReapsOwnChild
CHECK_DEADLOCK FALSE
