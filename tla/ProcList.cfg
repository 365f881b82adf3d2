SPECIFICATION Spec
CONSTANTS
  START_PID = 1024
  MaxProcs = 4
  Names = {kernel, Gusty, Zac}
  kernel_name = kernel
  Priorities = {0, 1, 2}
  kernel = kernel
  Gusty = Gusty
  Zac = Zac
INVARIANTS LinksAgree AllReached
PROPERTIES QueueSpec CommandsEnd
CHECK_DEADLOCK FALSE
