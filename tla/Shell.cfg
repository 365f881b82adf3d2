SPECIFICATION Spec
CONSTANTS
  NPROC = 6
  NPIPE = 2
  Capacity = 1
  Units = 1
  Sessions <- Parsed
INVARIANTS
  ListsInOrder
  PromptIsQuiet
  Connected
PROPERTIES
  PromptReturns
CHECK_DEADLOCK FALSE
