SPECIFICATION Spec
CONSTANTS
  Keys = {1, 2, 3, 4, 5, 6, 7, 8}
  Deleted = {1, 2, 3, 4, 5, 6, 7, 8}
  NULL = NULL
INVARIANTS Sorted RedBlack PathFits
PROPERTIES RepairsEnd
CHECK_DEADLOCK FALSE
