SPECIFICATION Spec
CONSTANTS
  Capacity = 3
  MaxKills = 6
INVARIANT
  ReadsWhatWasSent
PROPERTY
  ProgramsEnd
CHECK_DEADLOCK FALSE
