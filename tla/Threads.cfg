SPECIFICATION EitherSpec
CONSTANT loops = 5
INVARIANTS FinalInRange NoneLost
PROPERTIES MainEnds
CHECK_DEADLOCK FALSE
