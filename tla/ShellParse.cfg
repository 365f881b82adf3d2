SPECIFICATION Spec
CONSTANTS
  MAXARGS = 3
  Tokens = {"a", "|", "(", ")", ";", "&", ">"}
  MaxTokens = 6
INVARIANTS
  ParsesTheGrammar
  WordsEnded
CHECK_DEADLOCK FALSE
