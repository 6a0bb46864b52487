SPECIFICATION FairSpec
CHECK_DEADLOCK FALSE
CONSTANTS
  Trees <- Leaks
  Width = 3
INVARIANT OperandsFit
