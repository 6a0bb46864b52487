SPECIFICATION Spec
CHECK_DEADLOCK FALSE
CONSTANTS
  Programs <- MCPrograms
  FirstCap = 8
  Width = 5
  MaxDepth = 26
INVARIANTS
  RunsAsWritten
  FieldsFollowTheStack
PROPERTY RunEnds
