SPECIFICATION Spec
CHECK_DEADLOCK FALSE
CONSTANTS
  PoolLen = 25
  CodeLen = 19
  StackLen = 2
  Word = 8
  Half = 128
  PoolBase = 64
  Numbers <- MCNumbers
  Lengths = {0, 2}
  Steps = {1, 4}
  MaxCommands = 3
  MaxStrings = 3
  MaxCalls = 2
INVARIANTS
  TypeOK
  FetchesCommands
  StringsAreApart
  PoolReadsAreInside
PROPERTY FailureLeavesNoResult
