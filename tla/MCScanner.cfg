SPECIFICATION Spec
CHECK_DEADLOCK FALSE
CONSTANTS
  BlockSize = 2
  UngetSize = 4
  Faults = {"read"}
  Files <- MCFiles
  Words <- MCWords
  BufSize = 4
INVARIANTS
  TypeOK
  TokensAreInPlace
  NothingIsLost
  TokensAreLongest
PROPERTY LexingEnds
