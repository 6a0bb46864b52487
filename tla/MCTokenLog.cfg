SPECIFICATION FairSpec
CONSTANTS
  word = word
  MaxLexemes = 3
  Words <- MCWords
  Inputs <- MCInputs
INVARIANTS
  TypeOK
  LogMatchesText
  MarksNeverSplitAComment
  NewlineFollowsComment
  EndIsFoundOnce
  PositionIsRestored
PROPERTIES
  ImplementsStream
  EveryCallReturns
