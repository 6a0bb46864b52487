SPECIFICATION Spec
CONSTANTS
  Keys = {"a", "b", "c", "e"}
  Values = {0, 1}
  Zero = 0
  NULL = NULL
  Hash <- MCHash
  InitialCap = 2
INVARIANTS
  TypeOK
  OneWayToEveryNode
  SizeIsTrue
  NothingIsLeft
PROPERTIES
  CallsReturn
  IsADictionary
