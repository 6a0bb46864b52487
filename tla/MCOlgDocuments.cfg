SPECIFICATION Spec
CHECK_DEADLOCK FALSE
CONSTANTS
  Programs <- TourOnly
  FirstCap = 8
  Width = 5
  MaxDepth = 26
INVARIANT RunsAsDocumented
