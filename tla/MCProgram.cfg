SPECIFICATION FairSpec
CHECK_DEADLOCK FALSE
CONSTANTS
  Trees <- Programs
  Width = 3
INVARIANTS
  TasksFit
  OperandsMatchTasks
  ScopesMatchTasks
  CheckedProgramsRun
  TreeIsFreedOnce
  MeansWhatItSays
PROPERTY SessionEnds
