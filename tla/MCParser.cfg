SPECIFICATION FairSpec
CHECK_DEADLOCK FALSE
CONSTANT Families <- MCFamilies
INVARIANTS
  ProgramsAreParsed
  OnlyOperatorsAreDropped
  ReducersGetTheirArguments
  ProbeIsTrue
PROPERTIES
  FailureIsInvisible
  ParseEnds
