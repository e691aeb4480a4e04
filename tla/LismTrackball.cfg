CONSTANTS
  CPI_MIN = 2
  CPI_MAX = 4
  DefaultState <- Defaults
  StoredStates <- Stored
  Writes <- SomeWrites
  Levels = {0, 50}
  Layers = {0, 1}
  MaxWrites = 2
  MaxEvents = 1
  MaxSubscribes = 1
  Motions <- SomeMotions
  Overflows <- Wrapped
SPECIFICATION BoundedSpec
INVARIANTS
  TypeOK
  AppliedIsCurrent
  AnswersAreDurable
  MirrorIsCurrent
  MixedCurvesAreBounded
CHECK_DEADLOCK FALSE
