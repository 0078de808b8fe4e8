SPECIFICATION FairSpec
CONSTANTS
  NoValue = NoValue
  MaxPool = 3
  Modules <- MCModules
  Modes <- BothModes
INVARIANTS
  TypeOK
  SummariesExact
  PathsCovered
  RacesReal
  ParametersBound
PROPERTY
  Terminates
CHECK_DEADLOCK FALSE
