SPECIFICATION Spec
CONSTANTS
  NoValue = NoValue
  MaxPool = 1
  Modules <- EarlyModule
  Modes <- DirectedMode
INVARIANT
  MultithreadedCallsRecorded
CHECK_DEADLOCK FALSE
