CONSTANTS
  Locks <- MCLocks
  Graphs <- MCGraphs
SPECIFICATION SccFairSpec
INVARIANTS SccTypeOK QueuedOnce EdgesDescend CyclesShareComponent AcyclicSingletons
PROPERTY FindSCCTerminates
CHECK_DEADLOCK FALSE
