CONSTANTS
  Locks <- MCLocks
  Graphs <- MCGraphs
SPECIFICATION SccFairSpec
INVARIANT ComponentsAreSCCs
CHECK_DEADLOCK FALSE
