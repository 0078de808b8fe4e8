CONSTANTS
  t1 = t1
  t2 = t2
  t3 = t3
  NoThread = NoThread
  Threads <- MCThreads
  Locks <- MCLocks
  Recursive = {3}
  Programs <- TryPrograms
  Cancelable = {}
  Graphs <- MCGraphs
  NewComponent = 0
SPECIFICATION FairSpec
INVARIANT AssertMessageTrue
CHECK_DEADLOCK FALSE
