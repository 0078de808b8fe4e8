CONSTANTS
  t1 = t1
  t2 = t2
  t3 = t3
  NoThread = NoThread
  Threads <- MCThreads
  Locks <- MCLocks
  Recursive = {3}
  Programs <- FairPrograms
  Cancelable = {}
  Graphs <- MCGraphs
  NewComponent = 1000000
SPECIFICATION FairSpec
PROPERTIES SemanticsPreserved NestingLearned
CHECK_DEADLOCK FALSE
