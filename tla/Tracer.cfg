CONSTANTS
  t1 = t1
  t2 = t2
  t3 = t3
  NoThread = NoThread
  Threads <- MCThreads
  Locks <- MCLocks
  Recursive = {3}
  Programs <- AllPrograms
  Cancelable = {t2}
  Graphs <- MCGraphs
  NewComponent = 0
SPECIFICATION Spec
INVARIANTS
  TypeOK SerializedHooks RecordsExact OneRecordedHolder HeldNumExact
  RaogSound RaogComplete AbortOnlyOnMisuse
PROPERTIES CycleDelayed NoNeedlessDelay
CHECK_DEADLOCK FALSE
