SPECIFICATION FairSpec
CONSTANTS
  main = main
  worker = worker
  t1 = t1
  t2 = t2
  t3 = t3
  Nowhere = Nowhere
  Main = main
  Loops = {main, worker}
  Timers = {t1, t2}
  Intervals = {t2}
  OtherHandles = TRUE
  MaxJobs = 3
INVARIANTS TypeOK HandlesAreOwned NothingLeftBehind
PROPERTIES ImplementsContract EveryTimerEnds
CHECK_DEADLOCK FALSE
