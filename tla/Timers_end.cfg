SPECIFICATION FairSpec
CONSTANTS
  main = main
  worker = worker
  t1 = t1
  t2 = t2
  t3 = t3
  Nowhere = Nowhere
  Main = main
  Loops = {main, worker}
  Timers = {t1}
  Intervals = {}
  OtherHandles = FALSE
  MaxJobs = 3
PROPERTIES LoopsEndWithTimers
CHECK_DEADLOCK FALSE
