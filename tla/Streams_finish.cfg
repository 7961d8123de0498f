SPECIFICATION MCSpec
CONSTANTS
  Sizes = {0, 4}
  HighWater = 2
  Calls = 3
  Api <- AllCalls
  Faults = {}
  Options <- TwoOptions
  DuplexCalls = 4
  DuplexMark = 2
  Halves = {TRUE, FALSE}
  Careless = {"flushInCallback"}
  Keys = {}
  Heard = {}
  KeyCount = 0
  StdinCalls = 0
  OutCalls = 4
  OutMark = 2
  OutFaults = {"refuse", "fail"}
CHECK_DEADLOCK FALSE
INVARIANT FinishMeansWritten
