SPECIFICATION MCSpec
CONSTANTS
  Sizes = {0, 3}
  HighWater = 1
  Calls = 3
  Api <- AllCalls
  Faults = {"read", "write", "eof", "throw"}
  Options <- TwoOptions
  DuplexCalls = 4
  DuplexMark = 2
  Halves = {TRUE, FALSE}
  Careless = {}
  Keys = {"char", "newline", "esc", "bracket", "ctrlC"}
  Heard = {"data"}
  KeyCount = 3
  StdinCalls = 3
  OutCalls = 4
  OutMark = 2
  OutFaults = {"refuse", "fail"}
CHECK_DEADLOCK FALSE
INVARIANTS StreamsTypeOK FilesAreSafe StreamsAreSafe
PROPERTIES ImplementsPipe StreamsGoOn
