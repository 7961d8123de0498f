CONSTANTS
  Workers = {w1}
  NoWorker = NoWorker
  Cap = 1
  OtherHandles = TRUE
  MaxSent = 2
  MaxSaid = 2
  Stdio = {{"stdin", "stdout"}}
  Output = 2
  ChildCalls = 3
  Funcs = {"f", "g"}
  EventCalls = 3
  Raises = 1
  FromParent = 2
SPECIFICATION MCSpec
CHECK_DEADLOCK FALSE
INVARIANTS TypesOK ExitReachesMain OthersAreHeard ListenersStay
PROPERTIES HeardInOrder StoppedEnds
