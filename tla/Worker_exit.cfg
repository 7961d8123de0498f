CONSTANTS
  Workers = {w1}
  NoWorker = NoWorker
  Cap = 1
  OtherHandles = FALSE
  MaxSent = 0
  MaxSaid = 0
SPECIFICATION Spec
INVARIANTS ExitReported
CHECK_DEADLOCK FALSE
