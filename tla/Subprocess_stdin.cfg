SPECIFICATION Spec
CONSTANTS
  Stdio = {{"stdin"}}
  Output = 1
  ChildCalls = 2
CHECK_DEADLOCK FALSE
INVARIANTS StdinClosesOnce
