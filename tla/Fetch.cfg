SPECIFICATION Spec
CONSTANTS
  Fetches = {f1, f2}
  MaxReactions = 2
CHECK_DEADLOCK FALSE
INVARIANTS OneThreadRunsCode
