CONSTANTS
  Programs <- Irregular
  Answers = {"yes", "no", "reject"}
  MaxAnswers = 4
  Counter = 2
  Elements = 2
SPECIFICATION Spec
INVARIANTS ResumesWhereItStopped
CHECK_DEADLOCK FALSE
