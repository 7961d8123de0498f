SPECIFICATION MCSpec
CONSTANTS
  Programs <- AllBodies
  Answers = {"yes", "no", "reject"}
  MaxAnswers = 4
  Counter = 2
  Elements = 2
  p1 = p1
  p2 = p2
  p3 = p3
  None = None
  Promises = {p1, p2, p3}
  Naps = {}
  Adopting = TRUE
  MaxAttached = 2
  MaxMicro = 3
SYMMETRY Symm
CHECK_DEADLOCK FALSE
INVARIANTS TypesOK ResumesWhereItStopped KeepsOnlyItsPlace RejectionsAreJudged
PROPERTIES ImplementsContract NoFalseReport
