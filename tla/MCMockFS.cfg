SPECIFICATION Spec
CONSTANTS
  a = a
  b = b
  Names = {a, b}
  Dot = Dot
  MaxDepth = 2
  MaxSize = 1
  None = None
  CreateIfMissing = TRUE
  WriteMode = "overwrite"
  Threads = {t1, t2}
  BadPath = BadPath
  Calls <- AllCalls
  RuleArgs <- AllRules
  MaxOptions = 3
  MaxCalls <- CallBound
SYMMETRY Symmetric
INVARIANTS TypeOK BuiltWhereWritten AnswersFromOneVersion ErrorsReported CallsCounted SubFailsAlike
PROPERTIES MarkedStaysGone
