SPECIFICATION Spec
CONSTANTS
  Threads = {t1}
  NoThread = NoThread
  Injectors = {root}
  First = root
  Ops = {OpRead}
  OpUnknown = OpUnknown
  df = df
  f = f
  Paths = {df}
  NoPath = NoPath
  InParent <- MCInParent
  RuleArgs <- DocRuleArgs
  NoRule = NoRule
  MaxRules = 2
  MaxChecks = 3
  MaxWrites = 2
INVARIANTS AfterNSuccesses
CHECK_DEADLOCK FALSE
