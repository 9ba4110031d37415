SPECIFICATION CountersSpec
CONSTANTS
  Threads = {t1, t2}
  NoThread = NoThread
  Injectors = {root, sub}
  First = root
  Ops = {OpStat, OpRead}
  OpUnknown = OpUnknown
  df = df
  f = f
  Paths = {df, f}
  NoPath = NoPath
  InParent <- MCInParent
  RuleArgs <- MCRuleArgs
  NoRule = NoRule
  MaxRules = 3
  MaxChecks = 3
  MaxWrites = 2
  OpRead = OpRead
  OpWrite = OpWrite
  MaxInt = 2
  Live = Live
  Nobody = Nobody
  MaxChanges = 2
  MaxReadings = 2
INVARIANTS TypeOK FireAccounting FirstMatchWins PlacesDisjoint
INVARIANTS StatsTypeOK ResultsFromTheCall PanicsOnlyWhenTorn
SYMMETRY Symmetric
CHECK_DEADLOCK FALSE
