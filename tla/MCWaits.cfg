SPECIFICATION Spec
CONSTANTS
  Sleepers = {g1, g2}
  Simulators = {s1, s2}
  FirstSimulator = s1
  NumOperations = 2
  OpClose = 1
  DurationArgs <- MCDurations
  MaxSims = 4
INVARIANTS OneSleeper OnceAccounting
PROPERTIES EverySleepEnds EveryCallReturns
CHECK_DEADLOCK FALSE
