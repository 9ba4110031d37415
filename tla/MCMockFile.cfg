SPECIFICATION Spec
CONSTANTS
  Threads = {t1, t2}
  Handles = {h1, h2}
  NoThread = NoThread
  Calls <- AllCalls
  InitialData <- Start12
  EntryCount = 2
  Kinds <- AllKinds
  Synchronized = TRUE
  MaxInt = 15
  MaxLen = 4
  MaxCalls = 3
SYMMETRY Symmetric
INVARIANTS TypeOK TicketOfCaller StatsAddUp
PROPERTIES RefinesAtomicFile
