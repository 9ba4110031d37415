SPECIFICATION Spec
CONSTANTS
  Threads = {t1, t2}
  Handles = {h1, h2}
  NoThread = NoThread
  Calls <- Appends
  InitialData <- Start12
  EntryCount = 2
  Kinds <- AppendedFile
  Synchronized = FALSE
  MaxInt = 15
  MaxLen = 4
  MaxCalls = 3
SYMMETRY Symmetric
INVARIANT AppendsAreKept
