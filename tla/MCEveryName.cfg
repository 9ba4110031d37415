SPECIFICATION Spec
CONSTANTS
  Names = {a, b}
  Dot = Dot
  MaxDepth = 2
  MaxSize = 0
  None = None
  CreateIfMissing = FALSE
  WriteMode = "overwrite"
INVARIANTS EveryNameHasEntry
