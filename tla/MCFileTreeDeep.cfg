SPECIFICATION Spec
CONSTANTS
  Names = {a}
  Dot = Dot
  MaxDepth = 3
  MaxSize = 1
  None = None
  CreateIfMissing = FALSE
  WriteMode = "overwrite"
INVARIANTS TypeOK SubListsTheSame
PROPERTIES RefinesTree OrphanSources
