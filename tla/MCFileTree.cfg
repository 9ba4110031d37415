SPECIFICATION Spec
CONSTANTS
  Names = {a, b}
  Dot = Dot
  MaxDepth = 2
  MaxSize = 0
  None = None
  CreateIfMissing = TRUE
  WriteMode = "overwrite"
SYMMETRY Symmetric
INVARIANTS ListsChildren
PROPERTIES OrphanSources RefinesTree
