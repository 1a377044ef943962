\* Two calls of any tool on documents at four paths, every fault, a lagging index.
CONSTANTS
  a = a
  b = b
  f = f
  g = g
  t = t
  u = u
  None = None
  Calls <- CallsTwo
  Folders <- FoldersTwo
  Notebook <- InOne
  Titles <- TitlesTwo
  Today = u
  Wanted <- WantedTwo
  Docs0 <- OneDoc
  MaxItems = 2
  Removals = 1
SPECIFICATION Spec
CHECK_DEADLOCK FALSE
SYMMETRY Sym
INVARIANT ReportIsExact
PROPERTY UpsertIsIdempotent
