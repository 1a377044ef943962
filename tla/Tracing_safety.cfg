\* Three calls in two contexts, with groups of two tasks, over a buffer of one.
CONSTANTS
  a = a
  b = b
  c = c
  x = x
  y = y
  k = k
  l = l
  None = None
  Calls <- CallsThree
  Contexts <- ContextsTwo
  Kids <- KidsTwo
  BufferSize = 0
SPECIFICATION Spec
CHECK_DEADLOCK FALSE
SYMMETRY Sym
INVARIANT LinesAreOwn
INVARIANT StatusIsOwn
INVARIANT BufferIsRecent
INVARIANT ErrorLeadsToRecord
