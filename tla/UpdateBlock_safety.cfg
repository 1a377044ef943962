\* Two calls with up to three parts on a block, an item or the document.
CONSTANTS
  a = a
  b = b
  p = p
  None = None
  Root = Root
  Calls <- CallsTwo
  Texts <- AllTexts
  MaxParts = 3
  Doc0 <- TheDoc
  Edits = 1
SPECIFICATION UpdateSpec
CHECK_DEADLOCK FALSE
SYMMETRY SymTwo
INVARIANT UpdateTypeOK
INVARIANT OrderIsKept
INVARIANT RestIsKept
PROPERTY OkIsWhole
