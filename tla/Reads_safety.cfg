\* One call of any reading tool while two edits are made and the index lags.
CONSTANTS
  doc = doc
  h = h
  g = g
  q = q
  r = r
  None = None
  Blank = Blank
  Root = doc
  Blocks <- FourBlocks
  Kind <- KindOf
  Kids0 <- KidsOf
  Depths <- DefaultDepth
  Limit = 2
  FirstN = 2
  Around = 1
  MaxHits = 1
  Edits = 2
SPECIFICATION Spec
CHECK_DEADLOCK FALSE
INVARIANT BlockIsRegular
INVARIANT TreeIsRegular
INVARIANT OutlineIsRegular
INVARIANT SummaryIsRegular
INVARIANT ContextIsRegular
