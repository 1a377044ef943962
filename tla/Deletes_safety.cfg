\* Two calls of any tool on any target, under every fault and a lagging index.
CONSTANTS
  a = a
  b = b
  block = block
  doc = doc
  book = book
  k = k
  None = None
  Calls <- CallsTwo
  Targets <- AllTargets
  Kind <- KindOf
  Contents <- ContentsOf
  Keys <- KeysOne
  Faults <- AllFaults
  Lagging = TRUE
SPECIFICATION Spec
CHECK_DEADLOCK FALSE
SYMMETRY SymTwo
INVARIANT RemovalHasConsent
INVARIANT RefusalIsForgotten
INVARIANT ToolMatchesKind
INVARIANT AnsweredIsGone
INVARIANT EmptyIsChecked
