\* The replay cache after a kernel that could not be reached.
CONSTANTS
  a = a
  b = b
  block = block
  doc = doc
  book = book
  k = k
  None = None
  Calls <- CallsOne
  Targets <- AllTargets
  Kind <- KindOf
  Contents <- ContentsOf
  Keys <- KeysOne
  Faults <- AllFaults
  Lagging = FALSE
SPECIFICATION Spec
CHECK_DEADLOCK FALSE
INVARIANT FailuresAreNotCached
