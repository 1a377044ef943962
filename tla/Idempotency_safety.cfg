\* Two tools sharing keys at the edges of validate_key, over a cache of two.
CONSTANTS
  t1 = t1
  t2 = t2
  kGood = kGood
  kOther = kOther
  kLong = kLong
  kSpace = kSpace
  kEmpty = kEmpty
  r1 = r1
  r2 = r2
  r3 = r3
  r4 = r4
  None = None
  Tools <- ToolsTwo
  Keys <- KeysEdges
  KeyLen <- LenEdges
  Matches <- MatchEdges
  Requests <- ReqFour
  MaxSize = 2
  TTL = 2
  MaxTime = 3
SPECIFICATION Spec
SYMMETRY Sym
CHECK_DEADLOCK FALSE
INVARIANT CacheIsGenuine
INVARIANT Bounded
INVARIANT FreshIsCached
INVARIANT ReplayIsGenuine
PROPERTY FreshRetryIsReplayed
PROPERTY ImplementsReplayCache
