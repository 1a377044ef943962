\* Two checks at a time over two intervals, soon after boot, of a kernel that comes and goes.
CONSTANTS
  a = a
  b = b
  None = None
  Checks <- ChecksTwo
  Ttl = 4
  Timeout = 1
  Boot = 2
  Flaps = TRUE
  MaxTime = 10
SPECIFICATION ProbeSpec
CHECK_DEADLOCK FALSE
SYMMETRY SymTwo
INVARIANT VerdictCatchesUp
INVARIANT LoadIsBounded
