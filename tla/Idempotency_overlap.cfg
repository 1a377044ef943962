\* README's runbook claim, in one process and with room to spare.
CONSTANTS
  t1 = t1
  t2 = t2
  kGood = kGood
  kOther = kOther
  kLong = kLong
  kSpace = kSpace
  kEmpty = kEmpty
  r1 = r1
  r2 = r2
  r3 = r3
  r4 = r4
  None = None
  Tools <- ToolsOne
  Keys <- KeysTwo
  KeyLen <- LenTwo
  Matches <- KeysTwo
  Requests <- ReqThree
  MaxSize = 3
  TTL = 3
  MaxTime = 2
SPECIFICATION OneProcess
CHECK_DEADLOCK FALSE
INVARIANT RetryNeverDuplicates
