\* Two calls, every kernel and every fault.
CONSTANTS
  c1 = c1
  c2 = c2
  Calls <- CallsTwo
  MaxAttempts = 2
  HasToken = TRUE
  KernelModes <- AllModes
  Faults <- AllFaults
SPECIFICATION FairSpec
CHECK_DEADLOCK FALSE
INVARIANT NoRepeatAfterVerdict
INVARIANT ReportIsExact
INVARIANT LoginOnce
INVARIANT PostBudget
PROPERTY SessionIsUsed
PROPERTY ImplementsKernelCall
PROPERTY EveryCallEnds
