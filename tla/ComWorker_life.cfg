SPECIFICATION FairSpec
CONSTANTS
  k1 = k1
  k2 = k2
  k3 = k3
  Calls <- MCCalls
  MaxChan = 2
INVARIANTS NothingRunsAfterDrop
PROPERTIES NobodyWaits FailureIsExplained
CHECK_DEADLOCK FALSE
