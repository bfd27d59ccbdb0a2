SPECIFICATION FairSpec
CONSTANTS
  Tids <- MCTids
  Items = {i1, i2}
  Sinks = {s1}
  MaxCalls = 2
  TidPolicy = "any"
INVARIANTS CallbacksAreSound UnsharedReadKept
PROPERTIES ImplementsTransactions UnsharedReadEnds
CHECK_DEADLOCK FALSE
