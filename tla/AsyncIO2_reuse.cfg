SPECIFICATION Spec
CONSTANTS
  Tids <- MCTids
  Items = {i1}
  Sinks = {s1}
  MaxCalls = 3
  TidPolicy = "settled"
INVARIANT NoTransactionLost
CHECK_DEADLOCK FALSE
