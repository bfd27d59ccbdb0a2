SPECIFICATION FairSpec
CONSTANTS
  Subs = {s1, s2}
  MaxFaults = 2
  MaxChan = 2
  SharedCookies = FALSE
INVARIANTS Inv
PROPERTIES ImplementsFeeds SilenceIsRepaired
