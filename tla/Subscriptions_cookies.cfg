SPECIFICATION Spec
CONSTANTS
  Subs = {s1, s2}
  MaxFaults = 0
  MaxChan = 2
  SharedCookies = TRUE
INVARIANT HandleNamesItsSubscription
