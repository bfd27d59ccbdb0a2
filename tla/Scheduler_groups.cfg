SPECIFICATION FairSpec
CONSTANTS
  Groups = {g1, g2}
  Rates <- MCRates
  Workers = {w1}
  MaxLag = 1
  MaxQueue = 2
INVARIANTS ScheduledWhileRegistered NoLostWakeup
PROPERTIES NoCatchUp RegisteredIsServed
CHECK_DEADLOCK FALSE
