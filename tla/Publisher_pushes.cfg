SPECIFICATION MCFairSpec
CONSTANTS
  Scale <- MCScale
  Items = {i1}
  Ranges <- MCRanges
  Readings <- MCReadings
  MaxAdvise = 1
  MaxChanges = 3
  Workers = {w1, w2}
  Refreshers = {r1}
  MaxQueued = 1
  Deadbands = {0, 2}
INVARIANTS LateCallbacksAreInFlight
PROPERTIES SettlesOnReading SettlesWithinDeadband
CHECK_DEADLOCK FALSE
