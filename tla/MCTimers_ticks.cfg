SPECIFICATION Spec
CONSTANTS
  NSEC_PER_MSEC = 1000
  WORD = 4
  InterruptTable <- Table
  None = None
  Sources = {1, 2, 3, 5}
  TickRates = {500, 1500, 1200}
  Timeouts = {1, 3}
  MaxTimers = 3
  MaxSystemTimers = 2
  MaxSince = 12
CHECK_DEADLOCK FALSE
INVARIANTS MissedBounded ActiveIsClosest
PROPERTIES NotEarly SingleShotsExpire
