CONSTANTS
  Timeouts = {t1}
  Timeslice = ts
  Systems <- Both
  MinInterval = 1
  MaxIntervals = {2, 4}
  MaxClock = 14
SPECIFICATION Spec
CHECK_DEADLOCK FALSE
INVARIANTS TimerComes
PROPERTIES ImplementsTimeoutSet
