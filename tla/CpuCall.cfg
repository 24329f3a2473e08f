CONSTANTS
  None = None
  Cpus = {1, 2, 3, 4}
  Systems <- All
  Async = FALSE
  MaxCalls = 2
SPECIFICATION FairSpec
CHECK_DEADLOCK FALSE
INVARIANTS CallFinished
PROPERTIES CallReturns
