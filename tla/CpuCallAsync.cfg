CONSTANTS
  None = None
  Cpus = {1, 2}
  Systems <- Others
  Async = TRUE
  MaxCalls = 2
SPECIFICATION Spec
CHECK_DEADLOCK FALSE
INVARIANT CallFinished
