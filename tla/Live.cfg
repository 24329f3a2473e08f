CONSTANTS
  r1 = r1
  r2 = r2
  i1 = i1
  Cpus = {r1, r2}
  Items = {i1, i2}
  t1 = t1
  t2 = t2
  c1 = c1
  c2 = c2
  srv = srv
  None = None
  LastSender = LastSender
SPECIFICATION LiveSpec
CHECK_DEADLOCK FALSE
INVARIANTS GracePeriod
PROPERTIES ItemFreed DestroyerGetsThrough CallAnswered
