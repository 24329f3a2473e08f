CONSTANTS
  n1 = n1
  n2 = n2
  n3 = n3
  d1 = d1
  d2 = d2
  Threads = {t1, t2}
  Movable = {t1, t2}
  Cpus = {c1, c2}
  Locks = {1}
  None = None
SPECIFICATION LocksSpec
SYMMETRY Symmetry
INVARIANTS OneCpu RunningUnderLock OwnersExact
