CONSTANTS
  Systems <- All
  Spaces = {a, b}
  Sigma0 = s0
  MaxDepth = 1
  Treemaps = {0, 1, 2, 3}
  N_spaces = 1
  None = None
  t1 = t1
  t2 = t2
  Procs = {t1, t2}
  Quotas = {root, a, b}
  Root = root
  Limits = {1, 3}
  Sizes = {1, 2}
  FactorySize = 1
  QInvalid = 16
  NoParent = NoParent
SPECIFICATION MemorySpec
SYMMETRY Symmetry
INVARIANTS PageTablesMatch NoStaleTlb QuotaExact DeletedWhenUnused
PROPERTIES ImplementsForest
