CONSTANTS
  Cpus = {c1, c2}
  Watched = c1
  Spaces = {s1, s2, s3, s4}
  AsidBase = 0
  AsidNum = 3
  Gens = 5
  MaxRolls = 2
  Invalid = Invalid
SPECIFICATION AsidSpec
SYMMETRY Symmetry
CHECK_DEADLOCK FALSE
INVARIANTS NoForeignTlbHitUnlessStale UniqueUnlessStale
