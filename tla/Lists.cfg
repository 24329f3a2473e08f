CONSTANTS
  Elems = {e1, e2, e3}
  Prios = {1, 2}
  Systems <- Both
  Batch = 1
  Rcv = Rcv
  None = None
  MemCpus = {m1, m2}
  Units = 5
  NumSizes = 3
  SlabIndex = 1
  SlabElems = 2
  BlockIndices = {0}
  MaxEmpty = 1
  Null = Null
SPECIFICATION ListsSpec
SYMMETRY Symmetry
CHECK_DEADLOCK FALSE
INVARIANTS ListMatchesQueue WalkComplete MemoryOwned FreeBlocksMerged SlabsSorted
PROPERTIES ImplementsPrioQueue
