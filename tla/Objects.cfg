CONSTANTS
  Threads = {p1, p2}
  Objs = {1, 2}
  Tasks <- MCTasks
  Slots <- MCSlots
  FirstCaps <- MCFirst
  Attrs <- MCAttrs
  SelfOvermap = FALSE
  MaxDec = 0
  None = None
SPECIFICATION ObjectsSpec
SYMMETRY Symmetry
INVARIANTS ReapedOnce DatabaseExact InUseExists
