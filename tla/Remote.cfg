CONSTANTS
  x1 = x1
  x2 = x2
  tgt = tgt
  p1 = p1
  p2 = p2
  p3 = p3
  None = None
  Cpus = {p1, p2, p3}
  Requesters = {x1, x2}
  Targets = {tgt}
  Systems <- All
SPECIFICATION Spec
CHECK_DEADLOCK FALSE
INVARIANTS AllAtHome DrqExactlyOnce NoForgottenDrq NoForgottenMigration
