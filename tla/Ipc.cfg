CONSTANTS
  c1 = c1
  c2 = c2
  srv = srv
  t1 = t1
  t2 = t2
  irq = irq
  wq = wq
  busy = busy
  p1 = p1
  p2 = p2
  p3 = p3
  None = None
  LastSender = LastSender
  Threads = {c1, c2, srv}
  Cpus = {1, 2, 3}
  Systems <- Encounters
SPECIFICATION AllSpec
CHECK_DEADLOCK FALSE
INVARIANTS
  TransferUnderFlag OkMeansDone CleanAfterIpc NoLostRendezvous
  NoForgottenIrq MaskedMeansQueued
  ReportsGrant NoForgottenWaiter MaskedMeansPending
