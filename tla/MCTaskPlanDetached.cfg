CONSTANTS
  c1 = c1
  c2 = c2
  c3 = c3
  lost = lost
  next = next
  Call <- MCCall
  Run <- MCRun
  RunOf <- MCRunOf
  a = a
  b = b
  d = d
  x = x
  Id = {a, b, d}
  Status = {"pending", "done"}
  BadStatus = x
  MaxTasks = 2
  NoPlan = NoPlan
  Input <- MCInput
  Earlier <- MCEarlier
SPECIFICATION Spec
SYMMETRY Symmetry
CHECK_DEADLOCK FALSE
PROPERTY SnapshotGuard
