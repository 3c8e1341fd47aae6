CONSTANTS
  Writer = {w1, w2, w3, w4}
  Reader = {r}
  MaxItems = 2
  Limit = 1
SPECIFICATION Spec
SYMMETRY AnyWriter
CHECK_DEADLOCK FALSE
INVARIANT SnapshotIsRead
