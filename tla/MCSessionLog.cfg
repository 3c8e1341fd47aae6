CONSTANTS
  Writer = {w1, w2, w3, w4, w5}
  Reader = {r}
  MaxItems = 3
  Limit = 2
SPECIFICATION Spec
SYMMETRY AnyWriter
CHECK_DEADLOCK FALSE
INVARIANT TypeOK
INVARIANT SequencesAreDense
PROPERTY KeepsLog
INVARIANT PagesFollow
INVARIANT PagesComplete
