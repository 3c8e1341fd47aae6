CONSTANTS
  Turn = {t1, t2}
  Deletion = {d}
  CallId = {a, b}
  Unregistered = {b}
  NoCall = NoCall
  MaxReplies = 2
  WithTools = {t1}
  MaxPlanEvents = 1
  t1 = t1
  t2 = t2
  d = d
  LostAt <- MCLostAt
SPECIFICATION FairSpec
CHECK_DEADLOCK FALSE
INVARIANT TypeOK
INVARIANT HistoryIsFresh
INVARIANT RunsAreContiguous
INVARIANT StreamShape
INVARIANT ToolCallsEnd
INVARIANT CompletedTurnsAreWhole
PROPERTY DeletionWaits
PROPERTY RequestsEnd
