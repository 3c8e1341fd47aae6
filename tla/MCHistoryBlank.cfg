CONSTANTS
  ark1 = ark1
  ark2 = ark2
  router = router
  a = a
  b = b
  Model <- MCModel
  Stateless <- MCStateless
  NoModel = NoModel
  CallId <- MCCallId
  NoCall = NoCall
  Limit = 3
  TTL = 1
  MaxMessages = 6
  MaxTime = 2
SPECIFICATION Spec
CHECK_DEADLOCK FALSE
INVARIANT StoredMessagesAreAccepted
