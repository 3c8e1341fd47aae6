CONSTANTS
  Turn = {t1, t2}
  Waiter = {}
  None = None
  TTL = 6
  Renewal = 2
  RenewErrors = TRUE
  LateRenewals = FALSE
SPECIFICATION Spec
INVARIANT MutualExclusion
