CONSTANTS
  Turn = {t1}
  Waiter = {w}
  None = None
  TTL = 6
  Renewal = 2
  RenewErrors = TRUE
  LateRenewals = TRUE
SPECIFICATION FairSpec
INVARIANT TypeOK
INVARIANT OnScheduleOwns
PROPERTY NoTheft
PROPERTY AbandonedLockExpires
PROPERTY WaiterServed
PROPERTY KeepsContract
