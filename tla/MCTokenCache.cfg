CONSTANTS
  Request = {r1, r2, r3}
  Token = {k1}
  NoToken = NoToken
  NoChannel = NoChannel
SPECIFICATION FairSpec
INVARIANT TypeOK
INVARIANT SingleFlight
INVARIANT ReturnedWasVerified
INVARIANT NoLostWaiter
PROPERTY SharesToken
PROPERTY NoWrongfulEviction
PROPERTY EveryCallReturns
