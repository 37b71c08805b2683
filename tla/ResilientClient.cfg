SPECIFICATION CFairSpec
CONSTANTS
  Requests = {q1, q2}
  Refreshers = {r1}
  FreshFor = 2
  StaleFor = 3
  LockTTL = 2
  WaitMax = 1
  FetchMax = 1
  MaxVersion = 1
  MaxFaults = 1
  MayFail = TRUE
  NoEntry = NoEntry
  FailureThreshold = 2
  Cooldown = 2
  Kinds = {"HTTPError", "other"}
INVARIANT DataWhileKept
PROPERTY CacheRecovers
PROPERTY FetchReturnsAlways
