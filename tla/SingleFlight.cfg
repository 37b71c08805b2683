SPECIFICATION SSpec
CONSTANTS
  Requests = {q1, q2, q3}
  Refreshers = {r1}
  FreshFor = 3
  StaleFor = 4
  LockTTL = 3
  WaitMax = 2
  FetchMax = 4
  MaxVersion = 2
  MaxFaults = 0
  MayFail = FALSE
  NoEntry = NoEntry
SYMMETRY Symmetry
INVARIANT OneUpstreamCall
PROPERTY NeverOverwrittenByOlder
