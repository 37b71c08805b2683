SPECIFICATION FairSpec
CONSTANTS
  FailureThreshold = 2
  Cooldown = 2
  Tasks = {t1, t2, t3}
INVARIANT TripsExactly
INVARIANT FailsFast
INVARIANT IInv
PROPERTY KeepsContract
PROPERTY HealsItself
