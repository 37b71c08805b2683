SPECIFICATION FairSpec
CONSTANTS
  Workers = {wA, wB}
  Points = {p1, p2}
  Interval = 10
  LockTTL = 9
  SnapshotTTL = 30
  PollMax = 2
  MaxChanges = 1
  MaxFaults = 1
  MaxLockFaults = 1
  Nothing = Nothing
INVARIANT IInv
INVARIANT SnapshotStays
PROPERTY OnlyFaultsForget
PROPERTY NewestWins
PROPERTY KeepsPulling
