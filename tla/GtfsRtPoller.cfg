SPECIFICATION Spec
CONSTANTS
  Workers = {wA, wB}
  Trips = {d, g}
  Delfi = {d}
  Keys = {s1}
  Interval = 2
  LockTTL = 1
  TTL = 5
  PollMax = 2
  MaxChanges = 1
  MaxFaults = 1
  None = None
SYMMETRY Symmetry
INVARIANT IInv
INVARIANT NeverFarBehind
INVARIANT NoGap
INVARIANT NamespacesMatch
INVARIANT KeysExpire
