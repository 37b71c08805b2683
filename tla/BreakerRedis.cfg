SPECIFICATION FairSpec
CONSTANTS
  FailureThreshold = 2
  Cooldown = 1
  wA = wA
  wB = wB
  a1 = a1
  a2 = a2
  b1 = b1
  NoEntry = NoEntry
  Workers <- MCWorkers
  Home <- MCHome
  Tasks = {a1, a2, b1}
  MaxInFlight = 2
  MaxFaults = 1
INVARIANT CopiesCoherent
INVARIANT IInv
INVARIANT RefusalsEnd
PROPERTY HealsEverywhere
