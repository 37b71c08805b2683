SPECIFICATION FairSpec
CONSTANTS
  wA = wA
  wB = wB
  a1 = a1
  a2 = a2
  a3 = a3
  b1 = b1
  Workers <- MCWorkers
  Home <- MCHome
  Tasks = {a1, a2, a3, b1}
  Limit = 2
  Interval = 2
INVARIANT WithinLimit
PROPERTY Paced
PROPERTY EveryoneServed
